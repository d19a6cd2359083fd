---------------------------- MODULE StoreProofs ----------------------------
(***************************************************************************)
(* What replays of the Run Log give, whichever the constants of            *)
(* RunLogReplay: with one writer at a time, always the fold of the events. *)
(* And of BlobStore: what an event names is there.                         *)
(*                                                                         *)
(* The fold is a recursive function, so facts about it need induction over *)
(* the length of the Log.  It is done by least counterexample, from the    *)
(* well-foundedness of strict inclusion between finite sets.               *)
(***************************************************************************)
EXTENDS RunLogReplay, BlobStore, FiniteSetTheorems, SequenceTheorems, TLAPS

(* Every non-empty set of naturals has a least element: the induction over
   the length of a Log below is done by least counterexample. *)
LEMMA LeastNatural ==
    ASSUME NEW T, T \subseteq Nat, T # {}
    PROVE  \E x \in T : \A y \in T : x <= y
<1> DEFINE Below(n) == 0 .. n - 1
           Segments == {Below(n) : n \in T}
<1>1. Segments \subseteq FiniteSubsetsOf(Nat)
  <2>1. \A n \in T : IsFiniteSet(Below(n)) /\ Below(n) \in SUBSET Nat
    BY FS_Interval
  <2> HIDE DEF Below
  <2> QED
    BY <2>1 DEF FiniteSubsetsOf
<1>2. PICK s \in Segments : \A r \in Segments : ~(<<r, s>> \in StrictSubsetOrdering(Nat))
  <2>1. Segments # {}
    OBVIOUS
  <2> HIDE DEF Segments
  <2> QED
    BY <1>1, <2>1, FS_StrictSubsetOrderingWellFounded, WFMin
<1>3. PICK x \in T : s = Below(x)
  BY <1>2
<1>4. ASSUME NEW y \in T, y < x PROVE FALSE
  <2>1. Below(y) \subseteq s /\ y \in s /\ y \notin Below(y) /\ s \subseteq Nat
    BY <1>3, <1>4
  <2>2. Below(y) \in Segments
    OBVIOUS
  <2> HIDE DEF Below, Segments
  <2>3. <<Below(y), s>> \in StrictSubsetOrdering(Nat)
    BY <2>1 DEF StrictSubsetOrdering
  <2> QED
    BY <1>2, <2>2, <2>3
<1> QED
  BY <1>4

-----------------------------------------------------------------------------
(* The fold. *)

IsFold(f, base, from, end, events) ==
    f = [n \in from .. end |->
           IF n = from THEN base ELSE Reduce(f[n - 1], n - 1, events[n].body)]

(* There is such a function, up to any length. *)
LEMMA FoldExists ==
    ASSUME NEW base, NEW from \in Nat, NEW end \in Nat, NEW events
    PROVE  \E f : IsFold(f, base, from, end, events)
<1> DEFINE T == {n \in Nat : ~ \E f : IsFold(f, base, from, n, events)}
<1> SUFFICES ASSUME T # {} PROVE FALSE
  OBVIOUS
<1>1. PICK x \in T : \A y \in T : x <= y
  BY LeastNatural
<1>2. CASE x < from
  <2>1. IsFold([n \in {} |-> base], base, from, x, events)
    BY <1>2 DEF IsFold
  <2> QED
    BY <2>1
<1>3. CASE x = from
  <2> DEFINE f == [n \in from .. from |-> base]
  <2>1. IsFold(f, base, from, from, events)
    BY DEF IsFold
  <2> QED
    BY <1>3, <2>1
<1>4. CASE x > from
  <2>1. x - 1 \in Nat /\ x - 1 \notin T
    BY <1>1, <1>4
  <2>2. PICK g : IsFold(g, base, from, x - 1, events)
    BY <2>1
  <2> DEFINE f == [n \in from .. x |->
                     IF n = x THEN Reduce(g[x - 1], x - 1, events[x].body) ELSE g[n]]
  <2>3. ASSUME NEW n \in from .. x
        PROVE  f[n] = IF n = from THEN base ELSE Reduce(f[n - 1], n - 1, events[n].body)
    <3>1. CASE n = x
      <4>1. f[n - 1] = g[x - 1] /\ f[n] = Reduce(g[x - 1], x - 1, events[x].body)
        BY <1>4, <3>1
      <4> QED
        BY <1>4, <3>1, <4>1
    <3>2. CASE n # x /\ n # from
      <4>1. n \in from .. x - 1 /\ f[n] = g[n] /\ f[n - 1] = g[n - 1]
        BY <3>2
      <4>2. g[n] = Reduce(g[n - 1], n - 1, events[n].body)
        BY <2>2, <3>2, <4>1 DEF IsFold
      <4> QED
        BY <3>2, <4>1, <4>2
    <3>3. CASE n # x /\ n = from
      <4>1. n \in from .. x - 1 /\ f[n] = g[n]
        BY <3>3
      <4>2. g[n] = base
        BY <2>2, <3>3, <4>1 DEF IsFold
      <4> QED
        BY <3>3, <4>1, <4>2
    <3> QED
      BY <3>1, <3>2, <3>3
  <2>4. IsFold(f, base, from, x, events)
    <3>1. f = [n \in from .. x |-> f[n]]
      OBVIOUS
    <3> HIDE DEF f
    <3> QED
      BY <2>3, <3>1 DEF IsFold
  <2> QED
    BY <2>4
<1> QED
  BY <1>2, <1>3, <1>4

(* Two such functions agree as far as the events do. *)
LEMMA FoldsAgree ==
    ASSUME NEW base, NEW from \in Nat, NEW m \in Nat, NEW n \in Nat, NEW ev1, NEW ev2,
           NEW f, NEW g, IsFold(f, base, from, m, ev1), IsFold(g, base, from, n, ev2),
           NEW k \in Nat, from <= k, k <= m, k <= n,
           \A i \in from + 1 .. k : ev1[i].body = ev2[i].body
    PROVE  f[k] = g[k]
<1> DEFINE T == {i \in from .. k : f[i] # g[i]}
<1> SUFFICES ASSUME T # {} PROVE FALSE
  OBVIOUS
<1>1. PICK x \in T : \A y \in T : x <= y
  <2>1. T \subseteq Nat
    OBVIOUS
  <2> QED
    BY <2>1, LeastNatural
<1>2. x \in from .. m /\ x \in from .. n
  OBVIOUS
<1>3. CASE x = from
  <2>1. f[x] = base /\ g[x] = base
    BY <1>2, <1>3 DEF IsFold
  <2> QED
    BY <2>1
<1>4. CASE x # from
  <2>1. x - 1 \in from .. k /\ x - 1 \notin T
    BY <1>1, <1>4
  <2>2. f[x] = Reduce(f[x - 1], x - 1, ev1[x].body)
    BY <1>2, <1>4 DEF IsFold
  <2>3. g[x] = Reduce(g[x - 1], x - 1, ev2[x].body)
    BY <1>2, <1>4 DEF IsFold
  <2>4. ev1[x].body = ev2[x].body
    BY <1>4
  <2> QED
    BY <2>1, <2>2, <2>3, <2>4
<1> QED
  BY <1>3, <1>4

(* What FoldFrom is, without its recursive function. *)
LEMMA FoldIs ==
    ASSUME NEW base, NEW from \in Nat, NEW end \in Nat, NEW events
    PROVE  \E f : IsFold(f, base, from, end, events) /\ FoldFrom(base, from, end, events) = f[end]
<1> DEFINE f == CHOOSE f : f = [n \in from .. end |->
                   IF n = from THEN base ELSE Reduce(f[n - 1], n - 1, events[n].body)]
<1>1. FoldFrom(base, from, end, events) = f[end]
  BY DEF FoldFrom
<1>2. IsFold(f, base, from, end, events)
  <2>1. \E h : IsFold(h, base, from, end, events)
    BY FoldExists
  <2> QED
    BY <2>1, Zenon DEF IsFold
<1> QED
  BY <1>1, <1>2

(* The fold over no event is its start. *)
LEMMA FoldStart ==
    ASSUME NEW base, NEW from \in Nat, NEW events
    PROVE  FoldFrom(base, from, from, events) = base
<1>1. PICK f : IsFold(f, base, from, from, events) /\ FoldFrom(base, from, from, events) = f[from]
  BY FoldIs
<1> QED
  BY <1>1 DEF IsFold

(* The fold reads only the bodies of the events in its range. *)
LEMMA FoldSame ==
    ASSUME NEW base, NEW from \in Nat, NEW end \in Nat, from <= end, NEW ev1, NEW ev2,
           \A i \in from + 1 .. end : ev1[i].body = ev2[i].body
    PROVE  FoldFrom(base, from, end, ev1) = FoldFrom(base, from, end, ev2)
<1>1. PICK f : IsFold(f, base, from, end, ev1) /\ FoldFrom(base, from, end, ev1) = f[end]
  BY FoldIs
<1>2. PICK g : IsFold(g, base, from, end, ev2) /\ FoldFrom(base, from, end, ev2) = g[end]
  BY FoldIs
<1>3. f[end] = g[end]
  BY <1>1, <1>2, FoldsAgree
<1> QED
  BY <1>1, <1>2, <1>3

(* The last event. *)
LEMMA FoldStep ==
    ASSUME NEW base, NEW from \in Nat, NEW end \in Nat, from < end, NEW events
    PROVE  FoldFrom(base, from, end, events)
             = Reduce(FoldFrom(base, from, end - 1, events), end - 1, events[end].body)
<1> DEFINE last == end - 1
<1>0. last \in Nat /\ from <= last /\ last <= end /\ last <= last
  OBVIOUS
<1>1. PICK f : IsFold(f, base, from, last, events) /\ FoldFrom(base, from, last, events) = f[last]
  BY <1>0, FoldIs
<1>2. PICK g : IsFold(g, base, from, end, events) /\ FoldFrom(base, from, end, events) = g[end]
  BY FoldIs
<1>3. f[last] = g[last]
  <2> HIDE DEF last
  <2>1. \A i \in from + 1 .. last : events[i].body = events[i].body
    OBVIOUS
  <2> QED
    BY <1>0, <1>1, <1>2, <2>1, FoldsAgree
<1>4. g[end] = Reduce(g[last], last, events[end].body)
  BY <1>2 DEF IsFold
<1> QED
  BY <1>1, <1>2, <1>3, <1>4

(* A replay may start from any state on the way. *)
LEMMA FoldJoins ==
    ASSUME NEW base, NEW a \in Nat, NEW b \in Nat, NEW c \in Nat, a <= b, b <= c, NEW events
    PROVE  FoldFrom(FoldFrom(base, a, b, events), b, c, events) = FoldFrom(base, a, c, events)
<1> DEFINE Joined(n) == FoldFrom(FoldFrom(base, a, b, events), b, n, events)
           T == {n \in b .. c : Joined(n) # FoldFrom(base, a, n, events)}
<1> SUFFICES ASSUME T # {} PROVE FALSE
  OBVIOUS
<1>1. PICK x \in T : \A y \in T : x <= y
  <2>1. T \subseteq Nat
    OBVIOUS
  <2> QED
    BY <2>1, LeastNatural
<1>2. CASE x = b
  BY <1>2, FoldStart
<1>3. CASE x # b
  <2>1. x \in Nat /\ a < x /\ b < x /\ x - 1 \in b .. c /\ x - 1 \notin T
    BY <1>1, <1>3
  <2>2. Joined(x) = Reduce(Joined(x - 1), x - 1, events[x].body)
    BY <2>1, FoldStep
  <2>3. FoldFrom(base, a, x, events)
          = Reduce(FoldFrom(base, a, x - 1, events), x - 1, events[x].body)
    BY <2>1, FoldStep
  <2> HIDE DEF Joined
  <2> QED
    BY <2>1, <2>2, <2>3
<1> QED
  BY <1>2, <1>3

-----------------------------------------------------------------------------
(* Types. *)

States == [used : Nat, status : {"running", "suspended"}, last_seq : Nat,
           last_checkpoint : Nat \cup {None}]

Bodies == [kind : PlainKinds \cup {"checkpoint"}, hash : States \cup {None}]

(* reduce makes a state of a state, whatever the event; *)
LEMMA ReduceType ==
    ASSUME NEW s \in States, NEW seq \in Nat, NEW body \in Bodies
    PROVE  Reduce(s, seq, body) \in States
<1> DEFINE t == [s EXCEPT !.last_seq = seq]
<1>1. t \in States
  BY DEF States
<1>0. Reduce(s, seq, body) =
        CASE body.kind = "charged"    -> [t EXCEPT !.used = @ + 1]
          [] body.kind = "suspended"  -> [t EXCEPT !.status = "suspended"]
          [] body.kind = "checkpoint" -> [t EXCEPT !.last_checkpoint = seq]
          [] body.kind = "other"      -> t
  BY DEF Reduce
<1> HIDE DEF t
<1>2. CASE body.kind = "charged"
  <2>1. Reduce(s, seq, body) = [t EXCEPT !.used = @ + 1]
    BY <1>0, <1>2
  <2> QED
    BY <1>1, <2>1 DEF States
<1>3. CASE body.kind = "suspended"
  <2>1. Reduce(s, seq, body) = [t EXCEPT !.status = "suspended"]
    BY <1>0, <1>3
  <2> QED
    BY <1>1, <2>1 DEF States
<1>4. CASE body.kind = "checkpoint"
  <2>1. Reduce(s, seq, body) = [t EXCEPT !.last_checkpoint = seq]
    BY <1>0, <1>4
  <2> QED
    BY <1>1, <2>1 DEF States
<1>5. CASE body.kind = "other"
  BY <1>0, <1>1, <1>5
<1> QED
  BY <1>2, <1>3, <1>4, <1>5 DEF Bodies, PlainKinds

(* so does the fold, over any number of events. *)
LEMMA FoldType ==
    ASSUME NEW base \in States, NEW from \in Nat, NEW end \in Nat, from <= end, NEW events,
           \A i \in from + 1 .. end : events[i].body \in Bodies
    PROVE  FoldFrom(base, from, end, events) \in States
<1> DEFINE T == {n \in from .. end : FoldFrom(base, from, n, events) \notin States}
<1> SUFFICES ASSUME T # {} PROVE FALSE
  OBVIOUS
<1>1. PICK x \in T : \A y \in T : x <= y
  <2>1. T \subseteq Nat
    OBVIOUS
  <2> QED
    BY <2>1, LeastNatural
<1>2. CASE x = from
  BY <1>2, FoldStart
<1>3. CASE x # from
  <2>1. /\ x \in Nat /\ from < x /\ x - 1 \in Nat /\ x - 1 \in from .. end /\ x - 1 \notin T
        /\ events[x].body \in Bodies
    BY <1>1, <1>3
  <2>2. FoldFrom(base, from, x, events)
          = Reduce(FoldFrom(base, from, x - 1, events), x - 1, events[x].body)
    BY <2>1, FoldStep
  <2> QED
    BY <2>1, <2>2, ReduceType
<1> QED
  BY <1>2, <1>3

Phases == {"idle", "snapshot", "events", "replayed", "failed", "ready", "insert", "put_snapshot"}

Work == [pc : Phases, reads : BOOLEAN, target : Nat, from : Nat, state : States,
         base : States \cup {None}, body : Bodies \cup {None}, next : Nat]

Rows == [body : Bodies, writer : Procs]

Snapshots == [state : States \cup {Garbage}, hash : States]

StoreTypes ==
    /\ log \in Seq(Rows)
    /\ snapshots \in [Seqs -> Snapshots \cup {None}]
    /\ proc \in [Procs -> Work]
    /\ damage \in Nat /\ shared \in BOOLEAN
    /\ \A w \in Procs :
         /\ proc[w].pc \in {"insert", "put_snapshot"} => proc[w].next \in Seqs
         /\ proc[w].pc = "insert" => proc[w].body \in Bodies
         /\ proc[w].pc = "put_snapshot" => proc[w].base \in States

(* What a new run and a new process start from. *)
LEMMA NewTypes == NewState \in States /\ Idle \in Work
<1>1. NewState \in States
  BY DEF NewState, States
<1> QED
  BY <1>1 DEF Idle, Work, Phases

(* The latest of some sequence numbers is one of them. *)
LEMMA LatestIs ==
    ASSUME NEW S, S \subseteq Seqs, S # {}
    PROVE  Latest(S) \in S
<1> DEFINE T == {MaxEvents - s : s \in S}
<1>1. T \subseteq Nat /\ T # {}
  BY BoundsAssumption DEF Seqs
<1>2. PICK x \in T : \A y \in T : x <= y
  <2> HIDE DEF T
  <2> QED
    BY <1>1, LeastNatural
<1>3. PICK s \in S : x = MaxEvents - s
  BY <1>2
<1>4. \A t \in S : t <= s
  BY <1>2, <1>3, BoundsAssumption DEF Seqs
<1> QED
  BY <1>4 DEF Latest

(* The snapshot that a replay looks at. *)
LEMMA LatestSnapshot ==
    ASSUME StoreTypes, NEW target \in Nat, Candidates(target) # {}
    PROVE  LET seq == Latest(Candidates(target)) IN
             /\ seq \in Seqs /\ seq \in Nat /\ seq <= target
             /\ snapshots[seq] # None /\ snapshots[seq] \in Snapshots
<1> DEFINE seq == Latest(Candidates(target))
<1>1. Candidates(target) \subseteq Seqs
  BY DEF Candidates
<1>2. seq \in Candidates(target)
  BY <1>1, LatestIs
<1> QED
  BY <1>1, <1>2, BoundsAssumption DEF Candidates, StoreTypes, Seqs

(* A process that is not about to write may be anywhere. *)
LEMMA OneProcessTypes ==
    ASSUME StoreTypes, NEW p \in Procs, NEW r \in Work,
           proc' = [proc EXCEPT ![p] = r],
           r.pc \in {"insert", "put_snapshot"} => r.next \in Seqs,
           r.pc = "insert" => r.body \in Bodies,
           r.pc = "put_snapshot" => r.base \in States,
           log' \in Seq(Rows), snapshots' \in [Seqs -> Snapshots \cup {None}],
           damage' = damage, shared' \in BOOLEAN
    PROVE  StoreTypes'
BY DEF StoreTypes

(* The types, through the steps of a replay, *)
LEMMA ReplayTypes ==
    ASSUME StoreTypes, NEW p \in Procs, Replay(p)
    PROVE  StoreTypes'
<1> USE NewTypes
<1>1. proc[p] \in Work /\ log \in Seq(Rows) /\ snapshots \in [Seqs -> Snapshots \cup {None}]
      /\ shared \in BOOLEAN /\ Len(log) \in Nat
  BY DEF StoreTypes
<1>0. LastSeq \in Nat
  BY <1>1, EmptySeq DEF LastSeq
<1>2. CASE LoadRun(p)
  <2> DEFINE r == [Idle EXCEPT !.pc = "snapshot", !.target = LastSeq]
  <2>1. r \in Work /\ r.pc = "snapshot"
    BY <1>0, <1>1 DEF Work, Idle, Phases
  <2>2. proc' = [proc EXCEPT ![p] = r] /\ UNCHANGED <<log, snapshots, damage>> /\ shared' \in BOOLEAN
    BY <1>1, <1>2 DEF LoadRun, NowShared
  <2> HIDE DEF r
  <2> QED
    BY <1>1, <2>1, <2>2, OneProcessTypes
<1>3. CASE ReadRun(p)
  <2>1. PICK target \in Seqs \cup {LastSeq}, use_snapshots \in BOOLEAN :
          proc' = [proc EXCEPT ![p] =
                    [Idle EXCEPT !.pc = IF use_snapshots THEN "snapshot" ELSE "events",
                                 !.reads = TRUE, !.target = target]]
    BY <1>3 DEF ReadRun
  <2> DEFINE r == [Idle EXCEPT !.pc = IF use_snapshots THEN "snapshot" ELSE "events",
                               !.reads = TRUE, !.target = target]
  <2>2. r \in Work /\ r.pc \in {"snapshot", "events"}
    <3>1. target \in Nat
      BY <1>0, <2>1, BoundsAssumption DEF Seqs
    <3>2. (IF use_snapshots THEN "snapshot" ELSE "events") \in {"snapshot", "events"}
      OBVIOUS
    <3> QED
      BY <3>1, <3>2, NewTypes DEF Work, Idle, Phases
  <2>3. UNCHANGED <<log, snapshots, damage, shared>>
    BY <1>3 DEF ReadRun
  <2> HIDE DEF r
  <2>4. proc' = [proc EXCEPT ![p] = r]
    BY <2>1 DEF r
  <2> QED
    BY <1>1, <2>2, <2>3, <2>4, OneProcessTypes
<1>4. CASE NoSnapshot(p) \/ RejectSnapshot(p)
  <2> DEFINE r == [proc[p] EXCEPT !.pc = "events"]
  <2>1. r \in Work /\ r.pc = "events"
    BY <1>1 DEF Work, Phases
  <2>2. proc' = [proc EXCEPT ![p] = r] /\ UNCHANGED <<log, snapshots, damage, shared>>
    BY <1>4 DEF NoSnapshot, RejectSnapshot
  <2> HIDE DEF r
  <2> QED
    BY <1>1, <2>1, <2>2, OneProcessTypes
<1>5. CASE TakeSnapshot(p)
  <2> DEFINE seq == Latest(Candidates(proc[p].target))
             r == [proc[p] EXCEPT !.pc = "events", !.state = snapshots[seq].state, !.from = seq]
  <2>1. proc[p].target \in Nat /\ Candidates(proc[p].target) # {}
    BY <1>1, <1>5 DEF TakeSnapshot, Work
  <2>2. seq \in Nat /\ snapshots[seq] \in Snapshots
    BY <2>1, LatestSnapshot
  <2>3. /\ proc' = [proc EXCEPT ![p] = r] /\ UNCHANGED <<log, snapshots, damage, shared>>
        /\ snapshots[seq].state # Garbage
    BY <1>5 DEF TakeSnapshot
  <2>4. r \in Work /\ r.pc = "events"
    <3> HIDE DEF seq
    <3> QED
      BY <1>1, <2>2, <2>3 DEF Work, Phases, Snapshots
  <2> HIDE DEF r
  <2> QED
    BY <1>1, <2>3, <2>4, OneProcessTypes
<1>6. CASE SnapshotUndecodable(p)
  <2> DEFINE r == [Idle EXCEPT !.pc = "failed", !.reads = proc[p].reads]
  <2>1. r \in Work /\ r.pc = "failed"
    BY <1>1 DEF Work, Idle, Phases
  <2>2. proc' = [proc EXCEPT ![p] = r] /\ UNCHANGED <<log, snapshots, damage, shared>>
    BY <1>6 DEF SnapshotUndecodable
  <2> HIDE DEF r
  <2> QED
    BY <1>1, <2>1, <2>2, OneProcessTypes
<1>7. CASE ReplayEvents(p)
  <2> DEFINE end == MinOf(proc[p].target + 1, Len(log))
             state == IF end < proc[p].from THEN proc[p].state
                      ELSE FoldFrom(proc[p].state, proc[p].from, end, log)
             r == [proc[p] EXCEPT !.pc = "replayed", !.state = state]
  <2>1. proc' = [proc EXCEPT ![p] = r] /\ UNCHANGED <<log, snapshots, damage, shared>>
    BY <1>7 DEF ReplayEvents
  <2>2. end \in Nat /\ end <= Len(log)
    BY <1>1 DEF MinOf, Work
  <2>3. state \in States
    <3>1. proc[p].from \in Nat /\ proc[p].state \in States
      BY <1>1 DEF Work
    <3>2. CASE end < proc[p].from
      BY <3>1, <3>2
    <3>3. CASE ~(end < proc[p].from)
      <4> HIDE DEF end
      <4>1. \A i \in proc[p].from + 1 .. end : log[i].body \in Bodies
        <5>1. \A i \in 1 .. Len(log) : log[i] \in Rows
          BY <1>1
        <5>2. \A row \in Rows : row.body \in Bodies
          BY DEF Rows
        <5> QED
          BY <1>1, <2>2, <3>1, <5>1, <5>2
      <4>2. FoldFrom(proc[p].state, proc[p].from, end, log) \in States
        BY <2>2, <3>1, <3>3, <4>1, FoldType
      <4> QED
        BY <3>3, <4>2
    <3> QED
      BY <3>2, <3>3
  <2>4. r \in Work /\ r.pc = "replayed"
    <3> HIDE DEF state
    <3> QED
      BY <1>1, <2>3 DEF Work, Phases
  <2> HIDE DEF r
  <2> QED
    BY <1>1, <2>1, <2>4, OneProcessTypes
<1>8. CASE Return(p) \/ Crash(p)
  <2>1. proc' = [proc EXCEPT ![p] = Idle] /\ UNCHANGED <<log, snapshots, damage, shared>>
    BY <1>8 DEF Return, Crash
  <2>2. Idle.pc = "idle"
    BY DEF Idle
  <2> QED
    BY <1>1, <2>1, <2>2, OneProcessTypes
<1> QED
  BY <1>2, <1>3, <1>4, <1>5, <1>6, <1>7, <1>8 DEF Replay

(* through those of a writer, *)
LEMMA WriteTypes ==
    ASSUME StoreTypes, NEW w \in Procs, Write(w)
    PROVE  StoreTypes'
<1> USE NewTypes
<1>1. proc[w] \in Work /\ log \in Seq(Rows) /\ snapshots \in [Seqs -> Snapshots \cup {None}]
      /\ shared \in BOOLEAN /\ Len(log) \in Nat
  BY DEF StoreTypes
<1>2. CASE Start(w)
  <2> DEFINE r == [Idle EXCEPT !.pc = "ready"]
  <2>1. r \in Work /\ r.pc = "ready"
    BY DEF Work, Idle, Phases
  <2>2. proc' = [proc EXCEPT ![w] = r] /\ UNCHANGED <<log, snapshots, damage>> /\ shared' \in BOOLEAN
    BY <1>1, <1>2 DEF Start, NowShared
  <2> HIDE DEF r
  <2> QED
    BY <1>1, <2>1, <2>2, OneProcessTypes
<1>3. CASE Resume(w)
  <2> DEFINE r == [Idle EXCEPT !.pc = "ready", !.state = proc[w].state]
  <2>1. r \in Work /\ r.pc = "ready"
    BY <1>1 DEF Work, Idle, Phases
  <2>2. proc' = [proc EXCEPT ![w] = r] /\ UNCHANGED <<log, snapshots, damage, shared>>
    BY <1>3 DEF Resume
  <2> HIDE DEF r
  <2> QED
    BY <1>1, <2>1, <2>2, OneProcessTypes
<1>4. ASSUME NEW body \in Bodies, NEW base \in States \cup {None}, AppendReads(w, body, base)
      PROVE  StoreTypes'
  <2> DEFINE r == [proc[w] EXCEPT !.pc = "insert", !.next = Len(log), !.body = body, !.base = base]
  <2>1. r \in Work /\ r.pc = "insert" /\ r.body = body /\ r.next = Len(log)
    BY <1>1, <1>4 DEF Work, Phases
  <2>2. proc' = [proc EXCEPT ![w] = r] /\ UNCHANGED <<log, snapshots, damage, shared>>
    BY <1>4 DEF AppendReads
  <2>3. Len(log) \in Seqs
    BY <1>1, <1>4, BoundsAssumption DEF AppendReads, Seqs
  <2> HIDE DEF r
  <2> QED
    BY <1>1, <1>4, <2>1, <2>2, <2>3, OneProcessTypes
<1>5. CASE Emit(w)
  <2>1. PICK kind \in PlainKinds : AppendReads(w, Body(kind, None), None)
    BY <1>5 DEF Emit
  <2>2. Body(kind, None) \in Bodies
    BY DEF Body, Bodies
  <2> QED
    BY <1>4, <2>1, <2>2
<1>6. CASE Checkpoint(w)
  <2>1. Body("checkpoint", proc[w].state) \in Bodies /\ proc[w].state \in States
    BY <1>1 DEF Body, Bodies, Work
  <2> QED
    BY <1>4, <1>6, <2>1 DEF Checkpoint
<1>7. CASE Insert(w)
  <2> DEFINE r == [proc[w] EXCEPT !.pc = IF proc[w].base = None THEN "ready" ELSE "put_snapshot",
                                  !.state = Reduce(proc[w].state, proc[w].next, proc[w].body)]
  <2>1. proc' = [proc EXCEPT ![w] = r] /\ UNCHANGED <<snapshots, damage, shared>>
    BY <1>7 DEF Insert, Applied
  <2>2. proc[w].body \in Bodies /\ proc[w].next \in Seqs
    BY <1>7 DEF Insert, StoreTypes
  <2>3. Reduce(proc[w].state, proc[w].next, proc[w].body) \in States
    BY <1>1, <2>2, ReduceType DEF Work
  <2>4. log' \in Seq(Rows)
    <3>1. Row(w) \in Rows
      BY <2>2 DEF Row, Rows
    <3> QED
      BY <1>1, <1>7, <3>1 DEF Insert
  <2>5. /\ r \in Work /\ r.next \in Seqs /\ r.pc \in {"ready", "put_snapshot"}
        /\ r.pc = "put_snapshot" => r.base \in States
    BY <1>1, <2>2, <2>3 DEF Work, Phases
  <2> HIDE DEF r
  <2> QED
    BY <1>1, <2>1, <2>4, <2>5, OneProcessTypes
<1>8. CASE InsertConflicts(w)
  <2> DEFINE r == [Idle EXCEPT !.pc = "failed"]
  <2>1. r \in Work /\ r.pc = "failed"
    BY DEF Work, Idle, Phases
  <2>2. proc' = [proc EXCEPT ![w] = r] /\ UNCHANGED <<log, snapshots, damage, shared>>
    BY <1>8 DEF InsertConflicts
  <2> HIDE DEF r
  <2> QED
    BY <1>1, <2>1, <2>2, OneProcessTypes
<1>9. CASE PutSnapshot(w)
  <2> DEFINE r == [proc[w] EXCEPT !.pc = "ready", !.base = None]
  <2>1. r \in Work /\ r.pc = "ready"
    BY <1>1 DEF Work, Phases
  <2>2. proc' = [proc EXCEPT ![w] = r] /\ UNCHANGED <<log, damage, shared>>
    BY <1>9 DEF PutSnapshot
  <2>3. snapshots' \in [Seqs -> Snapshots \cup {None}]
    <3>1. proc[w].base \in States
      BY <1>9 DEF PutSnapshot, StoreTypes
    <3>2. [state |-> proc[w].base, hash |-> proc[w].base] \in Snapshots
      BY <3>1 DEF Snapshots
    <3> QED
      BY <1>1, <1>9, <3>2 DEF PutSnapshot
  <2> HIDE DEF r
  <2> QED
    BY <1>1, <2>1, <2>2, <2>3, OneProcessTypes
<1> QED
  BY <1>2, <1>3, <1>5, <1>6, <1>7, <1>8, <1>9 DEF Write

(* and through every step. *)
LEMMA StoreTypesHold ==
    /\ Init => StoreTypes
    /\ StoreTypes /\ [Next]_vars => StoreTypes'
<1>1. ASSUME Init PROVE StoreTypes
  <2>1. Idle.pc = "idle"
    BY DEF Idle
  <2>2. log \in Seq(Rows)
    BY <1>1 DEF Init
  <2>3. snapshots \in [Seqs -> Snapshots \cup {None}] /\ proc \in [Procs -> Work]
    BY <1>1, NewTypes DEF Init
  <2> QED
    BY <1>1, <2>1, <2>2, <2>3 DEF Init, StoreTypes
<1>2. ASSUME StoreTypes, DropSnapshots PROVE StoreTypes'
  BY <1>2 DEF DropSnapshots, StoreTypes
<1>3. ASSUME StoreTypes, Damage PROVE StoreTypes'
  <2>1. PICK s \in Seqs, state \in {Garbage, [NewState EXCEPT !.used = MaxEvents + 1]} :
          snapshots[s] # None /\ snapshots' = [snapshots EXCEPT ![s].state = state]
    BY <1>3 DEF Damage
  <2>2. state \in States \cup {Garbage}
    BY <2>1, NewTypes, BoundsAssumption DEF States
  <2>3. snapshots' = [snapshots EXCEPT ![s] = [snapshots[s] EXCEPT !.state = state]]
    BY <2>1
  <2>4. [snapshots[s] EXCEPT !.state = state] \in Snapshots
    BY <1>3, <2>1, <2>2 DEF StoreTypes, Snapshots
  <2>5. snapshots' \in [Seqs -> Snapshots \cup {None}]
    BY <1>3, <2>3, <2>4 DEF StoreTypes
  <2> QED
    BY <1>3, <2>5 DEF Damage, StoreTypes
<1>4. ASSUME StoreTypes, UNCHANGED vars PROVE StoreTypes'
  BY <1>4 DEF vars, StoreTypes
<1> QED
  BY <1>1, <1>2, <1>3, <1>4, ReplayTypes, WriteTypes DEF Next

-----------------------------------------------------------------------------
(* One writer at a time. *)

(* The fold of the first n events: of none, *)
LEMMA FoldOfNone ==
    ASSUME NEW events
    PROVE  FoldOf(events, 0) = NewState
BY FoldStart DEF FoldOf

(* of one more, *)
LEMMA FoldOfStep ==
    ASSUME NEW events, NEW n \in Nat
    PROVE  FoldOf(events, n + 1) = Reduce(FoldOf(events, n), n, events[n + 1].body)
<1> DEFINE m == n + 1
<1>1. m \in Nat /\ 0 < m /\ m - 1 = n
  OBVIOUS
<1> HIDE DEF m
<1>2. FoldFrom(NewState, 0, m, events)
        = Reduce(FoldFrom(NewState, 0, m - 1, events), m - 1, events[m].body)
  BY <1>1, FoldStep
<1> QED
  BY <1>1, <1>2 DEF FoldOf, m

(* and picked up in the middle, as a replay from a snapshot does. *)
LEMMA FoldOfJoins ==
    ASSUME NEW events, NEW a \in Nat, NEW c \in Nat, a <= c
    PROVE  FoldFrom(FoldOf(events, a), a, c, events) = FoldOf(events, c)
BY FoldJoins DEF FoldOf

(* An append changes no fold of what came before it. *)
LEMMA FoldOfAppend ==
    ASSUME NEW events \in Seq(Rows), NEW row \in Rows, NEW n \in 0 .. Len(events)
    PROVE  FoldOf(Append(events, row), n) = FoldOf(events, n)
<1> DEFINE first == 0
           longer == Append(events, row)
<1>1. \A i \in first + 1 .. n : longer[i].body = events[i].body
  BY AppendProperties
<1>2. first \in Nat /\ n \in Nat /\ first <= n
  OBVIOUS
<1>3. FoldFrom(NewState, first, n, longer) = FoldFrom(NewState, first, n, events)
  <2> HIDE DEF first, longer
  <2> QED
    BY <1>1, <1>2, FoldSame
<1> QED
  BY <1>3 DEF FoldOf

(* What a process may rely on. *)
Sound(r, events) ==
    /\ r.pc = "snapshot" => r.from = 0 /\ r.state = NewState
    /\ r.pc = "events" =>
         r.from <= r.target + 1 /\ r.from <= Len(events) /\ r.state = FoldOf(events, r.from)
    /\ ~r.reads /\ r.pc \in {"snapshot", "events"} => MinOf(r.target + 1, Len(events)) = Len(events)
    /\ ~r.reads /\ r.pc = "replayed" => r.state = FoldOf(events, Len(events))
    /\ r.pc \in {"ready", "insert", "put_snapshot"} =>
         ~r.reads /\ r.state = FoldOf(events, Len(events))
    /\ r.pc = "insert" =>
         /\ r.next = Len(events)
         /\ r.body.kind = "checkpoint" => r.body.hash = r.state
         /\ r.base # None => r.base = r.state
    /\ r.pc = "put_snapshot" =>
         r.next + 1 = Len(events) /\ r.base = FoldOf(events, r.next)

EachSound == \A p \in Procs : Sound(proc[p], log)

Alone == \A p, q \in Procs : Drives(p) /\ Drives(q) => p = q

(* A hash outlives the damage to its state. *)
SnapshotsFolded ==
    \A s \in Seqs : snapshots[s] # None =>
        /\ s < Len(log) /\ snapshots[s].hash = FoldOf(log, s)
        /\ damage = 0 => snapshots[s].state = snapshots[s].hash

SoloInv ==
    ~shared => EachSound /\ Alone /\ Mismatches(log) = {} /\ SnapshotsFolded

(* A step of one process that leaves the Log alone. *)
LEMMA OneProcessSound ==
    ASSUME StoreTypes, NEW p \in Procs, NEW r,
           EachSound, Alone, log' = log, proc' = [proc EXCEPT ![p] = r], Sound(r, log),
           r.pc # "idle" /\ ~r.reads => Drives(p) \/ \A q \in Procs : ~Drives(q)
    PROVE  EachSound' /\ Alone'
<1>1. proc'[p] = r /\ \A q \in Procs : q # p => proc'[q] = proc[q]
  BY DEF StoreTypes
<1>2. EachSound'
  BY <1>1 DEF EachSound
<1>3. Alone'
  BY <1>1 DEF Alone, Drives
<1> QED
  BY <1>2, <1>3

(* Who touches neither Log nor snapshots breaks nothing of them. *)
LEMMA StoreUntouched ==
    ASSUME UNCHANGED <<log, snapshots, damage>>, ~shared,
           Mismatches(log) = {}, SnapshotsFolded
    PROVE  Mismatches(log)' = {} /\ SnapshotsFolded'
<1>1. Mismatches(log)' = Mismatches(log)
  BY DEF Mismatches
<1>2. SnapshotsFolded'
  BY DEF SnapshotsFolded
<1> QED
  BY <1>1, <1>2

(* What a replay that has its snapshot answers. *)
LEMMA ReplayedState ==
    ASSUME StoreTypes, NEW p \in Procs, Sound(proc[p], log), ReplayEvents(p)
    PROVE  LET end == MinOf(proc[p].target + 1, Len(log)) IN
             proc' = [proc EXCEPT ![p] = [proc[p] EXCEPT !.pc = "replayed",
                                                         !.state = FoldOf(log, end)]]
<1> DEFINE end == MinOf(proc[p].target + 1, Len(log))
<1>1. proc[p] \in Work /\ Len(log) \in Nat
  BY DEF StoreTypes
<1>2. /\ proc[p].from \in Nat /\ end \in Nat /\ proc[p].from <= end
      /\ proc[p].state = FoldOf(log, proc[p].from)
  BY <1>1 DEF ReplayEvents, Sound, MinOf, Work
<1>3. proc' = [proc EXCEPT ![p] = [proc[p] EXCEPT !.pc = "replayed",
                 !.state = FoldFrom(proc[p].state, proc[p].from, end, log)]]
  <2>1. proc' = [proc EXCEPT ![p] = [proc[p] EXCEPT !.pc = "replayed",
                   !.state = IF end < proc[p].from THEN proc[p].state
                             ELSE FoldFrom(proc[p].state, proc[p].from, end, log)]]
    BY DEF ReplayEvents
  <2>2. ~(end < proc[p].from)
    BY <1>2
  <2> HIDE DEF end
  <2> QED
    BY <2>1, <2>2
<1> HIDE DEF end
<1>4. FoldFrom(proc[p].state, proc[p].from, end, log) = FoldOf(log, end)
  BY <1>2, FoldOfJoins
<1> QED
  BY <1>3, <1>4 DEF end

(* The strengthened invariant, through a replay, *)
LEMMA ReplaySolo ==
    ASSUME StoreTypes, SoloInv, ~shared, ~shared', NEW p \in Procs, Replay(p)
    PROVE  SoloInv'
<1>1. /\ proc[p] \in Work /\ log \in Seq(Rows) /\ Len(log) \in Nat
      /\ EachSound /\ Alone /\ Sound(proc[p], log)
      /\ Mismatches(log) = {} /\ SnapshotsFolded
  BY DEF StoreTypes, SoloInv, EachSound
<1>2. UNCHANGED <<log, snapshots, damage>>
  BY DEF Replay, LoadRun, ReadRun, NoSnapshot, TakeSnapshot, RejectSnapshot, SnapshotUndecodable,
         ReplayEvents, Return, Crash
<1> SUFFICES EachSound' /\ Alone'
  BY <1>1, <1>2, StoreUntouched DEF SoloInv
<1>3. CASE LoadRun(p)
  <2> DEFINE r == [Idle EXCEPT !.pc = "snapshot", !.target = LastSeq]
  <2>1. proc' = [proc EXCEPT ![p] = r] /\ \A q \in Procs : ~Drives(q)
    BY <1>3 DEF LoadRun, NowShared
  <2>2. r.pc = "snapshot" /\ r.target = LastSeq /\ r.from = 0 /\ r.state = NewState
    BY DEF Idle
  <2>3. MinOf(LastSeq + 1, Len(log)) = Len(log)
    BY <1>1, EmptySeq DEF MinOf, LastSeq
  <2>4. Sound(r, log)
    <3> HIDE DEF r
    <3> QED
      BY <2>2, <2>3 DEF Sound
  <2> HIDE DEF r
  <2> QED
    BY <1>1, <1>2, <2>1, <2>4, OneProcessSound
<1>4. CASE ReadRun(p)
  <2>1. PICK target \in Seqs \cup {LastSeq}, use_snapshots \in BOOLEAN :
          proc' = [proc EXCEPT ![p] =
                    [Idle EXCEPT !.pc = IF use_snapshots THEN "snapshot" ELSE "events",
                                 !.reads = TRUE, !.target = target]]
    BY <1>4 DEF ReadRun
  <2> DEFINE r == [Idle EXCEPT !.pc = IF use_snapshots THEN "snapshot" ELSE "events",
                               !.reads = TRUE, !.target = target]
  <2>2. /\ r.pc \in {"snapshot", "events"} /\ r.reads /\ r.target = target
        /\ r.from = 0 /\ r.state = NewState
    BY DEF Idle
  <2>3. target \in Nat
    BY <1>1, BoundsAssumption, EmptySeq DEF LastSeq, Seqs
  <2> HIDE DEF r
  <2>4. Sound(r, log)
    BY <1>1, <2>2, <2>3, FoldOfNone DEF Sound
  <2>5. proc' = [proc EXCEPT ![p] = r]
    BY <2>1 DEF r
  <2> QED
    BY <1>1, <1>2, <2>2, <2>4, <2>5, OneProcessSound
<1>5. CASE NoSnapshot(p) \/ RejectSnapshot(p)
  <2> DEFINE r == [proc[p] EXCEPT !.pc = "events"]
  <2>1. proc' = [proc EXCEPT ![p] = r] /\ proc[p].pc = "snapshot"
    BY <1>5 DEF NoSnapshot, RejectSnapshot
  <2>2. /\ r.pc = "events" /\ r.reads = proc[p].reads /\ r.target = proc[p].target
        /\ r.from = proc[p].from /\ r.state = proc[p].state /\ r.target \in Nat
    BY <1>1 DEF Work
  <2> HIDE DEF r
  <2>3. proc[p].from = 0 /\ proc[p].state = NewState
    BY <1>1, <2>1 DEF Sound
  <2>4. Sound(r, log)
    BY <1>1, <2>1, <2>2, <2>3, FoldOfNone DEF Sound
  <2>5. r.pc # "idle" /\ ~r.reads => Drives(p)
    BY <2>1, <2>2 DEF Drives
  <2> QED
    BY <1>1, <1>2, <2>1, <2>4, <2>5, OneProcessSound
<1>6. CASE TakeSnapshot(p)
  <2> DEFINE seq == Latest(Candidates(proc[p].target))
             r == [proc[p] EXCEPT !.pc = "events", !.state = snapshots[seq].state, !.from = seq]
  <2>1. proc[p].target \in Nat /\ Candidates(proc[p].target) # {}
    BY <1>1, <1>6 DEF TakeSnapshot, Work
  <2>2. seq \in Seqs /\ seq \in Nat /\ seq <= proc[p].target /\ snapshots[seq] # None
    BY <2>1, LatestSnapshot
  <2>3. /\ proc' = [proc EXCEPT ![p] = r] /\ proc[p].pc = "snapshot"
        /\ snapshots[seq].hash = snapshots[seq].state
    BY <1>6 DEF TakeSnapshot
  <2>4. seq < Len(log) /\ snapshots[seq].state = FoldOf(log, seq)
    <3> HIDE DEF seq
    <3>1. seq < Len(log) /\ snapshots[seq].hash = FoldOf(log, seq)
      BY <1>1, <2>2 DEF SnapshotsFolded
    <3> QED
      BY <2>3, <3>1
  <2>5. /\ r.pc = "events" /\ r.reads = proc[p].reads /\ r.target = proc[p].target
        /\ r.from = seq /\ r.state = FoldOf(log, seq)
    <3> HIDE DEF seq
    <3> QED
      BY <1>1, <2>4 DEF Work
  <2> HIDE DEF r, seq
  <2>6. Sound(r, log)
    BY <1>1, <2>1, <2>2, <2>3, <2>4, <2>5 DEF Sound
  <2>7. r.pc # "idle" /\ ~r.reads => Drives(p)
    BY <2>3, <2>5 DEF Drives
  <2> QED
    BY <1>1, <1>2, <2>3, <2>6, <2>7, OneProcessSound
<1>7. CASE SnapshotUndecodable(p)
  <2> DEFINE r == [Idle EXCEPT !.pc = "failed", !.reads = proc[p].reads]
  <2>1. proc' = [proc EXCEPT ![p] = r] /\ proc[p].pc = "snapshot"
    BY <1>7 DEF SnapshotUndecodable
  <2>2. r.pc = "failed" /\ r.reads = proc[p].reads
    BY DEF Idle
  <2> HIDE DEF r
  <2>3. Sound(r, log)
    BY <2>2 DEF Sound
  <2>4. r.pc # "idle" /\ ~r.reads => Drives(p)
    BY <2>1, <2>2 DEF Drives
  <2> QED
    BY <1>1, <1>2, <2>1, <2>3, <2>4, OneProcessSound
<1>8. CASE ReplayEvents(p)
  <2> DEFINE end == MinOf(proc[p].target + 1, Len(log))
             r == [proc[p] EXCEPT !.pc = "replayed", !.state = FoldOf(log, end)]
  <2>1. proc' = [proc EXCEPT ![p] = r] /\ proc[p].pc = "events"
    BY <1>1, <1>8, ReplayedState DEF ReplayEvents
  <2>2. r.pc = "replayed" /\ r.reads = proc[p].reads /\ r.state = FoldOf(log, end)
    <3> HIDE DEF end
    <3> QED
      BY <1>1 DEF Work
  <2> HIDE DEF r
  <2>3. ~r.reads => end = Len(log)
    BY <1>1, <2>1, <2>2 DEF Sound
  <2> HIDE DEF end
  <2>4. Sound(r, log)
    BY <2>2, <2>3 DEF Sound
  <2>5. r.pc # "idle" /\ ~r.reads => Drives(p)
    BY <2>1, <2>2 DEF Drives
  <2> QED
    BY <1>1, <1>2, <2>1, <2>4, <2>5, OneProcessSound
<1>9. CASE Return(p) \/ Crash(p)
  <2>1. proc' = [proc EXCEPT ![p] = Idle]
    BY <1>9 DEF Return, Crash
  <2>2. Idle.pc = "idle"
    BY DEF Idle
  <2>3. Sound(Idle, log)
    BY <2>2 DEF Sound
  <2> QED
    BY <1>1, <1>2, <2>1, <2>2, <2>3, OneProcessSound
<1> QED
  BY <1>3, <1>4, <1>5, <1>6, <1>7, <1>8, <1>9 DEF Replay

(* the append of one event, *)
LEMMA InsertSolo ==
    ASSUME StoreTypes, SoloInv, ~shared, NEW w \in Procs, Insert(w)
    PROVE  SoloInv'
<1> DEFINE end == Len(log)
           r == [proc[w] EXCEPT !.pc = IF proc[w].base = None THEN "ready" ELSE "put_snapshot",
                                !.state = Reduce(proc[w].state, proc[w].next, proc[w].body)]
<1>1. /\ proc[w] \in Work /\ log \in Seq(Rows) /\ end \in Nat
      /\ EachSound /\ Alone /\ Sound(proc[w], log)
      /\ Mismatches(log) = {} /\ SnapshotsFolded
  BY DEF StoreTypes, SoloInv, EachSound
<1>2. /\ proc' = [proc EXCEPT ![w] = r] /\ UNCHANGED <<snapshots, damage, shared>>
      /\ log' = Append(log, Row(w)) /\ proc[w].pc = "insert" /\ proc[w].next = end
  BY DEF Insert, Applied
<1>3. Row(w) \in Rows /\ Row(w).body = proc[w].body
  BY <1>2 DEF Row, Rows, StoreTypes
<1>4. /\ Len(log') = end + 1 /\ log'[end + 1] = Row(w)
      /\ \A i \in 1 .. end : log'[i] = log[i]
  BY <1>1, <1>2, <1>3, AppendProperties
<1>5. \A n \in 0 .. end : FoldOf(log', n) = FoldOf(log, n)
  BY <1>1, <1>2, <1>3, FoldOfAppend
<1>6. proc[w].state = FoldOf(log, end) /\ ~proc[w].reads
  BY <1>1, <1>2 DEF Sound
<1>7. FoldOf(log', end + 1) = Reduce(FoldOf(log, end), end, proc[w].body)
  <2>1. FoldOf(log', end + 1) = Reduce(FoldOf(log', end), end, log'[end + 1].body)
    BY <1>1, FoldOfStep
  <2>2. FoldOf(log', end) = FoldOf(log, end)
    BY <1>1, <1>5
  <2> QED
    BY <1>3, <1>4, <2>1, <2>2
<1>8. /\ r.pc = IF proc[w].base = None THEN "ready" ELSE "put_snapshot"
      /\ r.state = Reduce(FoldOf(log, end), end, proc[w].body)
      /\ r.reads = proc[w].reads /\ r.next = end /\ r.base = proc[w].base
  BY <1>1, <1>2, <1>6 DEF Work
<1>9. proc'[w] = r /\ \A q \in Procs : q # w => proc'[q] = proc[q]
  BY <1>2 DEF StoreTypes
<1> HIDE DEF r
<1>10. Sound(r, log')
  <2>1. r.state = FoldOf(log', Len(log')) /\ ~r.reads
    BY <1>4, <1>6, <1>7, <1>8
  <2>2. r.pc = "put_snapshot" => r.base = FoldOf(log', end)
    BY <1>1, <1>2, <1>5, <1>6, <1>8 DEF Sound
  <2> QED
    BY <1>4, <1>8, <2>1, <2>2 DEF Sound
<1>11. EachSound'
  <2>1. ASSUME NEW q \in Procs, q # w PROVE Sound(proc[q], log')
    <3>1. Sound(proc[q], log) /\ proc[q] \in Work
      BY <1>1 DEF EachSound, StoreTypes
    <3>2. proc[q].pc = "idle" \/ proc[q].reads
      BY <1>1, <1>2, <1>6, <2>1 DEF Alone, Drives
    <3>3. proc[q].pc = "events" =>
             /\ proc[q].from <= proc[q].target + 1 /\ proc[q].from <= Len(log')
             /\ proc[q].state = FoldOf(log', proc[q].from)
      <4>1. proc[q].pc = "events" => proc[q].from \in 0 .. end
        BY <1>1, <3>1 DEF Sound, Work
      <4> QED
        BY <1>1, <1>4, <1>5, <3>1, <4>1 DEF Sound
    <3> QED
      BY <3>1, <3>2, <3>3 DEF Sound
  <2> QED
    BY <1>9, <1>10, <2>1 DEF EachSound
<1>12. Alone'
  <2>1. Drives(w)
    BY <1>2, <1>6 DEF Drives
  <2> QED
    BY <1>1, <1>9, <2>1 DEF Alone, Drives
<1>13. Mismatches(log') = {}
  <2>1. ASSUME NEW n \in 1 .. end + 1, log'[n].body.kind = "checkpoint"
        PROVE  log'[n].body.hash = FoldOf(log', n - 1)
    <3>1. n - 1 \in 0 .. end /\ FoldOf(log', n - 1) = FoldOf(log, n - 1)
      BY <1>1, <1>5
    <3>2. CASE n \in 1 .. end
      <4>1. log'[n] = log[n]
        BY <1>4, <3>2
      <4>2. n \notin Mismatches(log)
        BY <1>1
      <4> QED
        BY <2>1, <3>1, <3>2, <4>1, <4>2 DEF Mismatches
    <3>3. CASE n = end + 1
      <4>1. log'[n].body = proc[w].body /\ n - 1 = end
        BY <1>1, <1>3, <1>4, <3>3
      <4> QED
        BY <1>1, <1>2, <1>6, <2>1, <3>1, <4>1 DEF Sound
    <3> QED
      BY <1>1, <3>2, <3>3
  <2> QED
    BY <1>4, <2>1 DEF Mismatches
<1>14. SnapshotsFolded'
  <2> SUFFICES ASSUME NEW s \in Seqs, snapshots[s] # None
               PROVE  /\ s < Len(log') /\ snapshots[s].hash = FoldOf(log', s)
                      /\ damage = 0 => snapshots[s].state = snapshots[s].hash
    BY <1>2 DEF SnapshotsFolded
  <2>1. /\ s < end /\ snapshots[s].hash = FoldOf(log, s)
        /\ damage = 0 => snapshots[s].state = snapshots[s].hash
    BY <1>1 DEF SnapshotsFolded
  <2>2. s \in 0 .. end /\ s < end + 1
    BY <1>1, <2>1, BoundsAssumption DEF Seqs
  <2> QED
    BY <1>4, <1>5, <2>1, <2>2
<1>15. Mismatches(log)' = {}
  BY <1>13 DEF Mismatches
<1> QED
  BY <1>11, <1>12, <1>14, <1>15 DEF SoloInv

(* the other steps of a writer, *)
LEMMA WriteSolo ==
    ASSUME StoreTypes, SoloInv, ~shared, ~shared', NEW w \in Procs, Write(w)
    PROVE  SoloInv'
<1>1. /\ proc[w] \in Work /\ log \in Seq(Rows) /\ Len(log) \in Nat
      /\ EachSound /\ Alone /\ Sound(proc[w], log)
      /\ Mismatches(log) = {} /\ SnapshotsFolded
  BY DEF StoreTypes, SoloInv, EachSound
<1>2. CASE Start(w)
  <2> DEFINE r == [Idle EXCEPT !.pc = "ready"]
  <2>1. /\ proc' = [proc EXCEPT ![w] = r] /\ UNCHANGED <<log, snapshots, damage>>
        /\ log = <<>> /\ \A q \in Procs : ~Drives(q)
    BY <1>2 DEF Start, NowShared
  <2>2. r.pc = "ready" /\ r.state = NewState /\ ~r.reads
    BY DEF Idle
  <2>3. FoldOf(log, Len(log)) = NewState
    BY <2>1, FoldOfNone
  <2> HIDE DEF r
  <2>4. Sound(r, log)
    BY <2>2, <2>3 DEF Sound
  <2> QED
    BY <1>1, <2>1, <2>4, OneProcessSound, StoreUntouched DEF SoloInv
<1>3. CASE Resume(w)
  <2> DEFINE r == [Idle EXCEPT !.pc = "ready", !.state = proc[w].state]
  <2>1. /\ proc' = [proc EXCEPT ![w] = r] /\ UNCHANGED <<log, snapshots, damage>>
        /\ proc[w].pc = "replayed" /\ ~proc[w].reads
    BY <1>3 DEF Resume
  <2>2. r.pc = "ready" /\ r.state = proc[w].state /\ ~r.reads
    BY DEF Idle
  <2> HIDE DEF r
  <2>3. Sound(r, log)
    BY <1>1, <2>1, <2>2 DEF Sound
  <2>4. Drives(w)
    BY <2>1 DEF Drives
  <2> QED
    BY <1>1, <2>1, <2>3, <2>4, OneProcessSound, StoreUntouched DEF SoloInv
<1>4. ASSUME NEW body, NEW base, AppendReads(w, body, base),
             body.kind = "checkpoint" => body.hash = proc[w].state,
             base # None => base = proc[w].state
      PROVE  SoloInv'
  <2> DEFINE r == [proc[w] EXCEPT !.pc = "insert", !.next = Len(log), !.body = body, !.base = base]
  <2>1. /\ proc' = [proc EXCEPT ![w] = r] /\ UNCHANGED <<log, snapshots, damage>>
        /\ proc[w].pc = "ready"
    BY <1>4 DEF AppendReads
  <2>2. /\ r.pc = "insert" /\ r.next = Len(log) /\ r.body = body /\ r.base = base
        /\ r.state = proc[w].state /\ r.reads = proc[w].reads
    BY <1>1 DEF Work
  <2> HIDE DEF r
  <2>3. Sound(r, log)
    BY <1>1, <1>4, <2>1, <2>2 DEF Sound
  <2>4. Drives(w)
    BY <1>1, <2>1 DEF Drives, Sound
  <2> QED
    BY <1>1, <2>1, <2>3, <2>4, OneProcessSound, StoreUntouched DEF SoloInv
<1>5. CASE Emit(w)
  <2>1. PICK kind \in PlainKinds : AppendReads(w, Body(kind, None), None)
    BY <1>5 DEF Emit
  <2>2. Body(kind, None).kind # "checkpoint"
    BY DEF Body, PlainKinds
  <2> QED
    BY <1>4, <2>1, <2>2
<1>6. CASE Checkpoint(w)
  <2>1. Body("checkpoint", proc[w].state).hash = proc[w].state
    BY DEF Body
  <2> QED
    BY <1>4, <1>6, <2>1 DEF Checkpoint
<1>7. CASE InsertConflicts(w)
  <2> DEFINE r == [Idle EXCEPT !.pc = "failed"]
  <2>1. /\ proc' = [proc EXCEPT ![w] = r] /\ UNCHANGED <<log, snapshots, damage>>
        /\ proc[w].pc = "insert"
    BY <1>7 DEF InsertConflicts
  <2>2. r.pc = "failed"
    BY DEF Idle
  <2> HIDE DEF r
  <2>3. Sound(r, log)
    BY <2>2 DEF Sound
  <2>4. Drives(w)
    BY <1>1, <2>1 DEF Drives, Sound
  <2> QED
    BY <1>1, <2>1, <2>3, <2>4, OneProcessSound, StoreUntouched, Zenon DEF SoloInv
<1>8. CASE PutSnapshot(w)
  <2> DEFINE r == [proc[w] EXCEPT !.pc = "ready", !.base = None]
             seq == proc[w].next
  <2>1. /\ proc' = [proc EXCEPT ![w] = r] /\ UNCHANGED <<log, damage>>
        /\ proc[w].pc = "put_snapshot"
        /\ snapshots' = [snapshots EXCEPT ![seq] =
                           [state |-> proc[w].base, hash |-> proc[w].base]]
    BY <1>8 DEF PutSnapshot
  <2>2. r.pc = "ready" /\ r.state = proc[w].state /\ r.reads = proc[w].reads
    BY <1>1 DEF Work
  <2> HIDE DEF r
  <2>3. Sound(r, log) /\ Drives(w)
    BY <1>1, <2>1, <2>2 DEF Sound, Drives
  <2>4. EachSound' /\ Alone'
    BY <1>1, <2>1, <2>3, OneProcessSound
  <2>5. Mismatches(log)' = {}
    BY <1>1, <2>1 DEF Mismatches
  <2>6. SnapshotsFolded'
    <3>1. seq \in Seqs /\ seq + 1 = Len(log) /\ proc[w].base = FoldOf(log, seq)
      BY <1>1, <2>1 DEF Sound, StoreTypes
    <3> SUFFICES ASSUME NEW s \in Seqs, snapshots'[s] # None
                 PROVE  /\ s < Len(log) /\ snapshots'[s].hash = FoldOf(log, s)
                        /\ damage = 0 => snapshots'[s].state = snapshots'[s].hash
      BY <2>1 DEF SnapshotsFolded
    <3>2. CASE s = seq
      <4>1. seq \in Nat /\ snapshots'[seq] = [state |-> FoldOf(log, seq), hash |-> FoldOf(log, seq)]
        BY <2>1, <3>1, BoundsAssumption DEF StoreTypes, Seqs
      <4> QED
        BY <3>1, <3>2, <4>1
    <3>3. CASE s # seq
      <4>1. snapshots'[s] = snapshots[s]
        BY <2>1, <3>3 DEF StoreTypes
      <4> QED
        BY <1>1, <4>1 DEF SnapshotsFolded
    <3> QED
      BY <3>2, <3>3
  <2> QED
    BY <2>4, <2>5, <2>6 DEF SoloInv
<1> QED
  BY <1>2, <1>3, <1>5, <1>6, <1>7, <1>8, InsertSolo DEF Write

(* and every step. *)
LEMMA SoloHolds ==
    /\ Init => SoloInv
    /\ StoreTypes /\ SoloInv /\ [Next]_vars => SoloInv'
<1>1. ASSUME Init PROVE SoloInv
  <2>1. /\ log = <<>> /\ snapshots = [s \in Seqs |-> None] /\ proc = [p \in Procs |-> Idle]
        /\ Idle.pc = "idle"
    BY <1>1 DEF Init, Idle
  <2>2. EachSound /\ Alone
    BY <2>1 DEF EachSound, Sound, Alone, Drives
  <2>3. Mismatches(log) = {}
    BY <2>1 DEF Mismatches
  <2>4. SnapshotsFolded
    BY <2>1 DEF SnapshotsFolded
  <2> QED
    BY <2>2, <2>3, <2>4 DEF SoloInv
<1>2. ASSUME StoreTypes, SoloInv, ~shared', Next PROVE SoloInv'
  <2>1. ~shared
    BY <1>2 DEF Next, Replay, Write, LoadRun, ReadRun, NoSnapshot, TakeSnapshot, RejectSnapshot,
                SnapshotUndecodable, ReplayEvents, Return, Crash, Start, Resume, Emit, Checkpoint,
                AppendReads, Insert, InsertConflicts, PutSnapshot, DropSnapshots, Damage, NowShared
  <2>2. EachSound /\ Alone /\ Mismatches(log) = {} /\ SnapshotsFolded
    BY <1>2, <2>1 DEF SoloInv
  <2>3. CASE DropSnapshots
    <3>1. EachSound' /\ Alone' /\ Mismatches(log)' = {}
      BY <2>2, <2>3 DEF DropSnapshots, EachSound, Alone, Drives, Mismatches
    <3>2. SnapshotsFolded'
      BY <2>3 DEF DropSnapshots, SnapshotsFolded
    <3> QED
      BY <3>1, <3>2 DEF SoloInv
  <2>4. CASE Damage
    <3>1. EachSound' /\ Alone' /\ Mismatches(log)' = {}
      BY <2>2, <2>4 DEF Damage, EachSound, Alone, Drives, Mismatches
    <3>2. PICK s \in Seqs : /\ snapshots[s] # None
                            /\ \E state : snapshots' = [snapshots EXCEPT ![s].state = state]
      BY <2>4 DEF Damage
    <3>3. PICK state : snapshots' = [snapshots EXCEPT ![s] = [snapshots[s] EXCEPT !.state = state]]
      BY <3>2
    <3>4. log' = log /\ damage' # 0
      BY <1>2, <2>4 DEF Damage, StoreTypes
    <3>5. ASSUME NEW t \in Seqs, snapshots'[t] # None
          PROVE  t < Len(log) /\ snapshots'[t].hash = FoldOf(log, t)
      <4>1. snapshots[t] # None
        BY <1>2, <3>2, <3>3, <3>5 DEF StoreTypes
      <4>2. t < Len(log) /\ snapshots[t].hash = FoldOf(log, t)
        BY <2>2, <4>1 DEF SnapshotsFolded
      <4>3. CASE t = s
        <5>1. snapshots[s] \in Snapshots
          BY <1>2, <3>2 DEF StoreTypes
        <5>2. snapshots'[s] = [snapshots[s] EXCEPT !.state = state]
          BY <1>2, <3>3 DEF StoreTypes
        <5>3. snapshots'[s].hash = snapshots[s].hash
          BY <5>1, <5>2 DEF Snapshots
        <5> QED
          BY <4>2, <4>3, <5>3
      <4>4. CASE t # s
        <5>1. snapshots'[t] = snapshots[t]
          BY <1>2, <3>3, <4>4 DEF StoreTypes
        <5> QED
          BY <4>2, <5>1
      <4> QED
        BY <4>3, <4>4
    <3>6. SnapshotsFolded'
      BY <3>4, <3>5 DEF SnapshotsFolded
    <3> QED
      BY <3>1, <3>6 DEF SoloInv
  <2> QED
    BY <1>2, <2>1, <2>3, <2>4, ReplaySolo, WriteSolo DEF Next
<1>3. ASSUME SoloInv, UNCHANGED vars PROVE SoloInv'
  BY <1>3 DEF vars, SoloInv, EachSound, Alone, Drives, Mismatches, SnapshotsFolded
<1> QED
  BY <1>1, <1>2, <1>3 DEF SoloInv

(* Every value in the store is of its type. *)
THEOREM StoreTypesAlways == Spec => []StoreTypes
BY StoreTypesHold, PTL DEF Spec

(* It holds always. *)
LEMMA SoloAlways == Spec => [](StoreTypes /\ SoloInv)
BY StoreTypesHold, SoloHolds, PTL DEF Spec

(* The Log of one writer at a time verifies, however long it is, whatever
   happens to the snapshots and whoever dies and goes on (replay.rs, verify). *)
THEOREM LogVerifiesHolds == Spec => []LogVerifies
<1>1. SoloInv => LogVerifies
  BY DEF SoloInv, EachSound, Sound, LogVerifies
<1> QED
  BY <1>1, SoloAlways, PTL

(* A snapshot that agrees with its own hash is the fold of the events before
   it (snapshot.rs). *)
THEOREM SnapshotsAreHonestHolds == Spec => []SnapshotsAreHonest
<1>1. ASSUME StoreTypes, SoloInv PROVE SnapshotsAreHonest
  <2> SUFFICES ASSUME NEW s \in Seqs, ~shared, snapshots[s] # None,
                      damage = 0 \/ snapshots[s].state = snapshots[s].hash
               PROVE  /\ s < Len(log)
                      /\ snapshots[s] = [state |-> FoldOf(log, s), hash |-> FoldOf(log, s)]
    BY DEF SnapshotsAreHonest
  <2>1. snapshots[s] \in Snapshots
    BY <1>1 DEF StoreTypes
  <2>2. /\ s < Len(log) /\ snapshots[s].hash = FoldOf(log, s)
        /\ snapshots[s].state = snapshots[s].hash
    BY <1>1 DEF SoloInv, SnapshotsFolded
  <2> QED
    BY <2>1, <2>2 DEF Snapshots
<1> QED
  BY <1>1, SoloAlways, PTL

(* A replay answers with the fold of the events up to its target, from
   whichever snapshot it started (replay.rs, replay_to_checked). *)
THEOREM ReplayIsFoldHolds == Spec => ReplayIsFold
<1> DEFINE Answers ==
      \A p \in Procs :
         ~shared /\ proc[p].pc = "events" /\ proc'[p].pc = "replayed"
           => proc'[p].state = FoldOf(log, MinOf(proc[p].target + 1, Len(log)))
<1>1. ASSUME StoreTypes, SoloInv, Next PROVE Answers
  <2> SUFFICES ASSUME NEW p \in Procs, ~shared, proc[p].pc = "events", proc'[p].pc = "replayed"
               PROVE  proc'[p].state = FoldOf(log, MinOf(proc[p].target + 1, Len(log)))
    OBVIOUS
  <2>1. proc[p] \in Work /\ Sound(proc[p], log) /\ \A q \in Procs : proc[q] \in Work
    BY <1>1 DEF StoreTypes, SoloInv, EachSound
  <2>2. ReplayEvents(p)
    <3>1. PICK q \in Procs : Replay(q) \/ Write(q)
      BY <1>1 DEF Next, DropSnapshots, Damage
    <3>2. \A x \in Procs \ {q} : proc'[x] = proc[x]
      BY <1>1, <3>1 DEF StoreTypes, Replay, Write, LoadRun, ReadRun, NoSnapshot, TakeSnapshot,
            RejectSnapshot, SnapshotUndecodable, ReplayEvents, Return, Crash, Start, Resume, Emit,
            Checkpoint, AppendReads, Insert, InsertConflicts, PutSnapshot, Applied
    <3>3. p = q
      BY <3>2
    <3>4. Return(p) \/ Crash(p) => proc'[p] = Idle
      BY <1>1 DEF Return, Crash, StoreTypes
    <3>5. Idle.pc = "idle"
      BY DEF Idle
    <3> QED
      BY <3>1, <3>3, <3>4, <3>5
         DEF Replay, Write, LoadRun, ReadRun, NoSnapshot, TakeSnapshot, RejectSnapshot,
             SnapshotUndecodable, Return, Crash, Start, Resume, Emit,
             Checkpoint, AppendReads, Insert, InsertConflicts, PutSnapshot
  <2> DEFINE end == MinOf(proc[p].target + 1, Len(log))
  <2>3. proc' = [proc EXCEPT ![p] = [proc[p] EXCEPT !.pc = "replayed", !.state = FoldOf(log, end)]]
    BY <1>1, <2>1, <2>2, ReplayedState
  <2> HIDE DEF end
  <2>4. proc'[p] = [proc[p] EXCEPT !.pc = "replayed", !.state = FoldOf(log, end)]
    BY <1>1, <2>3 DEF StoreTypes
  <2>5. proc'[p].state = FoldOf(log, end)
    BY <2>1, <2>4 DEF Work
  <2> QED
    BY <2>5 DEF end
<1>2. ASSUME UNCHANGED vars PROVE Answers
  BY <1>2 DEF vars
<1>3. StoreTypes /\ SoloInv /\ [Next]_vars => [Answers]_vars
  BY <1>1, <1>2
<1> QED
  BY <1>3, SoloAlways, PTL DEF Spec, ReplayIsFold

-----------------------------------------------------------------------------
(* Any number of writers. *)

(* An append that returned Ok stays in the Log (store.rs, append). *)
THEOREM AckedIsKeptHolds == Spec => []AckedIsKept
<1> DEFINE Kept == AckedIsKept /\ \A a \in acked : a.seq \in Nat
<1>1. Init => Kept
  BY DEF Init, AckedIsKept
<1>2. ASSUME StoreTypes, Kept, Next PROVE Kept'
  <2>1. CASE \E w \in Procs : Insert(w)
    <3>1. PICK w \in Procs : Insert(w)
      BY <2>1
    <3> DEFINE end == Len(log)  new == [seq |-> proc[w].next, row |-> Row(w)]
    <3>2. /\ log' = Append(log, Row(w)) /\ acked' = acked \cup {new}
          /\ new.seq = end /\ new.row = Row(w)
      BY <3>1 DEF Insert
    <3>3. log \in Seq(Rows) /\ end \in Nat /\ Row(w) \in Rows
      BY <1>2, <3>1 DEF StoreTypes, Insert, Row, Rows
    <3>4. /\ Len(log') = end + 1 /\ log'[end + 1] = Row(w)
          /\ \A i \in 1 .. end : log'[i] = log[i]
      BY <3>2, <3>3, AppendProperties
    <3> HIDE DEF new
    <3>5. \A a \in acked : a.seq < end + 1 /\ log'[a.seq + 1] = a.row
      BY <1>2, <3>3, <3>4 DEF AckedIsKept
    <3>6. Len(log)' = end + 1
      BY <3>4
    <3> HIDE DEF end
    <3> QED
      BY <1>2, <3>2, <3>3, <3>4, <3>5, <3>6 DEF AckedIsKept
  <2>2. CASE ~ \E w \in Procs : Insert(w)
    <3>1. UNCHANGED <<log, acked>>
      BY <1>2, <2>2 DEF Next, Replay, Write, LoadRun, ReadRun, NoSnapshot, TakeSnapshot,
            RejectSnapshot, SnapshotUndecodable, ReplayEvents, Return, Crash, Start, Resume, Emit,
            Checkpoint, AppendReads, InsertConflicts, PutSnapshot, DropSnapshots, Damage
    <3> QED
      BY <1>2, <3>1 DEF AckedIsKept
  <2> QED
    BY <2>1, <2>2
<1>3. ASSUME Kept, UNCHANGED vars PROVE Kept'
  BY <1>3 DEF vars, AckedIsKept
<1>4. Kept => AckedIsKept
  OBVIOUS
<1> HIDE DEF Kept
<1> QED
  BY <1>1, <1>2, <1>3, <1>4, StoreTypesAlways, PTL DEF Spec

-----------------------------------------------------------------------------
(* The content files. *)

(* What is at a path is whole; what is about to be there will be. *)
BlobInv ==
    /\ file \in [Contents -> {"absent", "whole"}]
    /\ tmp \in [Contents -> Extents]
    /\ At("idle") \/ putting.content \in Contents
    /\ At("rename") => tmp[putting.content] = "whole"
    /\ At("append") => file[putting.content] = "whole"
    /\ BlobsAreThere
    /\ named \subseteq Contents
    /\ putting = [pc |-> putting.pc, content |-> putting.content]

(* What an event names is there, and whole (blobstore.rs, put). *)
THEOREM BlobsAreThereHolds == BlobSpec => []BlobsAreThere
<1>1. BlobInit => BlobInv
  BY DEF BlobInit, BlobInv, NoPut, At, Extents, BlobsAreThere
<1>2. ASSUME BlobInv, BlobNext PROVE BlobInv'
  <2> USE <1>2 DEF BlobInv, At, Proceed, Extents, BlobsAreThere
  <2>1. CASE \E c \in Contents : Put(c)
    BY <2>1 DEF Put
  <2>2. CASE CreateTmp
    BY <2>2 DEF CreateTmp
  <2>3. CASE WriteTmp
    BY <2>3 DEF WriteTmp
  <2>4. CASE Rename
    BY <2>4 DEF Rename
  <2>5. CASE AppendNaming
    BY <2>5 DEF AppendNaming, NoPut
  <2>6. CASE PutLost
    BY <2>6 DEF PutLost, NoPut
  <2> QED
    BY <2>1, <2>2, <2>3, <2>4, <2>5, <2>6 DEF BlobNext
<1>3. ASSUME BlobInv, UNCHANGED blobs PROVE BlobInv'
  BY <1>3 DEF blobs, BlobInv, At, BlobsAreThere
<1>4. BlobInv => BlobsAreThere
  BY DEF BlobInv
<1> QED
  BY <1>1, <1>2, <1>3, <1>4, PTL DEF BlobSpec

-----------------------------------------------------------------------------
(* The store is a history (RunHistory.tla). *)

(* What a process is at, in the history. *)
DeskOf(r) ==
    [role   |-> IF r.pc = "idle" THEN "none" ELSE IF r.reads THEN "reader" ELSE "writer",
     moment |-> IF r.pc \in {"snapshot", "events"} THEN r.target + 1 ELSE None,
     state  |-> IF r.pc \in {"replayed", "ready", "insert", "put_snapshot"} THEN r.state ELSE None]

(* The moments that are asked for are among those that can come. *)
InReach ==
    /\ Len(log) <= MaxEvents
    /\ \A p \in Procs : proc[p].pc \in {"snapshot", "events"} => proc[p].target <= MaxEvents

LEMMA DeskIs ==
    /\ Desk = [p \in Procs |-> DeskOf(proc[p])]
    /\ Desk' = [p \in Procs |-> DeskOf(proc'[p])]
BY DEF Desk, DeskOf

(* A step of one process is one at its desk. *)
LEMMA DeskMoves ==
    ASSUME StoreTypes, NEW p \in Procs, NEW r, proc' = [proc EXCEPT ![p] = r]
    PROVE  Desk' = [Desk EXCEPT ![p] = DeskOf(r)] /\ Desk[p] = DeskOf(proc[p])
<1>1. proc'[p] = r /\ \A q \in Procs : q # p => proc'[q] = proc[q]
  BY DEF StoreTypes
<1> QED
  BY <1>1, DeskIs

(* or none, *)
LEMMA DeskStays ==
    ASSUME StoreTypes, NEW p \in Procs, NEW r, proc' = [proc EXCEPT ![p] = r],
           DeskOf(r) = DeskOf(proc[p])
    PROVE  Desk' = Desk
<1>1. Desk' = [Desk EXCEPT ![p] = Desk[p]]
  BY DeskMoves
<1>2. Desk = [q \in Procs |-> DeskOf(proc[q])]
  BY DeskIs
<1> QED
  BY <1>1, <1>2

(* and a process drives the run when its role is to write. *)
LEMMA DrivesIs ==
    ASSUME NEW p \in Procs
    PROVE  Drives(p) <=> Desk[p].role = "writer"
<1>1. Desk[p].role = IF proc[p].pc = "idle" THEN "none" ELSE IF proc[p].reads THEN "reader" ELSE "writer"
  BY DeskIs DEF DeskOf
<1> QED
  BY <1>1 DEF Drives

(* Who writes is not replaying. *)
LEMMA WriterMoves ==
    ASSUME StoreTypes, NEW w \in Procs, Write(w)
    PROVE  \E r : /\ proc' = [proc EXCEPT ![w] = r]
                  /\ r.pc \in {"ready", "insert", "put_snapshot", "failed"}
<1>1. proc[w] \in Work
  BY DEF StoreTypes
<1>2. CASE Start(w)
  <2> DEFINE r == [Idle EXCEPT !.pc = "ready"]
  <2>1. proc' = [proc EXCEPT ![w] = r] /\ r.pc = "ready"
    BY <1>2 DEF Start, Idle
  <2> HIDE DEF r
  <2> QED
    BY <2>1
<1>3. CASE Resume(w)
  <2> DEFINE r == [Idle EXCEPT !.pc = "ready", !.state = proc[w].state]
  <2>1. proc' = [proc EXCEPT ![w] = r] /\ r.pc = "ready"
    BY <1>3 DEF Resume, Idle
  <2> HIDE DEF r
  <2> QED
    BY <2>1
<1>4. ASSUME NEW body, NEW base, AppendReads(w, body, base)
      PROVE  \E r : proc' = [proc EXCEPT ![w] = r] /\ r.pc = "insert"
  <2> DEFINE r == [proc[w] EXCEPT !.pc = "insert", !.next = Len(log), !.body = body, !.base = base]
  <2>1. proc' = [proc EXCEPT ![w] = r]
    BY <1>4 DEF AppendReads
  <2>2. r.pc = "insert"
    BY <1>1 DEF Work
  <2> HIDE DEF r
  <2> QED
    BY <2>1, <2>2
<1>5. CASE Emit(w) \/ Checkpoint(w)
  <2>1. \E body, base : AppendReads(w, body, base)
    BY <1>5, Zenon DEF Emit, Checkpoint
  <2> QED
    BY <1>4, <2>1
<1>6. CASE Insert(w)
  <2> DEFINE r == [proc[w] EXCEPT !.pc = IF proc[w].base = None THEN "ready" ELSE "put_snapshot",
                                  !.state = Reduce(proc[w].state, proc[w].next, proc[w].body)]
  <2>1. proc' = [proc EXCEPT ![w] = r]
    BY <1>6 DEF Insert, Applied
  <2>2. r.pc \in {"ready", "put_snapshot"}
    BY <1>1 DEF Work
  <2> HIDE DEF r
  <2> QED
    BY <2>1, <2>2
<1>7. CASE InsertConflicts(w)
  <2> DEFINE r == [Idle EXCEPT !.pc = "failed"]
  <2>1. proc' = [proc EXCEPT ![w] = r] /\ r.pc = "failed"
    BY <1>7 DEF InsertConflicts, Idle
  <2> HIDE DEF r
  <2> QED
    BY <2>1
<1>8. CASE PutSnapshot(w)
  <2> DEFINE r == [proc[w] EXCEPT !.pc = "ready", !.base = None]
  <2>1. proc' = [proc EXCEPT ![w] = r]
    BY <1>8 DEF PutSnapshot
  <2>2. r.pc = "ready"
    BY <1>1 DEF Work
  <2> HIDE DEF r
  <2> QED
    BY <2>1, <2>2
<1> QED
  BY <1>2, <1>3, <1>5, <1>6, <1>7, <1>8 DEF Write

LEMMA InReachHolds ==
    /\ Init => InReach
    /\ StoreTypes /\ InReach /\ [Next]_vars => InReach'
<1>1. Init => InReach
  BY BoundsAssumption DEF Init, InReach, Idle
<1>2. ASSUME StoreTypes, InReach, UNCHANGED vars PROVE InReach'
  BY <1>2 DEF InReach, vars
<1>3. ASSUME StoreTypes, InReach, Next PROVE InReach'
  <2>1. Len(log) \in Nat /\ LastSeq \in Nat /\ LastSeq <= MaxEvents
    <3>1. Len(log) \in Nat /\ Len(log) <= MaxEvents
      BY <1>3 DEF StoreTypes, InReach
    <3> QED
      BY <3>1, EmptySeq, BoundsAssumption DEF LastSeq
  <2>2. ASSUME NEW p \in Procs, NEW r, proc' = [proc EXCEPT ![p] = r],
               log' = log \/ Len(log') <= MaxEvents,
               r.pc \in {"snapshot", "events"} => r.target <= MaxEvents
        PROVE  InReach'
    <3>1. proc'[p] = r /\ \A q \in Procs : q # p => proc'[q] = proc[q]
      BY <1>3, <2>2 DEF StoreTypes
    <3> QED
      BY <1>3, <2>2, <3>1 DEF InReach
  <2>3. ASSUME NEW p \in Procs, Replay(p) PROVE InReach'
    <3>1. proc[p] \in Work
      BY <1>3 DEF StoreTypes
    <3>2. CASE LoadRun(p)
      <4> DEFINE r == [Idle EXCEPT !.pc = "snapshot", !.target = LastSeq]
      <4>1. proc' = [proc EXCEPT ![p] = r] /\ log' = log /\ r.target = LastSeq
        BY <3>2 DEF LoadRun, Idle
      <4> HIDE DEF r
      <4> QED
        BY <2>1, <2>2, <4>1
    <3>3. CASE ReadRun(p)
      <4>1. PICK target \in Seqs \cup {LastSeq}, use_snapshots \in BOOLEAN :
              proc' = [proc EXCEPT ![p] =
                        [Idle EXCEPT !.pc = IF use_snapshots THEN "snapshot" ELSE "events",
                                     !.reads = TRUE, !.target = target]]
        BY <3>3 DEF ReadRun
      <4> DEFINE r == [Idle EXCEPT !.pc = IF use_snapshots THEN "snapshot" ELSE "events",
                                   !.reads = TRUE, !.target = target]
      <4>2. r.target = target /\ target <= MaxEvents
        BY <2>1, BoundsAssumption DEF Idle, Seqs
      <4>3. proc' = [proc EXCEPT ![p] = r] /\ log' = log
        BY <3>3, <4>1 DEF ReadRun
      <4> HIDE DEF r
      <4> QED
        BY <2>2, <4>2, <4>3
    <3>4. CASE NoSnapshot(p) \/ RejectSnapshot(p)
      <4> DEFINE r == [proc[p] EXCEPT !.pc = "events"]
      <4>1. proc' = [proc EXCEPT ![p] = r] /\ log' = log /\ proc[p].pc = "snapshot"
        BY <3>4 DEF NoSnapshot, RejectSnapshot
      <4>2. r.target = proc[p].target
        BY <3>1 DEF Work
      <4>3. proc[p].target <= MaxEvents
        BY <1>3, <4>1 DEF InReach
      <4> HIDE DEF r
      <4> QED
        BY <2>2, <4>1, <4>2, <4>3
    <3>5. CASE TakeSnapshot(p)
      <4> DEFINE seq == Latest(Candidates(proc[p].target))
                 r == [proc[p] EXCEPT !.pc = "events", !.state = snapshots[seq].state, !.from = seq]
      <4>1. proc' = [proc EXCEPT ![p] = r] /\ log' = log /\ proc[p].pc = "snapshot"
        BY <3>5 DEF TakeSnapshot
      <4>2. r.target = proc[p].target
        <5> HIDE DEF seq
        <5> QED BY <3>1 DEF Work
      <4>3. proc[p].target <= MaxEvents
        BY <1>3, <4>1 DEF InReach
      <4> HIDE DEF r
      <4> QED
        BY <2>2, <4>1, <4>2, <4>3
    <3>6. CASE SnapshotUndecodable(p)
      <4> DEFINE r == [Idle EXCEPT !.pc = "failed", !.reads = proc[p].reads]
      <4>1. proc' = [proc EXCEPT ![p] = r] /\ log' = log /\ r.pc = "failed"
        BY <3>6 DEF SnapshotUndecodable, Idle
      <4> HIDE DEF r
      <4> QED
        BY <2>2, <4>1
    <3>7. CASE ReplayEvents(p)
      <4>1. log' = log /\ \E state : proc' = [proc EXCEPT ![p].pc = "replayed", ![p].state = state]
        BY <3>7 DEF ReplayEvents
      <4>2. PICK state : proc' = [proc EXCEPT ![p] = [proc[p] EXCEPT !.pc = "replayed", !.state = state]]
        BY <1>3, <4>1 DEF StoreTypes
      <4> DEFINE r == [proc[p] EXCEPT !.pc = "replayed", !.state = state]
      <4>3. r.pc = "replayed"
        BY <3>1 DEF Work
      <4>4. proc' = [proc EXCEPT ![p] = r]
        BY <4>2
      <4> HIDE DEF r
      <4> QED
        BY <2>2, <4>1, <4>3, <4>4
    <3>8. CASE Return(p) \/ Crash(p)
      <4>1. proc' = [proc EXCEPT ![p] = Idle] /\ log' = log /\ Idle.pc = "idle"
        BY <3>8 DEF Return, Crash, Idle
      <4> QED
        BY <2>2, <4>1
    <3> QED
      BY <2>3, <3>2, <3>3, <3>4, <3>5, <3>6, <3>7, <3>8 DEF Replay
  <2>4. ASSUME NEW w \in Procs, Write(w) PROVE InReach'
    <3>1. PICK r : proc' = [proc EXCEPT ![w] = r] /\ r.pc \in {"ready", "insert", "put_snapshot", "failed"}
      BY <1>3, <2>4, WriterMoves
    <3>2. log' = log \/ Len(log') <= MaxEvents
      <4>1. CASE Insert(w)
        <5>1. proc[w].next = Len(log) /\ proc[w].next \in Seqs /\ Row(w) \in Rows
              /\ log \in Seq(Rows) /\ log' = Append(log, Row(w))
          BY <1>3, <4>1 DEF Insert, StoreTypes, Row, Rows
        <5>2. Len(log') = Len(log) + 1
          BY <5>1, AppendProperties
        <5> QED
          BY <2>1, <5>1, <5>2, BoundsAssumption DEF Seqs
      <4>2. CASE ~Insert(w)
        BY <2>4, <4>2 DEF Write, Start, Resume, Emit, Checkpoint, AppendReads, InsertConflicts, PutSnapshot
      <4> QED
        BY <4>1, <4>2
    <3> QED
      BY <2>2, <3>1, <3>2
  <2>5. CASE DropSnapshots \/ Damage
    BY <1>3, <2>5 DEF DropSnapshots, Damage, InReach
  <2> QED
    BY <1>3, <2>3, <2>4, <2>5 DEF Next
<1> QED
  BY <1>1, <1>2, <1>3

(* A replay is an answer, in one step: *)
LEMMA ReplayIsAHistory ==
    ASSUME StoreTypes, SoloInv, InReach, ~shared, NEW p \in Procs, Replay(p)
    PROVE  History!Next \/ UNCHANGED <<log, Desk, shared>>
<1> USE DEF History!Roles, History!Free, History!Beside
<1>1. /\ proc[p] \in Work /\ log \in Seq(Rows) /\ Len(log) \in Nat /\ Sound(proc[p], log)
      /\ Desk[p] = DeskOf(proc[p]) /\ LastSeq \in Nat /\ Len(log) <= MaxEvents
  BY EmptySeq, DeskIs DEF StoreTypes, SoloInv, EachSound, LastSeq, InReach
<1>2. CASE LoadRun(p)
  <2> DEFINE r == [Idle EXCEPT !.pc = "snapshot", !.target = LastSeq]
  <2>1. proc' = [proc EXCEPT ![p] = r] /\ proc[p].pc = "idle" /\ log' = log
    BY <1>2 DEF LoadRun
  <2>2. r.pc = "snapshot" /\ r.target = LastSeq /\ ~r.reads
    BY DEF Idle
  <2> HIDE DEF r
  <2>3. DeskOf(r) = [role |-> "writer", moment |-> LastSeq + 1, state |-> None]
    BY <2>2 DEF DeskOf
  <2>4. LastSeq + 1 \in 1 .. MaxEvents + 1 /\ LastSeq + 1 >= Len(log)
    BY <1>1, EmptySeq, BoundsAssumption DEF LastSeq
  <2>5. Desk[p].role = "none"
    BY <1>1, <2>1 DEF DeskOf
  <2>6. Desk' = [Desk EXCEPT ![p] = [role |-> "writer", moment |-> LastSeq + 1, state |-> None]]
    BY <2>1, <2>3, DeskMoves
  <2>7. shared' = (shared \/ ("writer" = "writer" /\ \E q \in Procs : Desk[q].role = "writer"))
    BY <1>2, DrivesIs DEF LoadRun, NowShared
  <2>8. History!Ask(p)
    BY <2>1, <2>4, <2>5, <2>6, <2>7 DEF History!Ask
  <2> QED
    BY <2>8 DEF History!Next
<1>3. CASE ReadRun(p)
  <2>1. PICK target \in Seqs \cup {LastSeq}, use_snapshots \in BOOLEAN :
          proc' = [proc EXCEPT ![p] =
                    [Idle EXCEPT !.pc = IF use_snapshots THEN "snapshot" ELSE "events",
                                 !.reads = TRUE, !.target = target]]
    BY <1>3 DEF ReadRun
  <2> DEFINE r == [Idle EXCEPT !.pc = IF use_snapshots THEN "snapshot" ELSE "events",
                               !.reads = TRUE, !.target = target]
  <2>2. r.pc \in {"snapshot", "events"} /\ r.target = target /\ r.reads
    BY DEF Idle
  <2>3. proc' = [proc EXCEPT ![p] = r] /\ proc[p].pc = "idle" /\ log' = log /\ shared' = shared
    BY <1>3, <2>1 DEF ReadRun
  <2> HIDE DEF r
  <2>4. DeskOf(r) = [role |-> "reader", moment |-> target + 1, state |-> None]
    BY <2>2 DEF DeskOf
  <2>5. target + 1 \in 1 .. MaxEvents + 1
    BY <1>1, EmptySeq, BoundsAssumption DEF LastSeq, Seqs
  <2>6. Desk[p].role = "none"
    BY <1>1, <2>3 DEF DeskOf
  <2>7. Desk' = [Desk EXCEPT ![p] = [role |-> "reader", moment |-> target + 1, state |-> None]]
    BY <2>3, <2>4, DeskMoves
  <2>8. History!Ask(p)
    BY <2>3, <2>5, <2>6, <2>7 DEF History!Ask, StoreTypes
  <2> QED
    BY <2>8 DEF History!Next
<1>4. CASE NoSnapshot(p) \/ RejectSnapshot(p)
  <2> DEFINE r == [proc[p] EXCEPT !.pc = "events"]
  <2>1. proc' = [proc EXCEPT ![p] = r] /\ proc[p].pc = "snapshot" /\ UNCHANGED <<log, shared>>
    BY <1>4 DEF NoSnapshot, RejectSnapshot
  <2>2. r.pc = "events" /\ r.reads = proc[p].reads /\ r.target = proc[p].target
    BY <1>1 DEF Work
  <2> HIDE DEF r
  <2>3. DeskOf(r) = DeskOf(proc[p])
    BY <2>1, <2>2 DEF DeskOf
  <2> QED
    BY <2>1, <2>3, DeskStays
<1>5. CASE TakeSnapshot(p)
  <2> DEFINE seq == Latest(Candidates(proc[p].target))
             r == [proc[p] EXCEPT !.pc = "events", !.state = snapshots[seq].state, !.from = seq]
  <2>1. proc' = [proc EXCEPT ![p] = r] /\ proc[p].pc = "snapshot" /\ UNCHANGED <<log, shared>>
    BY <1>5 DEF TakeSnapshot
  <2>2. r.pc = "events" /\ r.reads = proc[p].reads /\ r.target = proc[p].target
    <3> HIDE DEF seq
    <3> QED
      BY <1>1 DEF Work
  <2> HIDE DEF r
  <2>3. DeskOf(r) = DeskOf(proc[p])
    BY <2>1, <2>2 DEF DeskOf
  <2> QED
    BY <2>1, <2>3, DeskStays
<1>6. CASE SnapshotUndecodable(p)
  <2> DEFINE r == [Idle EXCEPT !.pc = "failed", !.reads = proc[p].reads]
  <2>1. proc' = [proc EXCEPT ![p] = r] /\ proc[p].pc = "snapshot" /\ UNCHANGED <<log, shared>>
    BY <1>6 DEF SnapshotUndecodable
  <2>2. r.pc = "failed" /\ r.reads = proc[p].reads
    BY DEF Idle
  <2> HIDE DEF r
  <2>3. DeskOf(r) = [role |-> Desk[p].role, moment |-> None, state |-> None]
    BY <1>1, <2>1, <2>2 DEF DeskOf
  <2>4. Desk' = [Desk EXCEPT ![p] = [role |-> Desk[p].role, moment |-> None, state |-> None]]
    BY <2>1, <2>3, DeskMoves
  <2>5. Desk[p].moment \in 1 .. MaxEvents + 1
    BY <1>1, <2>1, BoundsAssumption DEF DeskOf, InReach, Work
  <2>6. History!NoAnswer(p)
    BY <2>1, <2>4, <2>5 DEF History!NoAnswer
  <2> QED
    BY <2>6 DEF History!Next
<1>7. CASE ReplayEvents(p)
  <2> DEFINE end == MinOf(proc[p].target + 1, Len(log))
             r == [proc[p] EXCEPT !.pc = "replayed", !.state = FoldOf(log, end)]
  <2>1. proc' = [proc EXCEPT ![p] = r] /\ proc[p].pc = "events" /\ UNCHANGED <<log, shared>>
    BY <1>1, <1>7, ReplayedState DEF ReplayEvents
  <2>2. r.pc = "replayed" /\ r.reads = proc[p].reads /\ r.state = FoldOf(log, end)
    <3> HIDE DEF end
    <3> QED
      BY <1>1 DEF Work
  <2> HIDE DEF r
  <2>3. DeskOf(r) = [role |-> Desk[p].role, moment |-> None, state |-> FoldOf(log, end)]
    <3> HIDE DEF end
    <3> QED
      BY <1>1, <2>1, <2>2 DEF DeskOf
  <2>4. Desk[p].moment = proc[p].target + 1 /\ Desk[p].moment \in 1 .. MaxEvents + 1
    BY <1>1, <2>1, BoundsAssumption DEF DeskOf, InReach, Work
  <2>5. end = IF Desk[p].moment < Len(log) THEN Desk[p].moment ELSE Len(log)
    BY <2>4 DEF MinOf
  <2> HIDE DEF end
  <2>6. Desk' = [Desk EXCEPT ![p] = [role |-> Desk[p].role, moment |-> None,
                                     state |-> FoldOf(log, end)]]
    BY <2>1, <2>3, DeskMoves
  <2>7. History!Answer(p)
    BY <2>1, <2>4, <2>5, <2>6 DEF History!Answer
  <2> QED
    BY <2>7 DEF History!Next
<1>8. CASE Return(p) \/ Crash(p)
  <2>1. proc' = [proc EXCEPT ![p] = Idle] /\ UNCHANGED <<log, shared>>
    BY <1>8 DEF Return, Crash
  <2>2. DeskOf(Idle) = [role |-> "none", moment |-> None, state |-> None]
    BY DEF DeskOf, Idle
  <2>3. Desk' = [Desk EXCEPT ![p] = [role |-> "none", moment |-> None, state |-> None]]
    BY <2>1, <2>2, DeskMoves
  <2>4. History!Leave(p)
    BY <2>1, <2>3 DEF History!Leave
  <2> QED
    BY <2>4 DEF History!Next
<1> QED
  BY <1>2, <1>3, <1>4, <1>5, <1>6, <1>7, <1>8 DEF Replay

(* an append adds an event, and what it leaves in memory is the present. *)
LEMMA InsertIsAHistory ==
    ASSUME StoreTypes, SoloInv, ~shared, NEW w \in Procs, Insert(w)
    PROVE  History!Advance(w)
<1> DEFINE end == Len(log)
           r == [proc[w] EXCEPT !.pc = IF proc[w].base = None THEN "ready" ELSE "put_snapshot",
                                !.state = Reduce(proc[w].state, proc[w].next, proc[w].body)]
<1>1. /\ proc[w] \in Work /\ log \in Seq(Rows) /\ end \in Nat /\ Sound(proc[w], log)
      /\ Desk[w] = DeskOf(proc[w])
  BY DeskIs DEF StoreTypes, SoloInv, EachSound
<1>2. /\ proc' = [proc EXCEPT ![w] = r] /\ UNCHANGED shared
      /\ log' = Append(log, Row(w)) /\ proc[w].pc = "insert" /\ proc[w].next = end
  BY DEF Insert, Applied
<1>3. Row(w) \in Rows /\ Row(w).body = proc[w].body
  BY <1>2 DEF Row, Rows, StoreTypes
<1>4. /\ Len(log') = end + 1 /\ log'[end + 1] = Row(w)
      /\ \A i \in 1 .. end : log'[i] = log[i]
  BY <1>1, <1>2, <1>3, AppendProperties
<1>5. FoldOf(log', end) = FoldOf(log, end)
  BY <1>1, <1>2, <1>3, FoldOfAppend
<1>6. proc[w].state = FoldOf(log, end) /\ ~proc[w].reads
  BY <1>1, <1>2 DEF Sound
<1>7. FoldOf(log', end + 1) = Reduce(FoldOf(log, end), end, proc[w].body)
  <2>1. FoldOf(log', end + 1) = Reduce(FoldOf(log', end), end, log'[end + 1].body)
    BY <1>1, FoldOfStep
  <2> QED
    BY <1>3, <1>4, <1>5, <2>1
<1>8. /\ r.pc \in {"ready", "put_snapshot"} /\ r.reads = proc[w].reads
      /\ r.state = FoldOf(log', end + 1)
  BY <1>1, <1>2, <1>6, <1>7 DEF Work
<1> HIDE DEF r, end
<1>9. Desk[w] = [role |-> "writer", moment |-> None, state |-> FoldOf(log, end)]
  BY <1>1, <1>2, <1>6 DEF DeskOf
<1>10. DeskOf(r) = [role |-> "writer", moment |-> None, state |-> FoldOf(log', end + 1)]
  BY <1>6, <1>8 DEF DeskOf
<1>11. Desk' = [Desk EXCEPT ![w] = [role |-> "writer", moment |-> None, state |-> FoldOf(log', end + 1)]]
  BY <1>2, <1>10, DeskMoves
<1>12. Desk' = [Desk EXCEPT ![w].state = FoldOf(log', end + 1)]
  <2> DEFINE state == FoldOf(log', end + 1)
  <2>1. [Desk[w] EXCEPT !.state = state] = [role |-> "writer", moment |-> None, state |-> state]
    BY <1>9
  <2>2. w \in DOMAIN Desk
    BY DeskIs
  <2> HIDE DEF state
  <2>3. [Desk EXCEPT ![w].state = state] = [Desk EXCEPT ![w] = [Desk[w] EXCEPT !.state = state]]
    BY <2>2
  <2> QED
    BY <1>11, <2>1, <2>3 DEF state
<1>13. /\ Len(log') = Len(log) + 1 /\ \A i \in 1 .. Len(log) : log'[i] = log[i]
       /\ Desk[w].role = "writer" /\ Desk[w].state = FoldOf(log, Len(log))
       /\ Desk' = [Desk EXCEPT ![w].state = FoldOf(log', Len(log'))]
  BY <1>4, <1>9, <1>12 DEF end
<1> QED
  BY <1>2, <1>13 DEF History!Advance, History!Happens, History!Present

(* So is every step of a writer. *)
LEMMA WriteIsAHistory ==
    ASSUME StoreTypes, SoloInv, ~shared, NEW w \in Procs, Write(w)
    PROVE  History!Next \/ UNCHANGED <<log, Desk, shared>>
<1>1. /\ proc[w] \in Work /\ Len(log) \in Nat /\ Sound(proc[w], log) /\ Desk[w] = DeskOf(proc[w])
  BY DeskIs DEF StoreTypes, SoloInv, EachSound
<1>2. CASE Start(w)
  <2> DEFINE r == [Idle EXCEPT !.pc = "ready"]
  <2>1. proc' = [proc EXCEPT ![w] = r] /\ proc[w].pc = "idle" /\ log = <<>> /\ log' = log
    BY <1>2 DEF Start
  <2>2. r.pc = "ready" /\ r.state = NewState /\ ~r.reads
    BY DEF Idle
  <2> HIDE DEF r
  <2>3. FoldOf(log, Len(log)) = NewState
    BY <2>1, FoldOfNone
  <2>4. DeskOf(r) = [role |-> "writer", moment |-> None, state |-> FoldOf(log, Len(log))]
    BY <2>2, <2>3 DEF DeskOf
  <2>5. Desk[w].role = "none"
    BY <1>1, <2>1 DEF DeskOf
  <2>6. Desk' = [Desk EXCEPT ![w] = [role |-> "writer", moment |-> None, state |-> FoldOf(log, Len(log))]]
    BY <2>1, <2>4, DeskMoves
  <2>7. shared' = (shared \/ ("writer" = "writer" /\ \E q \in Procs : Desk[q].role = "writer"))
    BY <1>2, DrivesIs DEF Start, NowShared
  <2>8. History!Begin(w)
    BY <2>1, <2>5, <2>6, <2>7 DEF History!Begin, History!Beside, History!Present
  <2> QED
    BY <2>8 DEF History!Next
<1>3. CASE Resume(w)
  <2> DEFINE r == [Idle EXCEPT !.pc = "ready", !.state = proc[w].state]
  <2>1. /\ proc' = [proc EXCEPT ![w] = r] /\ UNCHANGED <<log, shared>>
        /\ proc[w].pc = "replayed" /\ ~proc[w].reads
    BY <1>3 DEF Resume
  <2>2. r.pc = "ready" /\ r.state = proc[w].state /\ ~r.reads
    BY DEF Idle
  <2> HIDE DEF r
  <2>3. DeskOf(r) = DeskOf(proc[w])
    BY <2>1, <2>2 DEF DeskOf
  <2> QED
    BY <2>1, <2>3, DeskStays
<1>4. ASSUME NEW body, NEW base, AppendReads(w, body, base)
      PROVE  UNCHANGED <<log, Desk, shared>>
  <2> DEFINE r == [proc[w] EXCEPT !.pc = "insert", !.next = Len(log), !.body = body, !.base = base]
  <2>1. /\ proc' = [proc EXCEPT ![w] = r] /\ UNCHANGED <<log, shared>> /\ proc[w].pc = "ready"
    BY <1>4 DEF AppendReads
  <2>2. r.pc = "insert" /\ r.state = proc[w].state /\ r.reads = proc[w].reads
    BY <1>1 DEF Work
  <2> HIDE DEF r
  <2>3. DeskOf(r) = DeskOf(proc[w])
    BY <2>1, <2>2 DEF DeskOf
  <2> QED
    BY <2>1, <2>3, DeskStays
<1>5. CASE Emit(w) \/ Checkpoint(w)
  <2>1. \E body, base : AppendReads(w, body, base)
    BY <1>5, Zenon DEF Emit, Checkpoint
  <2> QED
    BY <1>4, <2>1
<1>6. CASE Insert(w)
  BY <1>6, InsertIsAHistory DEF History!Next
<1>7. CASE InsertConflicts(w)
  BY <1>1, <1>7 DEF InsertConflicts, Sound
<1>8. CASE PutSnapshot(w)
  <2> DEFINE r == [proc[w] EXCEPT !.pc = "ready", !.base = None]
  <2>1. proc' = [proc EXCEPT ![w] = r] /\ proc[w].pc = "put_snapshot" /\ UNCHANGED <<log, shared>>
    BY <1>8 DEF PutSnapshot
  <2>2. r.pc = "ready" /\ r.state = proc[w].state /\ r.reads = proc[w].reads
    BY <1>1 DEF Work
  <2> HIDE DEF r
  <2>3. DeskOf(r) = DeskOf(proc[w])
    BY <2>1, <2>2 DEF DeskOf
  <2> QED
    BY <2>1, <2>3, DeskStays
<1> QED
  BY <1>2, <1>3, <1>5, <1>6, <1>7, <1>8 DEF Write

(* Two writers cannot change the past either: an INSERT without OR REPLACE. *)
LEMMA SharedIsAHistory ==
    ASSUME StoreTypes, shared, Next
    PROVE  History!Shared
<1>1. shared' = TRUE /\ (log' = log \/ \E w \in Procs : Insert(w))
  BY DEF Next, Replay, Write, LoadRun, ReadRun, NoSnapshot, TakeSnapshot, RejectSnapshot,
         SnapshotUndecodable, ReplayEvents, Return, Crash, Start, Resume, Emit, Checkpoint,
         AppendReads, Insert, InsertConflicts, PutSnapshot, DropSnapshots, Damage, NowShared, StoreTypes
<1>2. ASSUME NEW w \in Procs, Insert(w)
      PROVE  Len(log') = Len(log) + 1 /\ \A i \in 1 .. Len(log) : log'[i] = log[i]
  <2>1. Row(w) \in Rows /\ log \in Seq(Rows) /\ log' = Append(log, Row(w))
    BY <1>2 DEF Insert, StoreTypes, Row, Rows
  <2> QED
    BY <2>1, AppendProperties
<1> QED
  BY <1>1, <1>2 DEF History!Shared, History!Happens

(* With one writer at a time every replay answers at once with the state of
   its moment and every append moves the run on from the present to the next,
   over snapshots lost or damaged, crashes and resumptions; with two, an event
   is added but never changed: store.rs, snapshot.rs and replay.rs implement
   the abstract history, at any length of the Log. *)
THEOREM StoreIsAHistory == Spec => KeepsAHistory
<1>1. Init => History!Init
  BY DeskIs DEF Init, History!Init, History!Free, DeskOf, Idle
<1>2. ASSUME StoreTypes, SoloInv, InReach, [Next]_vars
      PROVE  [History!Next]_(History!vars)
  <2>1. CASE UNCHANGED vars
    BY <2>1 DEF vars, History!vars, Desk
  <2>2. CASE Next /\ shared
    BY <1>2, <2>2, SharedIsAHistory DEF History!Next
  <2>3. CASE Next /\ ~shared
    <3>1. CASE \E p \in Procs : Replay(p) \/ Write(p)
      BY <1>2, <2>3, <3>1, ReplayIsAHistory, WriteIsAHistory DEF History!vars
    <3>2. CASE DropSnapshots \/ Damage
      BY <3>2 DEF DropSnapshots, Damage, History!vars, Desk
    <3> QED
      BY <2>3, <3>1, <3>2 DEF Next
  <2> QED
    BY <1>2, <2>1, <2>2, <2>3
<1>3. Spec => [](StoreTypes /\ SoloInv /\ InReach)
  BY StoreTypesHold, SoloAlways, InReachHolds, PTL DEF Spec
<1> QED
  BY <1>1, <1>2, <1>3, PTL DEF Spec, KeepsAHistory, History!Spec

=============================================================================
