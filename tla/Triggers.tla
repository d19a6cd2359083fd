------------------------------ MODULE Triggers ------------------------------
(***************************************************************************)
(* Automation: the trigger store of crates/evo-daemon/src/trigger.rs, and  *)
(* in http.rs the scheduler task that fires what is due, the webhook       *)
(* handlers that fire on demand, and the calls that create, edit, pause    *)
(* and delete triggers while that goes on.                                 *)
(*                                                                         *)
(* The store is guarded by a mutex that is never held across an await: a   *)
(* section under it is one step.  The runtime's mutex is held for a whole  *)
(* run: `holder`.  Of a run only what the Log says of it matters here:     *)
(* whether it is running or suspended, and what triggered it.              *)
(***************************************************************************)
EXTENDS Naturals, FiniteSets

CONSTANTS
    None,
    Triggers,    \* trigger ids; a deleted one may be used again once forgotten
    Runs,        \* run ids; an ended one may be used again once forgotten
    Scheduler,   \* the scheduler task
    Hooks,       \* webhook requests under way, at most one per member
    Specs,       \* the specs triggers are given
    Times,       \* readings of the clock
    MaxCrashes   \* bound: restarts of the daemon

TriggerSpecs == [kind: {"once", "interval", "calendar", "webhook"}, arg: Nat]

(* validate_spec: a period is never zero. *)
ASSUME SpecsAssumption ==
    /\ Specs \subseteq TriggerSpecs
    /\ \A spec \in Specs : spec.kind \in {"interval", "calendar"} => spec.arg > 0
ASSUME TimesAssumption == Times \subseteq Nat
ASSUME TasksAssumption ==
    Scheduler \notin Hooks /\ None \notin Hooks \cup {Scheduler} \cup Triggers \cup Runs

VARIABLES
    trig,        \* trigger |-> its record, or None
    active,      \* run |-> the trigger it was started for, while it is running or
                 \* suspended; None before its first event and after its end
    holder,      \* who holds the runtime's mutex
    task,        \* who |-> what it is doing
    due,         \* what is left of the scheduler's list
    clock,
    crashes,
    \* observers: nothing in the code reads them
    started,     \* trigger |-> runs begun since its spec was set, up to 2
    settled,     \* triggers with a fire settled since their spec was set
    raced,       \* triggers whose spec was once set while they were being fired
    cut          \* triggers with a fire that was cut short since then

watch == <<started, settled, raced, cut>>
vars == <<trig, active, holder, task, due, clock, crashes, watch>>

Option(S) == S \cup {None}
Tasks == Hooks \cup {Scheduler}

TriggerRecord ==
    [spec: Specs, paused: BOOLEAN, next_fire: Option(Nat),
     last_run: Option(Runs), last_fired: Option(Nat)]

Idle == [pc |-> "idle", trigger |-> None, run |-> None, now |-> 0]

(* next_fire_ms: the next time at or after `from`.  Daily, weekly and monthly
   are the multiples of a period here. *)
NextFire(spec, from) ==
    CASE spec.kind = "webhook"  -> None
      [] spec.kind = "once"     -> spec.arg
      [] spec.kind = "interval" -> from + spec.arg
      [] spec.kind = "calendar" -> ((from + spec.arg - 1) \div spec.arg) * spec.arg

(* last_run_active: no event, not active. *)
Active(r) == active[r] # None

Busy(t) == trig[t].last_run # None /\ Active(trig[t].last_run)

(* TriggerStore::due *)
Due(t, now) ==
    /\ trig[t] # None /\ ~trig[t].paused
    /\ trig[t].next_fire # None /\ trig[t].next_fire <= now

(* A run id nothing refers to. *)
Fresh(r) ==
    /\ ~Active(r)
    /\ \A t \in Triggers : trig[t] # None => trig[t].last_run # r
    /\ \A p \in Tasks : task[p].run # r

(* A trigger that is being fired, or is on the scheduler's list. *)
Firing(t) == t \in due \/ \E p \in Tasks : task[p].trigger = t

Init ==
    /\ trig = [t \in Triggers |-> None]
    /\ active = [r \in Runs |-> None]
    /\ holder = None
    /\ task = [p \in Tasks |-> Idle]
    /\ due = {}
    /\ clock \in Times
    /\ crashes = 0
    /\ started = [t \in Triggers |-> 0]
    /\ settled = {} /\ raced = {} /\ cut = {}

-----------------------------------------------------------------------------
(* trigger.create and trigger.delete *)

(* The clock is read before the store is locked.  It may move in between:
   ClockMoves, right after, is that. *)
Create(t) ==
    /\ trig[t] = None /\ ~Firing(t) /\ \A r \in Runs : active[r] # t
    /\ \E spec \in Specs, paused \in BOOLEAN :
         trig' = [trig EXCEPT ![t] =
                    [spec |-> spec, paused |-> paused, next_fire |-> NextFire(spec, clock),
                     last_run |-> None, last_fired |-> None]]
    /\ started' = [started EXCEPT ![t] = 0]
    /\ settled' = settled \ {t} /\ raced' = raced \ {t} /\ cut' = cut \ {t}
    /\ UNCHANGED <<active, holder, task, due, clock, crashes>>

(* With a trigger_id.  Only a new spec plans anew. *)
Update(t) ==
    /\ trig[t] # None
    /\ \E spec \in Specs, paused \in BOOLEAN :
         LET new == spec # trig[t].spec IN
         /\ trig' = [trig EXCEPT ![t].spec = spec, ![t].paused = paused,
                                 ![t].next_fire = IF new THEN NextFire(spec, clock) ELSE @]
         /\ started' = IF new THEN [started EXCEPT ![t] = 0] ELSE started
         /\ settled' = IF new THEN settled \ {t} ELSE settled
         /\ cut' = IF new THEN cut \ {t} ELSE cut
         /\ raced' = IF new /\ Firing(t) THEN raced \cup {t} ELSE raced
    /\ UNCHANGED <<active, holder, task, due, clock, crashes>>

Delete(t) ==
    /\ trig[t] # None
    /\ trig' = [trig EXCEPT ![t] = None]
    /\ UNCHANGED <<active, holder, task, due, clock, crashes, watch>>

-----------------------------------------------------------------------------
(* fire_due and webhook_fire.  The clock is behind the runtime's mutex. *)

(* get_by_secret *)
WebhookFire(p) ==
    /\ task[p].pc = "idle"
    /\ \E t \in Triggers :
         /\ trig[t] # None /\ trig[t].spec.kind = "webhook"
         /\ task' = [task EXCEPT ![p].pc = "clock", ![p].trigger = t]
    /\ UNCHANGED <<trig, active, holder, due, clock, crashes, watch>>

ReadClock(p) ==
    /\ holder = None
    /\ \/ /\ p = Scheduler /\ task[p].pc = "idle" /\ due = {}
          /\ task' = [task EXCEPT ![p].pc = "list", ![p].now = clock]
       \/ /\ p \in Hooks /\ task[p].pc = "clock"
          /\ task' = [task EXCEPT ![p].pc = "claim", ![p].now = clock]
    /\ UNCHANGED <<trig, active, holder, due, clock, crashes, watch>>

ListDue ==
    /\ task[Scheduler].pc = "list"
    /\ due' = {t \in Triggers : Due(t, task[Scheduler].now)}
    /\ task' = [task EXCEPT ![Scheduler].pc = "idle"]
    /\ UNCHANGED <<trig, active, holder, clock, crashes, watch>>

(* The next of the list.  (Its order is left open.) *)
NextDue ==
    /\ task[Scheduler].pc = "idle"
    /\ \E t \in due :
         /\ due' = due \ {t}
         /\ task' = [task EXCEPT ![Scheduler].pc = "claim", ![Scheduler].trigger = t]
    /\ UNCHANGED <<trig, active, holder, clock, crashes, watch>>

-----------------------------------------------------------------------------
(* fire_record *)

(* The task is through with its trigger; the scheduler keeps its reading for
   the rest of its list. *)
Over(p) ==
    [task EXCEPT ![p] = [Idle EXCEPT !.now = IF p = Scheduler THEN task[p].now ELSE 0]]

(* Else: UnknownTrigger, TriggerPaused, TriggerBusy. *)
Ready(t) == trig[t] # None /\ ~trig[t].paused /\ ~Busy(t)

Refuse(p) ==
    LET t == task[p].trigger IN
    /\ task[p].pc = "claim"
    /\ ~Ready(t)
    /\ task' = Over(p)
    /\ UNCHANGED <<trig, active, holder, due, clock, crashes, watch>>

(* Faulty variants (see README, "Sensitivity"): the run is not recorded; the
   plan is given up before the run exists. *)
ClaimUnrecorded(p) ==
    LET t == task[p].trigger IN
    /\ task[p].pc = "claim"
    /\ Ready(t)
    /\ \E r \in Runs :
         /\ Fresh(r)
         /\ task' = [task EXCEPT ![p].pc = "lock", ![p].run = r]
    /\ UNCHANGED <<active, trig, holder, due, clock, crashes, started, settled, raced, cut>>

ClaimEager(p) ==
    LET t == task[p].trigger IN
    /\ task[p].pc = "claim"
    /\ Ready(t)
    /\ \E r \in Runs :
         /\ Fresh(r)
         /\ trig' = [trig EXCEPT ![t].last_run = r, ![t].next_fire = None]
         /\ task' = [task EXCEPT ![p].pc = "lock", ![p].run = r]
    /\ UNCHANGED <<active, holder, due, clock, crashes, started, settled, raced, cut>>

(* A new run id, written to the record before the run has an event. *)
Claim(p) ==
    LET t == task[p].trigger IN
    /\ task[p].pc = "claim"
    /\ Ready(t)
    /\ \E r \in Runs :
         /\ Fresh(r)
         /\ trig' = [trig EXCEPT ![t].last_run = r]
         /\ task' = [task EXCEPT ![p].pc = "lock", ![p].run = r]
    /\ UNCHANGED <<active, holder, due, clock, crashes, started, settled, raced, cut>>

Lock(p) ==
    /\ task[p].pc = "lock" /\ holder = None
    /\ holder' = p
    /\ task' = [task EXCEPT ![p].pc = "start"]
    /\ UNCHANGED <<trig, active, due, clock, crashes, watch>>

(* start_with_trigger: its first event *)
Begin(p) ==
    /\ task[p].pc = "start"
    /\ active' = [active EXCEPT ![task[p].run] = task[p].trigger]
    /\ started' = [started EXCEPT ![task[p].trigger] = IF @ = 2 THEN 2 ELSE @ + 1]
    /\ task' = [task EXCEPT ![p].pc = "run"]
    /\ UNCHANGED <<trig, holder, due, clock, crashes, settled, raced, cut>>

(* It returns, the run suspended or ended; the mutex is dropped. *)
RunReturns(p) ==
    /\ task[p].pc = "run"
    /\ \E left \in {None, task[p].trigger} : active' = [active EXCEPT ![task[p].run] = left]
    /\ holder' = None
    /\ task' = [task EXCEPT ![p].pc = "settle"]
    /\ UNCHANGED <<trig, due, clock, crashes, watch>>

(* Faulty: the first error ends the sweep. *)
StartFailsAborting(p) ==
    /\ task[p].pc \in {"start", "run"}
    /\ \E left \in {None, active[task[p].run]} : active' = [active EXCEPT ![task[p].run] = left]
    /\ holder' = None
    /\ task' = Over(p)
    /\ cut' = cut \cup {task[p].trigger}
    /\ due' = IF p = Scheduler THEN {} ELSE due
    /\ UNCHANGED <<trig, clock, crashes, started, settled, raced>>

(* It fails: the run is left where the error met it, the record as it is. *)
StartFails(p) ==
    /\ task[p].pc \in {"start", "run"}
    /\ \E left \in {None, active[task[p].run]} : active' = [active EXCEPT ![task[p].run] = left]
    /\ holder' = None
    /\ task' = Over(p)
    /\ cut' = cut \cup {task[p].trigger}
    /\ UNCHANGED <<trig, due, clock, crashes, started, settled, raced>>

(* Faulty: the next time may be this one; a one-shot is planned again. *)
SettleSameInstant(p) ==
    LET t == task[p].trigger  now == task[p].now IN
    /\ task[p].pc = "settle"
    /\ trig' = IF trig[t] = None THEN trig
               ELSE [trig EXCEPT ![t].last_fired = now,
                                 ![t].next_fire = IF trig[t].spec.kind = "once" THEN None
                                                  ELSE NextFire(trig[t].spec, now)]
    /\ settled' = settled \cup {t}
    /\ task' = Over(p)
    /\ UNCHANGED <<active, holder, due, clock, crashes, started, raced, cut>>

SettleReplans(p) ==
    LET t == task[p].trigger  now == task[p].now IN
    /\ task[p].pc = "settle"
    /\ trig' = IF trig[t] = None THEN trig
               ELSE [trig EXCEPT ![t].last_fired = now,
                                 ![t].next_fire = NextFire(trig[t].spec, now + 1)]
    /\ settled' = settled \cup {t}
    /\ task' = Over(p)
    /\ UNCHANGED <<active, holder, due, clock, crashes, started, raced, cut>>

(* The time after this fire, by the spec the record has now. *)
After(spec, now) ==
    CASE spec.kind \in {"once", "webhook"} -> None
      [] spec.kind = "interval"            -> NextFire(spec, now)
      [] spec.kind = "calendar"            -> NextFire(spec, now + 1)

Settle(p) ==
    LET t == task[p].trigger  now == task[p].now IN
    /\ task[p].pc = "settle"
    /\ trig' = IF trig[t] = None THEN trig
               ELSE [trig EXCEPT ![t].last_fired = now,
                                 ![t].next_fire = After(trig[t].spec, now)]
    /\ settled' = settled \cup {t}
    /\ task' = Over(p)
    /\ UNCHANGED <<active, holder, due, clock, crashes, started, raced, cut>>

-----------------------------------------------------------------------------
(* A human's call on a run that waits, or that a crash or an error left
   running, ends it.  (One that leaves it running or waiting changes nothing
   here.) *)
HumanEnds(r) ==
    /\ holder = None /\ Active(r)
    /\ active' = [active EXCEPT ![r] = None]
    /\ UNCHANGED <<trig, holder, task, due, clock, crashes, watch>>

(* The HTTP client of a webhook goes away: its handler is dropped where it is. *)
HookDropped(p) ==
    /\ task[p].pc # "idle"
    /\ holder' = IF holder = p THEN None ELSE holder
    /\ task' = Over(p)
    /\ cut' = cut \cup {task[p].trigger}
    /\ UNCHANGED <<trig, active, due, clock, crashes, started, settled, raced>>

(* The daemon dies and starts again: the store and the Log remain. *)
Crash ==
    /\ crashes < MaxCrashes                                 \* bound: MaxCrashes
    /\ crashes' = crashes + 1
    /\ holder' = None
    /\ task' = [p \in Tasks |-> Idle]
    /\ due' = {}
    /\ cut' = cut \cup {task[p].trigger : p \in {q \in Tasks : task[q].trigger # None}}
    /\ UNCHANGED <<trig, active, clock, started, settled, raced>>

(* Wall time: forwards, and now and then back. *)
ClockMoves ==
    /\ clock' \in Times
    /\ UNCHANGED <<trig, active, holder, task, due, crashes, watch>>

Fire(p) ==
    \/ Refuse(p) \/ Claim(p) \/ Lock(p) \/ Begin(p)
    \/ RunReturns(p) \/ StartFails(p) \/ Settle(p)

SchedulerStep == ReadClock(Scheduler) \/ ListDue \/ NextDue \/ Fire(Scheduler)

Next ==
    \/ \E t \in Triggers : Create(t) \/ Update(t) \/ Delete(t)
    \/ SchedulerStep
    \/ \E p \in Hooks : WebhookFire(p) \/ ReadClock(p) \/ Fire(p) \/ HookDropped(p)
    \/ \E r \in Runs : HumanEnds(r)
    \/ Crash
    \/ ClockMoves

Spec == Init /\ [][Next]_vars

(* The scheduler task is polled, wakes up every second, and the mutex it
   waits for is fair.  Nobody else has to do anything. *)
FairSpec == Spec /\ WF_vars(SchedulerStep)

-----------------------------------------------------------------------------
(* Types; the runtime's mutex is held by exactly the task that is inside
   start_with_trigger, and a task that fires has its trigger. *)
TypeOK ==
    /\ trig \in [Triggers -> Option(TriggerRecord)]
    /\ active \in [Runs -> Option(Triggers)]
    /\ task \in [Tasks -> [pc: {"idle", "clock", "list", "claim", "lock", "start", "run", "settle"},
                           trigger: Option(Triggers), run: Option(Runs), now: Times \cup {0}]]
    /\ due \subseteq Triggers
    /\ clock \in Times
    /\ holder \in Option(Tasks)
    /\ started \in [Triggers -> 0 .. 2]
    /\ settled \subseteq Triggers /\ raced \subseteq Triggers /\ cut \subseteq Triggers
    /\ \A p \in Tasks : holder = p <=> task[p].pc \in {"start", "run"}
    /\ \A p \in Tasks : task[p].trigger = None <=> task[p].pc \in {"idle", "list"}
    /\ \A p \in Tasks : task[p].pc = "list" => p = Scheduler

(* Two runs of one trigger are never active together: a trigger whose last run
   is still going waits for the next sweep, or is refused.  (Timed triggers,
   which only the one scheduler task fires, and a webhook whose requests come
   one after the other; not one that is turned into the other kind while it
   is fired, which two tasks then fire.) *)
NoOverlap ==
    \A t \in Triggers \ raced :
        Cardinality({r \in Runs : active[r] = t}) <= 1

(* A one-shot starts one run, unless a fire was cut short by a crash or an
   error, or its plan was changed while it was being fired. *)
OnceStartsOnce ==
    \A t \in Triggers \ (cut \cup raced) :
        trig[t] # None /\ trig[t].spec.kind = "once" => started[t] <= 1

(* A one-shot keeps its time until a run was started for it, whatever crashes
   or fails, unless its plan was changed while it was being fired. *)
OnceIsNotLost ==
    \A t \in Triggers \ raced :
        trig[t] # None /\ trig[t].spec.kind = "once" /\ started[t] = 0
            => trig[t].next_fire = trig[t].spec.arg

(* Once a fire is settled, the scheduler fires the trigger again only at a
   later reading of the clock, even if the clock jumped back or the daemon
   was restarted: one due time is not two fires. *)
FiresAdvance ==
    [][\A t \in settled \ raced :
           task[Scheduler].pc = "claim" /\ task'[Scheduler].pc = "lock"
             /\ task[Scheduler].trigger = t /\ trig[t].last_fired # None
           => task[Scheduler].now > trig[t].last_fired]_vars

(* A due trigger is not passed over for ever: the scheduler takes it up, or it
   is not due any more or still has a run going.  A sweep that meets errors
   goes on with the rest of its list. *)
DueIsServed ==
    \A t \in Triggers :
        Due(t, clock) ~> \/ ~Due(t, clock)
                         \/ Busy(t)
                         \/ task[Scheduler].trigger = t

=============================================================================
