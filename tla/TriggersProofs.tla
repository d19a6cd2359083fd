--------------------------- MODULE TriggersProofs ---------------------------
(***************************************************************************)
(* Triggers, for any number of them, of webhook requests and crashes, and  *)
(* any clock: a one-shot is not lost, and starts one run; what the clock   *)
(* started runs of, a cron or interval trigger, was started for each due   *)
(* time once; and, with one webhook request at a time, no two runs of a    *)
(* trigger are in play together.                                           *)
(***************************************************************************)
EXTENDS Triggers, FiniteSetTheorems, TLAPS

(* A next time is a time, or there is none. *)
LEMMA NextFireType ==
    ASSUME NEW spec \in Specs, NEW from \in Nat
    PROVE  NextFire(spec, from) \in Option(Nat)
<1>1. spec.arg \in Nat /\ spec.kind \in {"once", "interval", "calendar", "webhook"}
  BY SpecsAssumption DEF TriggerSpecs
<1>2. CASE spec.kind = "calendar"
  <2>1. spec.arg > 0
    BY <1>2, SpecsAssumption
  <2> DEFINE sum == from + spec.arg - 1
             periods == sum \div spec.arg
  <2>2. sum \in Nat
    BY <1>1, <2>1
  <2>3. periods \in Nat
    <3> HIDE DEF sum
    <3> QED BY <1>1, <2>1, <2>2
  <2>4. periods * spec.arg \in Nat
    <3> HIDE DEF periods
    <3> QED BY <1>1, <2>3
  <2> QED
    BY <1>2, <2>4 DEF NextFire, Option
<1>3. CASE spec.kind # "calendar"
  BY <1>1, <1>3 DEF NextFire, Option
<1> QED
  BY <1>2, <1>3

(* The next time of a trigger is a time or none. *)
LEMMA AfterType ==
    ASSUME NEW spec \in Specs, NEW now \in Nat
    PROVE  After(spec, now) \in Option(Nat)
  BY NextFireType, SpecsAssumption DEF After, TriggerSpecs, Option

(* A task that is done with its trigger has none. *)
LEMMA OverType ==
    ASSUME TypeOK, NEW p \in Tasks, task' = Over(p)
    PROVE  /\ task' \in [Tasks -> [pc: {"idle", "clock", "list", "claim", "lock", "start", "run", "settle"},
                                   trigger: Option(Triggers), run: Option(Runs), now: Times \cup {0}]]
           /\ task'[p].pc = "idle" /\ task'[p].trigger = None
           /\ \A q \in Tasks \ {p} : task'[q] = task[q]
  BY DEF TypeOK, Over, Idle, Option

(* A task that moves on with its trigger, and possibly its run. *)
LEMMA MoveType ==
    ASSUME TypeOK, NEW p \in Tasks, NEW r \in Option(Runs),
           NEW label \in {"lock", "start", "run", "settle"}, task[p].trigger # None,
           task' = [task EXCEPT ![p].pc = label, ![p].run = r]
    PROVE  /\ task' \in [Tasks -> [pc: {"idle", "clock", "list", "claim", "lock", "start", "run", "settle"},
                                   trigger: Option(Triggers), run: Option(Runs), now: Times \cup {0}]]
           /\ task'[p].pc = label
           /\ \A q \in Tasks \ {p} : task'[q] = task[q]
           /\ \A q \in Tasks : task'[q].trigger = None <=> task'[q].pc \in {"idle", "list"}
<1>1. task[p] \in [pc: {"idle", "clock", "list", "claim", "lock", "start", "run", "settle"},
                  trigger: Option(Triggers), run: Option(Runs), now: Times \cup {0}]
  BY DEF TypeOK
<1>2. task'[p] = [task[p] EXCEPT !.pc = label, !.run = r]
  BY DEF TypeOK
<1>3. \A q \in Tasks \ {p} : task'[q] = task[q]
  BY DEF TypeOK
<1> QED
  BY <1>1, <1>2, <1>3 DEF TypeOK

(* Then all the types hold, if the lock is with who is at work under it. *)
LEMMA MovedType ==
    ASSUME TypeOK, NEW p \in Tasks, NEW r \in Option(Runs),
           NEW label \in {"lock", "start", "run", "settle"}, task[p].trigger # None,
           task' = [task EXCEPT ![p].pc = label, ![p].run = r],
           trig' \in [Triggers -> Option(TriggerRecord)], active' \in [Runs -> Option(Triggers)],
           started' \in [Triggers -> 0 .. 2], holder' \in Option(Tasks),
           holder' = p <=> label \in {"start", "run"},
           \A q \in Tasks \ {p} : holder' = q <=> holder = q,
           UNCHANGED <<due, clock, settled, raced, cut>>
    PROVE  TypeOK'
<1>1. /\ task' \in [Tasks -> [pc: {"idle", "clock", "list", "claim", "lock", "start", "run", "settle"},
                              trigger: Option(Triggers), run: Option(Runs), now: Times \cup {0}]]
      /\ task'[p].pc = label /\ \A q \in Tasks \ {p} : task'[q] = task[q]
      /\ \A q \in Tasks : task'[q].trigger = None <=> task'[q].pc \in {"idle", "list"}
  BY MoveType
<1>2. \A q \in Tasks : task'[q].pc = "list" => q = Scheduler
  BY <1>1 DEF TypeOK
<1>3. due' \subseteq Triggers /\ clock' \in Times /\ settled' \subseteq Triggers
      /\ raced' \subseteq Triggers /\ cut' \subseteq Triggers
  BY DEF TypeOK
<1>4. \A q \in Tasks : holder' = q <=> task'[q].pc \in {"start", "run"}
  <2>1. \A q \in Tasks : holder = q <=> task[q].pc \in {"start", "run"}
    BY DEF TypeOK
  <2> QED
    BY <1>1, <2>1
<1> QED
  BY <1>1, <1>2, <1>3, <1>4 DEF TypeOK

(* The calls keep the types. *)
LEMMA CallsType ==
    ASSUME TypeOK, NEW t \in Triggers, Create(t) \/ Update(t) \/ Delete(t)
    PROVE  TypeOK'
<1>1. clock \in Nat
  BY TimesAssumption DEF TypeOK
<1>2. CASE Create(t)
  <2>1. PICK spec \in Specs, paused \in BOOLEAN :
            trig' = [trig EXCEPT ![t] =
                       [spec |-> spec, paused |-> paused, next_fire |-> NextFire(spec, clock),
                        last_run |-> None, last_fired |-> None]]
    BY <1>2 DEF Create
  <2>2. trig' \in [Triggers -> Option(TriggerRecord)]
    BY <1>1, <2>1, NextFireType DEF TypeOK, TriggerRecord, Option
  <2> QED
    BY <1>2, <2>2 DEF Create, TypeOK
<1>3. CASE Update(t)
  <2>1. PICK spec \in Specs, paused \in BOOLEAN :
            trig' = [trig EXCEPT ![t].spec = spec, ![t].paused = paused,
                                 ![t].next_fire = IF spec # trig[t].spec THEN NextFire(spec, clock) ELSE @]
    BY <1>3 DEF Update
  <2>2. trig[t] \in TriggerRecord
    <3>1. trig[t] # None
      BY <1>3 DEF Update
    <3>2. trig[t] \in Option(TriggerRecord)
      BY DEF TypeOK
    <3> QED
      BY <3>1, <3>2 DEF Option
  <2>3. trig' \in [Triggers -> Option(TriggerRecord)]
    BY <1>1, <2>1, <2>2, NextFireType DEF TypeOK, TriggerRecord, Option
  <2>4. started' \in [Triggers -> 0 .. 2]
    <3>1. started' = started \/ started' = [started EXCEPT ![t] = 0]
      BY <1>3 DEF Update
    <3> QED
      BY <3>1 DEF TypeOK
  <2>5. settled' \subseteq Triggers /\ raced' \subseteq Triggers /\ cut' \subseteq Triggers
    BY <1>3 DEF Update, TypeOK
  <2>6. UNCHANGED <<active, holder, task, due, clock>>
    BY <1>3 DEF Update
  <2> QED
    BY <2>3, <2>4, <2>5, <2>6 DEF TypeOK
<1>4. CASE Delete(t)
  BY <1>4 DEF Delete, TypeOK, Option, watch
<1> QED
  BY <1>2, <1>3, <1>4

(* The steps of a fire keep the types. *)
LEMMA FireType ==
    ASSUME TypeOK, NEW p \in Tasks, Fire(p)
    PROVE  TypeOK'
<1>1. CASE Refuse(p)
  BY <1>1, OverType DEF Refuse, TypeOK, watch
<1>2. CASE Claim(p)
  <2>1. PICK r \in Runs :
            /\ trig' = [trig EXCEPT ![task[p].trigger].last_run = r]
            /\ task' = [task EXCEPT ![p].pc = "lock", ![p].run = r]
    BY <1>2 DEF Claim
  <2>2. task[p].trigger \in Triggers /\ trig[task[p].trigger] \in TriggerRecord
    BY <1>2 DEF Claim, Ready, TypeOK, Option
  <2>3. trig' \in [Triggers -> Option(TriggerRecord)]
    BY <2>1, <2>2 DEF TypeOK, TriggerRecord, Option
  <2>4. task[p].pc = "claim" /\ UNCHANGED <<active, holder, due, clock, started, settled, raced, cut>>
    BY <1>2 DEF Claim
  <2>5. task[p].trigger # None /\ r \in Option(Runs)
    BY <2>4 DEF TypeOK, Option
  <2>6. active' \in [Runs -> Option(Triggers)] /\ started' \in [Triggers -> 0 .. 2]
        /\ holder' \in Option(Tasks)
    BY <2>4 DEF TypeOK
  <2>7. holder' = holder /\ holder # p
    BY <2>4 DEF TypeOK
  <2> QED
    BY <2>1, <2>3, <2>4, <2>5, <2>6, <2>7, MovedType
<1>3. CASE Lock(p)
  <2>1. /\ holder = None /\ holder' = p /\ task[p].pc = "lock"
        /\ UNCHANGED <<trig, active, due, clock, started, settled, raced, cut>>
    BY <1>3 DEF Lock, watch
  <2>2. task[p].trigger # None /\ task[p].run \in Option(Runs)
    BY <2>1 DEF TypeOK
  <2>3. task' = [task EXCEPT ![p].pc = "start", ![p].run = task[p].run]
    BY <1>3 DEF Lock, TypeOK
  <2>4. trig' \in [Triggers -> Option(TriggerRecord)] /\ active' \in [Runs -> Option(Triggers)]
        /\ started' \in [Triggers -> 0 .. 2]
    BY <2>1 DEF TypeOK
  <2>5. holder' = p /\ \A q \in Tasks \ {p} : holder' = q <=> holder = q
    BY <2>1, TasksAssumption DEF Tasks
  <2>6. holder' \in Option(Tasks)
    BY <2>1 DEF Option
  <2> QED
    BY <2>1, <2>2, <2>3, <2>4, <2>5, <2>6, MovedType
<1>4. CASE Begin(p)
  <2>1. /\ task[p].pc = "start"
        /\ UNCHANGED <<trig, holder, due, clock, settled, raced, cut>>
    BY <1>4 DEF Begin
  <2>2. task[p].trigger \in Triggers /\ task[p].run \in Option(Runs)
    BY <2>1 DEF TypeOK, Option
  <2>3. task' = [task EXCEPT ![p].pc = "run", ![p].run = task[p].run]
    BY <1>4 DEF Begin, TypeOK
  <2>4. active' \in [Runs -> Option(Triggers)]
    BY <1>4, <2>2 DEF Begin, TypeOK, Option
  <2>5. started' \in [Triggers -> 0 .. 2]
    BY <1>4, <2>2 DEF Begin, TypeOK
  <2>6. trig' \in [Triggers -> Option(TriggerRecord)] /\ holder' \in Option(Tasks)
        /\ task[p].trigger # None
    BY <2>1 DEF TypeOK
  <2>7. holder' = holder /\ holder = p
    BY <2>1 DEF TypeOK
  <2> QED
    BY <2>1, <2>2, <2>3, <2>4, <2>5, <2>6, <2>7, MovedType
<1>5. CASE RunReturns(p)
  <2>1. /\ task[p].pc = "run" /\ holder' = None
        /\ UNCHANGED <<trig, due, clock, started, settled, raced, cut>>
    BY <1>5 DEF RunReturns, watch
  <2>2. task[p].trigger \in Triggers /\ task[p].run \in Option(Runs) /\ holder = p
    BY <2>1 DEF TypeOK, Option
  <2>3. task' = [task EXCEPT ![p].pc = "settle", ![p].run = task[p].run]
    BY <1>5 DEF RunReturns, TypeOK
  <2>4. active' \in [Runs -> Option(Triggers)]
    BY <1>5, <2>2 DEF RunReturns, TypeOK, Option
  <2>5. trig' \in [Triggers -> Option(TriggerRecord)] /\ started' \in [Triggers -> 0 .. 2]
        /\ holder' \in Option(Tasks) /\ task[p].trigger # None
    BY <2>1 DEF TypeOK, Option
  <2>6. holder' # p /\ \A q \in Tasks \ {p} : holder' = q <=> holder = q
    BY <2>1, <2>2, TasksAssumption DEF Tasks
  <2> QED
    BY <2>1, <2>2, <2>3, <2>4, <2>5, <2>6, MovedType
<1>6. CASE StartFails(p)
  <2>1. task[p].trigger \in Triggers
    BY <1>6 DEF StartFails, TypeOK, Option
  <2>2. active' \in [Runs -> Option(Triggers)]
    <3>1. PICK left \in {None, active[task[p].run]} : active' = [active EXCEPT ![task[p].run] = left]
      BY <1>6 DEF StartFails
    <3>2. active \in [Runs -> Option(Triggers)]
      BY DEF TypeOK
    <3>3. CASE task[p].run \in Runs
      BY <3>1, <3>2, <3>3 DEF Option
    <3>4. CASE task[p].run \notin Runs
      BY <3>1, <3>2, <3>4
    <3> QED
      BY <3>3, <3>4
  <2>3. holder = p /\ holder' = None
    BY <1>6 DEF StartFails, TypeOK
  <2>4. /\ task' = Over(p) /\ cut' \subseteq Triggers
        /\ UNCHANGED <<trig, due, clock, started, settled, raced>>
    BY <1>6, <2>1 DEF StartFails, TypeOK
  <2> QED
    BY <2>2, <2>3, <2>4, OverType, TasksAssumption DEF TypeOK, Tasks, Option
<1>7. CASE Settle(p)
  <2>1. task[p].trigger \in Triggers /\ task[p].now \in Nat
    BY <1>7, TimesAssumption DEF Settle, TypeOK, Option
  <2>2. trig' \in [Triggers -> Option(TriggerRecord)]
    BY <1>7, <2>1, AfterType DEF Settle, TypeOK, TriggerRecord, Option
  <2> QED
    <3>1. /\ task' = Over(p) /\ settled' \subseteq Triggers /\ task[p].pc = "settle"
          /\ UNCHANGED <<active, holder, due, clock, started, raced, cut>>
      BY <1>7, <2>1 DEF Settle, TypeOK
    <3>2. /\ task'[p].pc = "idle" /\ task'[p].trigger = None
          /\ \A q \in Tasks \ {p} : task'[q] = task[q]
          /\ task' \in [Tasks -> [pc: {"idle", "clock", "list", "claim", "lock", "start", "run", "settle"},
                                  trigger: Option(Triggers), run: Option(Runs), now: Times \cup {0}]]
      BY <3>1, OverType
    <3>3. \A q \in Tasks : /\ holder' = q <=> task'[q].pc \in {"start", "run"}
                           /\ task'[q].trigger = None <=> task'[q].pc \in {"idle", "list"}
                           /\ task'[q].pc = "list" => q = Scheduler
      <4> SUFFICES ASSUME NEW q \in Tasks
                   PROVE  /\ holder' = q <=> task'[q].pc \in {"start", "run"}
                          /\ task'[q].trigger = None <=> task'[q].pc \in {"idle", "list"}
                          /\ task'[q].pc = "list" => q = Scheduler
        OBVIOUS
      <4>1. CASE q = p
        BY <3>1, <3>2, <4>1 DEF TypeOK
      <4>2. CASE q # p
        BY <3>1, <3>2, <4>2 DEF TypeOK
      <4> QED
        BY <4>1, <4>2
    <3> QED
      BY <2>2, <3>1, <3>2, <3>3 DEF TypeOK
<1> QED
  BY <1>1, <1>2, <1>3, <1>4, <1>5, <1>6, <1>7 DEF Fire

(* Everything else keeps the types. *)
LEMMA NextType == TypeOK /\ [Next]_vars => TypeOK'
<1> SUFFICES ASSUME TypeOK, [Next]_vars PROVE TypeOK'
  OBVIOUS
<1>1. CASE \E t \in Triggers : Create(t) \/ Update(t) \/ Delete(t)
  BY <1>1, CallsType
<1>2. CASE \E p \in Tasks : Fire(p)
  BY <1>2, FireType
<1>3. CASE \E p \in Tasks : ReadClock(p)
  <2>1. PICK p \in Tasks : ReadClock(p)
    BY <1>3
  <2>2. UNCHANGED <<trig, active, holder, due, clock, started, settled, raced, cut>>
    BY <2>1 DEF ReadClock, watch
  <2>3. PICK label \in {"list", "claim"} :
          /\ task' = [task EXCEPT ![p].pc = label, ![p].now = clock]
          /\ label = "list" => p = Scheduler /\ task[p].pc = "idle"
          /\ label = "claim" => task[p].pc = "clock"
    BY <2>1 DEF ReadClock
  <2>4. task[p] \in [pc: {"idle", "clock", "list", "claim", "lock", "start", "run", "settle"},
                    trigger: Option(Triggers), run: Option(Runs), now: Times \cup {0}]
    BY DEF TypeOK
  <2>5. task'[p] = [task[p] EXCEPT !.pc = label, !.now = clock]
    BY <2>3 DEF TypeOK
  <2>6. clock \in Times
    BY DEF TypeOK
  <2> QED
    BY <2>2, <2>3, <2>4, <2>5, <2>6 DEF TypeOK
<1>4. CASE ListDue
  BY <1>4 DEF ListDue, TypeOK, watch, Tasks, Due
<1>5. CASE NextDue
  BY <1>5, TasksAssumption DEF NextDue, TypeOK, watch, Tasks, Option
<1>6. CASE \E p \in Hooks : WebhookFire(p)
  BY <1>6, TasksAssumption DEF WebhookFire, TypeOK, watch, Tasks, Option
<1>7. CASE \E p \in Hooks : HookDropped(p)
  <2>1. PICK p \in Hooks : HookDropped(p)
    BY <1>7
  <2>2. task[p].trigger \in Triggers
    BY <2>1, TasksAssumption DEF HookDropped, TypeOK, Option, Tasks
  <2>5. cut' \subseteq Triggers
    BY <2>1, <2>2 DEF HookDropped, TypeOK
  <2>3. p \in Tasks /\ task' = Over(p) /\ UNCHANGED <<trig, active, due, clock, started, settled, raced>>
    BY <2>1 DEF HookDropped, Tasks
  <2>4. holder' \in Option(Tasks) /\ (\A q \in Tasks \ {p} : holder' = q <=> holder = q) /\ holder' # p
    BY <2>1, TasksAssumption DEF HookDropped, TypeOK, Option, Tasks
  <2> QED
    BY <2>3, <2>4, <2>5, OverType DEF TypeOK
<1>8. CASE \E r \in Runs : HumanEnds(r)
  BY <1>8 DEF HumanEnds, TypeOK, watch, Option
<1>9. CASE Crash
  BY <1>9, TasksAssumption DEF Crash, TypeOK, Option, Idle, Tasks
<1>10. CASE ClockMoves
  BY <1>10 DEF ClockMoves, TypeOK, watch
<1>11. CASE UNCHANGED vars
  BY <1>11 DEF vars, watch, TypeOK
<1> QED
  BY <1>1, <1>2, <1>3, <1>4, <1>5, <1>6, <1>7, <1>8, <1>9, <1>10, <1>11
     DEF Next, SchedulerStep, Tasks

(* The types hold at the start. *)
LEMMA InitType == Init => TypeOK
  BY TasksAssumption DEF Init, TypeOK, Option, Tasks, Idle

(* The store, the runs, the tasks and the runtime's mutex keep their types,
   and the mutex is held by exactly the task that is inside a run's start. *)
THEOREM TypesHold == Spec => []TypeOK
<1>1. Init => TypeOK
  BY InitType
<1>2. TypeOK /\ [Next]_vars => TypeOK'
  BY NextType
<1> QED
  BY <1>1, <1>2, PTL DEF Spec

-----------------------------------------------------------------------------
(* What keeps a one-shot from being lost: a plan is given up only by a task
   whose run has begun, and that run was counted unless the plan was changed
   under it. *)
BegunIsCounted ==
    \A p \in Tasks :
        task[p].pc \in {"run", "settle"} =>
            started[task[p].trigger] >= 1 \/ task[p].trigger \in raced

NotLostInv == TypeOK /\ BegunIsCounted /\ OnceIsNotLost

(* trigger.create, trigger.update and trigger.delete, at any moment of a fire *)
LEMMA NotLostCalls ==
    ASSUME NotLostInv, NEW t \in Triggers, Create(t) \/ Update(t) \/ Delete(t)
    PROVE  BegunIsCounted' /\ OnceIsNotLost'
<1>1. CASE Create(t)
  <2>1. BegunIsCounted'
    BY <1>1 DEF Create, NotLostInv, BegunIsCounted, TypeOK, Firing, Tasks, Option
  <2>2. PICK spec \in Specs, paused \in BOOLEAN :
          trig' = [trig EXCEPT ![t] =
                    [spec |-> spec, paused |-> paused, next_fire |-> NextFire(spec, clock),
                     last_run |-> None, last_fired |-> None]]
    BY <1>1 DEF Create
  <2>3. spec.kind = "once" => NextFire(spec, clock) = spec.arg
    BY DEF NextFire
  <2>4. OnceIsNotLost'
    BY <1>1, <2>2, <2>3 DEF Create, NotLostInv, OnceIsNotLost, TypeOK
  <2> QED
    BY <2>1, <2>4
<1>2. CASE Update(t)
  <2>1. PICK spec \in Specs, paused \in BOOLEAN :
          /\ trig' = [trig EXCEPT ![t].spec = spec, ![t].paused = paused,
                                  ![t].next_fire = IF spec # trig[t].spec
                                                   THEN NextFire(spec, clock) ELSE @]
          /\ started' = IF spec # trig[t].spec THEN [started EXCEPT ![t] = 0] ELSE started
          /\ raced' = IF spec # trig[t].spec /\ Firing(t) THEN raced \cup {t} ELSE raced
    BY <1>2 DEF Update
  <2>2. trig[t] # None /\ UNCHANGED task
    BY <1>2 DEF Update
  <2>3. BegunIsCounted'
    BY <2>1, <2>2 DEF NotLostInv, BegunIsCounted, TypeOK, Firing, Tasks, Option
  <2>4. spec.kind = "once" => NextFire(spec, clock) = spec.arg
    BY DEF NextFire
  <2>5. trig[t] \in TriggerRecord
    BY <2>2 DEF NotLostInv, TypeOK, Option
  <2>6. /\ trig'[t] = [trig[t] EXCEPT !.spec = spec, !.paused = paused,
                                     !.next_fire = IF spec # trig[t].spec
                                                   THEN NextFire(spec, clock) ELSE @]
        /\ \A s \in Triggers \ {t} : trig'[s] = trig[s]
    BY <2>1, <2>2 DEF NotLostInv, TypeOK
  <2>7. OnceIsNotLost'
    BY <2>1, <2>4, <2>5, <2>6 DEF NotLostInv, OnceIsNotLost, TypeOK, TriggerRecord
  <2> QED
    BY <2>3, <2>7
<1>3. CASE Delete(t)
  BY <1>3 DEF Delete, NotLostInv, BegunIsCounted, OnceIsNotLost, TypeOK, watch
<1> QED
  BY <1>1, <1>2, <1>3

(* Firing loses no one-shot that was claimed, *)
LEMMA NotLostFire ==
    ASSUME NotLostInv, NEW p \in Tasks, Fire(p)
    PROVE  BegunIsCounted' /\ OnceIsNotLost'
<1> USE DEF NotLostInv
<1> DEFINE t == task[p].trigger
<1>1. CASE Refuse(p) \/ StartFails(p)
  <2>1. task' = Over(p) /\ UNCHANGED <<trig, started, raced>>
    BY <1>1 DEF Refuse, StartFails, watch
  <2> QED
    BY <2>1, OverType DEF BegunIsCounted, OnceIsNotLost
<1>2. CASE Claim(p)
  <2>1. PICK r \in Runs :
          /\ trig' = [trig EXCEPT ![t].last_run = r]
          /\ task' = [task EXCEPT ![p].pc = "lock", ![p].run = r]
    BY <1>2 DEF Claim
  <2>2. t \in Triggers /\ trig[t] # None /\ trig[t] \in TriggerRecord /\ UNCHANGED <<started, raced>>
    BY <1>2 DEF Claim, TypeOK, Ready, Option
  <2>3. /\ trig'[t] = [trig[t] EXCEPT !.last_run = r]
        /\ \A s \in Triggers \ {t} : trig'[s] = trig[s]
    BY <2>1, <2>2 DEF TypeOK
  <2>4. OnceIsNotLost'
    BY <2>2, <2>3 DEF OnceIsNotLost, TriggerRecord
  <2>5. BegunIsCounted'
    BY <2>1, <2>2 DEF BegunIsCounted, TypeOK
  <2> QED
    BY <2>4, <2>5
<1>3. CASE Lock(p)
  BY <1>3 DEF Lock, BegunIsCounted, OnceIsNotLost, TypeOK, watch
<1>4. CASE Begin(p)
  <2>1. t \in Triggers /\ started[t] \in 0 .. 2 /\ UNCHANGED <<trig, raced>>
    BY <1>4 DEF Begin, TypeOK, Option
  <2>2. started' = [started EXCEPT ![t] = IF @ = 2 THEN 2 ELSE @ + 1]
    BY <1>4 DEF Begin
  <2>3. started'[t] >= 1 /\ \A s \in Triggers \ {t} : started'[s] = started[s]
    BY <2>1, <2>2 DEF TypeOK
  <2>4. task' = [task EXCEPT ![p].pc = "run"]
    BY <1>4 DEF Begin
  <2>5. OnceIsNotLost'
    BY <2>1, <2>3 DEF OnceIsNotLost
  <2>6. BegunIsCounted'
    BY <2>1, <2>3, <2>4 DEF BegunIsCounted, TypeOK, Option
  <2> QED
    BY <2>5, <2>6
<1>5. CASE RunReturns(p)
  <2>1. task[p].pc = "run" /\ task' = [task EXCEPT ![p].pc = "settle"]
        /\ UNCHANGED <<trig, started, raced>>
    BY <1>5 DEF RunReturns, watch
  <2> QED
    BY <2>1 DEF BegunIsCounted, OnceIsNotLost, TypeOK
<1>6. CASE Settle(p)
  <2>1. t \in Triggers /\ (started[t] >= 1 \/ t \in raced)
    BY <1>6 DEF Settle, TypeOK, Option, BegunIsCounted
  <2>2. task' = Over(p) /\ UNCHANGED <<started, raced>>
    BY <1>6 DEF Settle
  <2>3. \A s \in Triggers \ {t} : trig'[s] = trig[s]
    BY <1>6 DEF Settle, TypeOK
  <2>4. started[t] \in 0 .. 2
    BY <2>1 DEF TypeOK
  <2>5. OnceIsNotLost'
    BY <2>1, <2>2, <2>3, <2>4 DEF OnceIsNotLost
  <2>6. BegunIsCounted'
    BY <2>2, OverType DEF BegunIsCounted
  <2> QED
    BY <2>5, <2>6
<1> QED
  BY <1>1, <1>2, <1>3, <1>4, <1>5, <1>6 DEF Fire

(* nor does any other step. *)
LEMMA NotLostStep == NotLostInv /\ [Next]_vars => NotLostInv'
<1> SUFFICES ASSUME NotLostInv, [Next]_vars PROVE BegunIsCounted' /\ OnceIsNotLost'
  BY NextType DEF NotLostInv
<1>1. CASE \E t \in Triggers : Create(t) \/ Update(t) \/ Delete(t)
  BY <1>1, NotLostCalls
<1>2. CASE \E p \in Tasks : Fire(p)
  BY <1>2, NotLostFire
<1>3. CASE \E p \in Tasks : ReadClock(p)
  BY <1>3 DEF ReadClock, watch, NotLostInv, BegunIsCounted, OnceIsNotLost, TypeOK
<1>4. CASE ListDue \/ NextDue
  BY <1>4 DEF ListDue, NextDue, watch, NotLostInv, BegunIsCounted, OnceIsNotLost, TypeOK, Tasks
<1>5. CASE \E p \in Hooks : WebhookFire(p)
  BY <1>5 DEF WebhookFire, watch, NotLostInv, BegunIsCounted, OnceIsNotLost, TypeOK, Tasks
<1>6. CASE \E p \in Hooks : HookDropped(p)
  <2>1. PICK p \in Tasks : task' = Over(p) /\ UNCHANGED <<trig, started, raced>>
    BY <1>6 DEF HookDropped, Tasks
  <2> QED
    BY <2>1, OverType DEF NotLostInv, BegunIsCounted, OnceIsNotLost
<1>7. CASE Crash
  BY <1>7 DEF Crash, Idle, NotLostInv, BegunIsCounted, OnceIsNotLost, TypeOK
<1>8. CASE (\E r \in Runs : HumanEnds(r)) \/ ClockMoves \/ UNCHANGED vars
  BY <1>8 DEF HumanEnds, ClockMoves, vars, watch, NotLostInv, BegunIsCounted, OnceIsNotLost
<1> QED
  BY <1>1, <1>2, <1>3, <1>4, <1>5, <1>6, <1>7, <1>8 DEF Next, SchedulerStep, Tasks

(* Whatever crashes, fails or is dropped, and whenever a trigger is edited, a
   one-shot keeps its time until a run was begun for it. *)
THEOREM OneShotsAreNotLost == Spec => []OnceIsNotLost
<1>1. Init => NotLostInv
  BY InitType DEF Init, NotLostInv, BegunIsCounted, OnceIsNotLost, Idle, Tasks
<1>2. NotLostInv /\ [Next]_vars => NotLostInv'
  BY NotLostStep
<1>3. NotLostInv => OnceIsNotLost
  BY DEF NotLostInv
<1> QED
  BY <1>1, <1>2, <1>3, PTL DEF Spec

-----------------------------------------------------------------------------
(* What keeps a one-shot from starting twice.  Only the scheduler fires it,
   unless it was made a one-shot while a webhook request fired it; what the
   scheduler works on is off its list; and once its run has begun it is off
   the list for good, its plan given up at the latest when the scheduler is
   through with it. *)
IsOnce(t) == trig[t] # None /\ trig[t].spec.kind = "once"

HooksFireHooks ==
    \A p \in Hooks, t \in Triggers \ raced : task[p].trigger = t => ~IsOnce(t)

WorkIsOffTheList == task[Scheduler].trigger \notin due

AtWork(t) == task[Scheduler].trigger = t

Unbegun(t) ==
    started[t] = 0 /\ (AtWork(t) => task[Scheduler].pc \in {"claim", "lock", "start"})

Begun(t) ==
    /\ started[t] = 1 /\ t \notin due
    /\ AtWork(t) => task[Scheduler].pc \in {"run", "settle"}
    /\ ~AtWork(t) => trig[t].next_fire = None

OnceByOnce == \A t \in Triggers \ (cut \cup raced) : IsOnce(t) => Unbegun(t) \/ Begun(t)

OnceInv == NotLostInv /\ HooksFireHooks /\ WorkIsOffTheList /\ OnceByOnce

(* What a trigger is asked to do by its owner keeps OnceInv, *)
LEMMA OnceCalls ==
    ASSUME OnceInv, NEW t \in Triggers, Create(t) \/ Update(t) \/ Delete(t)
    PROVE  HooksFireHooks' /\ WorkIsOffTheList' /\ OnceByOnce'
<1> USE DEF OnceInv, NotLostInv
<1>1. WorkIsOffTheList' /\ UNCHANGED <<task, due>>
  BY DEF Create, Update, Delete, WorkIsOffTheList
<1>2. CASE Create(t)
  <2>1. /\ ~Firing(t) /\ started' = [started EXCEPT ![t] = 0]
        /\ \A s \in Triggers \ {t} : trig'[s] = trig[s]
        /\ raced' = raced \ {t} /\ cut' = cut \ {t}
    BY <1>2 DEF Create, TypeOK
  <2>2. HooksFireHooks'
    BY <1>1, <2>1 DEF HooksFireHooks, Firing, IsOnce, Tasks
  <2>3. \A s \in Triggers \ (cut' \cup raced') : IsOnce(s)' => (Unbegun(s) \/ Begun(s))'
    <3> SUFFICES ASSUME NEW s \in Triggers, s \notin cut', s \notin raced', IsOnce(s)'
                 PROVE (Unbegun(s) \/ Begun(s))'
      OBVIOUS
    <3>1. CASE s = t
      <4>1. started'[t] = 0 /\ ~AtWork(t)'
        BY <1>1, <2>1 DEF Firing, AtWork, TypeOK, Tasks
      <4> QED
        BY <3>1, <4>1 DEF Unbegun
    <3>2. CASE s # t
      <4>1. started'[s] = started[s] /\ trig'[s] = trig[s] /\ IsOnce(s) /\ (AtWork(s)' <=> AtWork(s))
        BY <1>1, <2>1, <3>2 DEF TypeOK, IsOnce, AtWork
      <4> QED
        BY <1>1, <2>1, <3>2, <4>1 DEF OnceByOnce, Unbegun, Begun, AtWork
    <3> QED
      BY <3>1, <3>2
  <2> QED
    BY <1>1, <2>2, <2>3 DEF OnceByOnce
<1>3. CASE Update(t)
  <2>1. PICK spec \in Specs, paused \in BOOLEAN :
          /\ trig' = [trig EXCEPT ![t].spec = spec, ![t].paused = paused,
                                  ![t].next_fire = IF spec # trig[t].spec
                                                   THEN NextFire(spec, clock) ELSE @]
          /\ started' = IF spec # trig[t].spec THEN [started EXCEPT ![t] = 0] ELSE started
          /\ cut' = IF spec # trig[t].spec THEN cut \ {t} ELSE cut
          /\ raced' = IF spec # trig[t].spec /\ Firing(t) THEN raced \cup {t} ELSE raced
    BY <1>3 DEF Update
  <2>2. trig[t] # None /\ trig[t] \in TriggerRecord
    <3>1. trig[t] # None
      BY <1>3 DEF Update
    <3> QED
      BY <3>1 DEF TypeOK, Option
  <2>3. /\ trig'[t] = [trig[t] EXCEPT !.spec = spec, !.paused = paused,
                                     !.next_fire = IF spec # trig[t].spec
                                                   THEN NextFire(spec, clock) ELSE @]
        /\ \A s \in Triggers \ {t} : trig'[s] = trig[s]
    BY <2>1, <2>2 DEF TypeOK
  <2>4. spec = trig[t].spec => trig'[t].spec = trig[t].spec /\ trig'[t].next_fire = trig[t].next_fire
    BY <2>2, <2>3 DEF TriggerRecord
  <2>5. HooksFireHooks'
    <3> SUFFICES ASSUME NEW p \in Hooks, NEW s \in Triggers, s \notin raced',
                        task[p].trigger = s
                 PROVE ~IsOnce(s)'
      BY <1>1 DEF HooksFireHooks
    <3>1. s \notin raced /\ ~IsOnce(s) /\ Firing(s)
      BY <2>1 DEF HooksFireHooks, Firing, Tasks
    <3> QED
      BY <2>1, <2>2, <2>3, <2>4, <3>1 DEF IsOnce
  <2>6. \A s \in Triggers \ (cut' \cup raced') : IsOnce(s)' => (Unbegun(s) \/ Begun(s))'
    <3> SUFFICES ASSUME NEW s \in Triggers, s \notin cut', s \notin raced', IsOnce(s)'
                 PROVE (Unbegun(s) \/ Begun(s))'
      OBVIOUS
    <3>1. CASE s = t /\ spec # trig[t].spec
      <4>1. started'[t] = 0 /\ ~Firing(t)
        BY <2>1, <3>1 DEF TypeOK
      <4> QED
        BY <1>1, <3>1, <4>1 DEF Firing, AtWork, Unbegun, Tasks
    <3>2. CASE s # t \/ spec = trig[t].spec
      <4>1. started'[s] = started[s] /\ trig'[s].next_fire = trig[s].next_fire /\ IsOnce(s)
            /\ s \notin cut /\ s \notin raced
        BY <2>1, <2>2, <2>3, <2>4, <3>2 DEF TypeOK, IsOnce
      <4> QED
        BY <1>1, <4>1 DEF OnceByOnce, Unbegun, Begun, AtWork
    <3> QED
      BY <3>1, <3>2
  <2> QED
    BY <1>1, <2>5, <2>6 DEF OnceByOnce
<1>4. CASE Delete(t)
  <2>1. /\ ~IsOnce(t)' /\ UNCHANGED <<started, raced, cut>>
        /\ \A s \in Triggers \ {t} : trig'[s] = trig[s]
    BY <1>4 DEF Delete, TypeOK, watch, IsOnce
  <2>2. HooksFireHooks'
    BY <1>1, <2>1 DEF HooksFireHooks, IsOnce
  <2>3. OnceByOnce'
    BY <1>1, <2>1 DEF OnceByOnce, Unbegun, Begun, AtWork, IsOnce
  <2> QED
    BY <1>1, <2>2, <2>3
<1> QED
  BY <1>2, <1>3, <1>4

(* A step of a fire touches one trigger, neither its kind nor the list. *)
LEMMA FireFrame ==
    ASSUME TypeOK, NEW p \in Tasks, Fire(p)
    PROVE  /\ task[p].trigger \in Triggers
           /\ due' = due /\ raced' = raced /\ cut \subseteq cut'
           /\ \A q \in Tasks \ {p} : task'[q] = task[q]
           /\ task'[p].trigger \in {task[p].trigger, None}
           /\ \A s \in Triggers : IsOnce(s)' => IsOnce(s)
           /\ \A s \in Triggers \ {task[p].trigger} : trig'[s] = trig[s] /\ started'[s] = started[s]
<1>1. PICK t \in Triggers : t = task[p].trigger
  BY DEF Fire, Refuse, Claim, Lock, Begin, RunReturns, StartFails, Settle, TypeOK, Option
<1>2. CASE Refuse(p) \/ StartFails(p)
  <2>1. task' = Over(p) /\ UNCHANGED <<trig, due, started, raced>> /\ cut \subseteq cut'
    BY <1>2 DEF Refuse, StartFails, watch
  <2> QED
    BY <1>1, <2>1, OverType DEF IsOnce
<1>3. CASE Claim(p)
  <2>1. PICK r \in Runs :
          /\ trig' = [trig EXCEPT ![t].last_run = r]
          /\ task' = [task EXCEPT ![p].pc = "lock", ![p].run = r]
    BY <1>1, <1>3 DEF Claim
  <2>2. trig[t] # None /\ UNCHANGED <<due, started, raced, cut>>
    BY <1>1, <1>3 DEF Claim, Ready
  <2>3. trig[t] \in TriggerRecord
    BY <1>1, <2>2 DEF TypeOK, Option
  <2>4. trig'[t] = [trig[t] EXCEPT !.last_run = r] /\ \A s \in Triggers \ {t} : trig'[s] = trig[s]
    BY <1>1, <2>1 DEF TypeOK
  <2>5. \A s \in Triggers : IsOnce(s)' => IsOnce(s)
    BY <2>2, <2>3, <2>4, TasksAssumption DEF IsOnce, TriggerRecord
  <2>6. task'[p].trigger = t /\ \A q \in Tasks \ {p} : task'[q] = task[q]
    BY <1>1, <2>1 DEF TypeOK
  <2> QED
    BY <1>1, <2>2, <2>4, <2>5, <2>6
<1>4. CASE Lock(p) \/ RunReturns(p)
  BY <1>1, <1>4 DEF Lock, RunReturns, TypeOK, IsOnce, watch
<1>5. CASE Begin(p)
  BY <1>1, <1>5 DEF Begin, TypeOK, IsOnce
<1>6. CASE Settle(p)
  <2>1. task' = Over(p) /\ UNCHANGED <<due, started, raced, cut>>
    BY <1>6 DEF Settle
  <2>2. \A s \in Triggers \ {t} : trig'[s] = trig[s]
    BY <1>1, <1>6 DEF Settle, TypeOK
  <2>3. trig[t] # None =>
          trig'[t] = [trig[t] EXCEPT !.last_fired = task[p].now,
                                     !.next_fire = After(trig[t].spec, task[p].now)]
    BY <1>1, <1>6 DEF Settle, TypeOK
  <2>4. trig[t] = None => trig'[t] = None
    BY <1>1, <1>6 DEF Settle
  <2>5. trig[t] # None => trig[t] \in TriggerRecord
    BY <1>1 DEF TypeOK, Option
  <2>6. IsOnce(t)' => IsOnce(t)
    BY <2>3, <2>4, <2>5 DEF IsOnce, TriggerRecord
  <2> QED
    BY <1>1, <2>1, <2>2, <2>6, OverType DEF IsOnce
<1> QED
  BY <1>2, <1>3, <1>4, <1>5, <1>6 DEF Fire

(* The scheduler's own fire of a one-shot *)
LEMMA OnceFired ==
    ASSUME TypeOK, Fire(Scheduler), NEW t \in Triggers, t = task[Scheduler].trigger,
           IsOnce(t), Unbegun(t) \/ Begun(t), t \notin cut', t \notin due
    PROVE  (Unbegun(t) \/ Begun(t))'
<1>1. Scheduler \in Tasks /\ due' = due /\ AtWork(t)
  BY FireFrame DEF AtWork, Tasks
<1>2. CASE Refuse(Scheduler)
  <2>1. started'[t] = 0 /\ ~AtWork(t)'
    BY <1>1, <1>2, OverType, TasksAssumption DEF Refuse, Unbegun, Begun, AtWork, watch
  <2> QED
    BY <2>1 DEF Unbegun
<1>3. CASE Claim(Scheduler)
  BY <1>1, <1>3 DEF Claim, Unbegun, Begun, AtWork, TypeOK
<1>4. CASE Lock(Scheduler)
  BY <1>1, <1>4 DEF Lock, Unbegun, Begun, AtWork, TypeOK, watch
<1>5. CASE Begin(Scheduler)
  <2>1. started'[t] = 1 /\ task'[Scheduler].pc = "run" /\ AtWork(t)'
    BY <1>1, <1>5 DEF Begin, Unbegun, Begun, AtWork, TypeOK
  <2> QED
    BY <1>1, <2>1 DEF Begun
<1>6. CASE RunReturns(Scheduler)
  BY <1>1, <1>6 DEF RunReturns, Unbegun, Begun, AtWork, TypeOK, watch
<1>7. CASE StartFails(Scheduler)
  BY <1>7 DEF StartFails
<1>8. CASE Settle(Scheduler)
  <2>1. started'[t] = 1 /\ t \notin due'
    BY <1>1, <1>8 DEF Settle, Unbegun, Begun
  <2>2. ~AtWork(t)'
    BY <1>1, <1>8, OverType, TasksAssumption DEF Settle, AtWork
  <2>3. trig[t] # None /\ trig[t] \in TriggerRecord /\ trig[t].spec.kind = "once"
    BY DEF IsOnce, TypeOK, Option
  <2>4. trig'[t] = [trig[t] EXCEPT !.last_fired = task[Scheduler].now, !.next_fire = None]
    BY <1>8, <2>3 DEF Settle, TypeOK, After
  <2>5. trig'[t].next_fire = None
    BY <2>3, <2>4 DEF TriggerRecord
  <2> QED
    BY <2>1, <2>2, <2>5 DEF Begun
<1> QED
  BY <1>2, <1>3, <1>4, <1>5, <1>6, <1>7, <1>8 DEF Fire

(* and so does a firing. *)
LEMMA OnceFire ==
    ASSUME OnceInv, NEW p \in Tasks, Fire(p)
    PROVE  HooksFireHooks' /\ WorkIsOffTheList' /\ OnceByOnce'
<1> USE DEF OnceInv, NotLostInv
<1> DEFINE t == task[p].trigger
<1>1. /\ t \in Triggers
      /\ due' = due /\ raced' = raced /\ cut \subseteq cut'
      /\ \A q \in Tasks \ {p} : task'[q] = task[q]
      /\ task'[p].trigger \in {t, None}
      /\ \A s \in Triggers : IsOnce(s)' => IsOnce(s)
      /\ \A s \in Triggers \ {t} : trig'[s] = trig[s] /\ started'[s] = started[s]
  BY FireFrame
<1>2. due \subseteq Triggers /\ Scheduler \in Tasks /\ Hooks \subseteq Tasks
  BY DEF TypeOK, Tasks
<1>3. HooksFireHooks'
  <2> SUFFICES ASSUME NEW q \in Hooks, NEW s \in Triggers, s \notin raced', task'[q].trigger = s
               PROVE ~IsOnce(s)'
    BY DEF HooksFireHooks
  <2>1. task[q].trigger = s
    BY <1>1, <1>2, TasksAssumption
  <2> QED
    BY <1>1, <2>1 DEF HooksFireHooks
<1>4. WorkIsOffTheList'
  BY <1>1, <1>2, TasksAssumption DEF WorkIsOffTheList
<1>5. ASSUME NEW s \in Triggers, s \notin cut', s \notin raced', IsOnce(s)'
      PROVE  (Unbegun(s) \/ Begun(s))'
  <2>1. IsOnce(s) /\ (Unbegun(s) \/ Begun(s))
    BY <1>1, <1>5 DEF OnceByOnce
  <2>2. CASE s # t
    <3>1. AtWork(s)' <=> AtWork(s)
      BY <1>1, <1>2, <2>2, TasksAssumption DEF AtWork
    <3>2. AtWork(s) => task'[Scheduler] = task[Scheduler]
      BY <1>1, <1>2, <2>2 DEF AtWork
    <3> QED
      BY <1>1, <2>1, <2>2, <3>1, <3>2 DEF Unbegun, Begun
  <2>3. CASE s = t /\ p \in Hooks
    BY <1>1, <1>5, <2>1, <2>3 DEF HooksFireHooks
  <2>4. CASE s = t /\ p = Scheduler
    BY <1>5, <2>1, <2>4, OnceFired DEF WorkIsOffTheList
  <2> QED
    BY <2>2, <2>3, <2>4 DEF Tasks
<1> QED
  BY <1>3, <1>4, <1>5 DEF OnceByOnce

(* Whatever fails around it and whatever the clock does, a one-shot starts at
   most one run, unless a fire of it was cut short or it was edited while it
   was being fired. *)
THEOREM OneShotsStartOnce == Spec => []OnceStartsOnce
<1>1. Init => OnceInv
  <2> SUFFICES ASSUME Init PROVE OnceInv
    OBVIOUS
  <2>1. NotLostInv
    BY InitType DEF Init, NotLostInv, BegunIsCounted, OnceIsNotLost, Idle, Tasks
  <2>2. HooksFireHooks /\ WorkIsOffTheList /\ OnceByOnce
    BY DEF Init, HooksFireHooks, WorkIsOffTheList, OnceByOnce, IsOnce
  <2> QED
    BY <2>1, <2>2 DEF OnceInv
<1>2. OnceInv /\ [Next]_vars => OnceInv'
  <2> SUFFICES ASSUME OnceInv, [Next]_vars
               PROVE HooksFireHooks' /\ WorkIsOffTheList' /\ OnceByOnce'
    BY NotLostStep DEF OnceInv
  <2> USE DEF OnceInv, NotLostInv, HooksFireHooks, WorkIsOffTheList, OnceByOnce,
              IsOnce, Unbegun, Begun, AtWork
  <2>1. CASE \E t \in Triggers : Create(t) \/ Update(t) \/ Delete(t)
    BY <2>1, OnceCalls
  <2>2. CASE \E p \in Tasks : Fire(p)
    BY <2>2, OnceFire
  <2>3. CASE \E p \in Tasks : ReadClock(p)
    <3>1. PICK p \in Tasks : ReadClock(p)
      BY <2>3
    <3>2. /\ UNCHANGED <<trig, due, started, raced, cut>>
          /\ \A q \in Tasks : task'[q].trigger = task[q].trigger
          /\ task'[Scheduler].trigger # None => task'[Scheduler].pc = task[Scheduler].pc
      BY <3>1, TasksAssumption DEF ReadClock, TypeOK, watch, Tasks
    <3> QED
      BY <3>2, TasksAssumption DEF Tasks
  <2>4. CASE ListDue
    <3>1. /\ task[Scheduler].trigger = None /\ task'[Scheduler].trigger = None
          /\ \A q \in Hooks : task'[q] = task[q]
          /\ UNCHANGED <<trig, started, raced, cut>>
          /\ due' = {t \in Triggers : Due(t, task[Scheduler].now)}
      BY <2>4, TasksAssumption DEF ListDue, TypeOK, watch, Tasks
    <3> QED
      BY <3>1, TasksAssumption DEF Due
  <2>5. CASE NextDue
    <3>1. PICK t \in due : due' = due \ {t}
                           /\ task' = [task EXCEPT ![Scheduler].pc = "claim", ![Scheduler].trigger = t]
      BY <2>5 DEF NextDue
    <3>2. /\ task[Scheduler].trigger = None /\ task'[Scheduler].trigger = t
          /\ task'[Scheduler].pc = "claim"
          /\ \A q \in Hooks : task'[q] = task[q]
          /\ UNCHANGED <<trig, started, raced, cut>>
      BY <2>5, <3>1, TasksAssumption DEF NextDue, TypeOK, watch, Tasks
    <3>3. t \in Triggers /\ t \in due /\ t \notin due' /\ due' \subseteq due
      BY <3>1 DEF TypeOK
    <3>4. HooksFireHooks' /\ WorkIsOffTheList'
      BY <3>2, <3>3
    <3>5. \A s \in Triggers : AtWork(s)' <=> s = t
      BY <3>2
    <3>6. \A s \in Triggers : ~AtWork(s)
      BY <3>2, TasksAssumption
    <3> QED
      BY <3>2, <3>3, <3>4, <3>5, <3>6
  <2>6. CASE \E p \in Hooks : WebhookFire(p)
    <3>1. PICK p \in Hooks : WebhookFire(p)
      BY <2>6
    <3>2. PICK t \in Triggers :
            /\ trig[t] # None /\ trig[t].spec.kind = "webhook"
            /\ task' = [task EXCEPT ![p].pc = "clock", ![p].trigger = t]
      BY <3>1 DEF WebhookFire
    <3>3. /\ task'[p].trigger = t /\ \A q \in Tasks \ {p} : task'[q] = task[q]
          /\ UNCHANGED <<trig, due, started, raced, cut>>
      BY <3>1, <3>2 DEF WebhookFire, TypeOK, watch, Tasks
    <3>4. Scheduler \in Tasks \ {p} /\ task'[Scheduler] = task[Scheduler]
      BY <3>3, TasksAssumption DEF Tasks
    <3>5. HooksFireHooks'
      <4> SUFFICES ASSUME NEW q \in Hooks, NEW s \in Triggers, s \notin raced', task'[q].trigger = s
                   PROVE ~IsOnce(s)'
        OBVIOUS
      <4>1. CASE q = p
        BY <3>2, <3>3, <4>1
      <4>2. CASE q # p
        BY <3>3, <4>2 DEF Tasks
      <4> QED
        BY <4>1, <4>2
    <3> QED
      BY <3>3, <3>4, <3>5
  <2>7. CASE \E p \in Hooks : HookDropped(p)
    <3>1. PICK p \in Hooks : task' = Over(p) /\ UNCHANGED <<trig, due, started, raced>> /\ cut \subseteq cut'
      BY <2>7 DEF HookDropped
    <3>2. task'[p].trigger = None /\ \A q \in Tasks \ {p} : task'[q] = task[q]
      BY <3>1, OverType DEF Tasks
    <3> QED
      BY <3>1, <3>2, TasksAssumption DEF Tasks
  <2>8. CASE Crash
    <3>1. /\ UNCHANGED <<trig, started, raced>> /\ due' = {} /\ cut \subseteq cut'
          /\ \A q \in Tasks : task'[q].trigger = None
          /\ task[Scheduler].trigger # None => task[Scheduler].trigger \in cut'
      BY <2>8 DEF Crash, Idle, Tasks
    <3> QED
      BY <3>1, TasksAssumption DEF Tasks
  <2>9. CASE (\E r \in Runs : HumanEnds(r)) \/ ClockMoves \/ UNCHANGED vars
    BY <2>9 DEF HumanEnds, ClockMoves, vars, watch
  <2> QED
    BY <2>1, <2>2, <2>3, <2>4, <2>5, <2>6, <2>7, <2>8, <2>9 DEF Next, SchedulerStep, Tasks
<1>3. OnceInv => OnceStartsOnce
  BY DEF OnceInv, OnceByOnce, OnceStartsOnce, IsOnce, Unbegun, Begun
<1> QED
  BY <1>1, <1>2, <1>3, PTL DEF Spec

-----------------------------------------------------------------------------
(* Who fires what.  A trigger with a time is fired by the scheduler, one
   without by the requests to it, and a trigger changes sides only when its
   spec is set anew: while it is being fired, that makes it `raced`. *)
WebhooksHaveNoTime ==
    \A t \in Triggers :
        trig[t] # None /\ trig[t].spec.kind = "webhook" => trig[t].next_fire = None

Scheduled(t) == t \in due \/ AtWork(t)

Requested(t) == \E p \in Hooks : task[p].trigger = t

OneSideFires ==
    \A t \in Triggers \ raced :
        /\ ~(Scheduled(t) /\ Requested(t))
        /\ trig[t] # None => /\ Scheduled(t) => trig[t].spec.kind # "webhook"
                             /\ Requested(t) => trig[t].spec.kind = "webhook"

FirerInv == TypeOK /\ WorkIsOffTheList /\ WebhooksHaveNoTime /\ OneSideFires

(* A webhook has no next time. *)
LEMMA WebhookTime ==
    ASSUME NEW spec \in Specs, NEW from, spec.kind = "webhook"
    PROVE  NextFire(spec, from) = None /\ After(spec, from) = None
  BY DEF NextFire, After

(* What a firing does to the records: at most one changes, and of it the run
   it claims or, at its end, when it fired and when it fires next. *)
LEMMA FireRecords ==
    ASSUME TypeOK, NEW p \in Tasks, Fire(p), NEW s \in Triggers
    PROVE  /\ trig'[s] # None => trig[s] # None
           /\ trig[s] # None =>
                /\ trig'[s].spec = trig[s].spec
                /\ s # task[p].trigger \/ ~Claim(p) => trig'[s].last_run = trig[s].last_run
                /\ s # task[p].trigger \/ ~Settle(p) =>
                     /\ trig'[s].last_fired = trig[s].last_fired
                     /\ trig'[s].next_fire = trig[s].next_fire
                /\ s = task[p].trigger /\ Settle(p) =>
                     /\ trig'[s].last_fired = task[p].now
                     /\ trig'[s].next_fire = After(trig[s].spec, task[p].now)
<1>1. trig[s] # None => trig[s] \in TriggerRecord
  BY DEF TypeOK, Option
<1>2. CASE Refuse(p) \/ Lock(p) \/ Begin(p) \/ RunReturns(p) \/ StartFails(p)
  <2>1. trig' = trig /\ ~Claim(p) /\ ~Settle(p)
    BY <1>2 DEF Refuse, Lock, Begin, RunReturns, StartFails, Claim, Settle, watch
  <2> QED
    BY <2>1
<1>3. CASE Claim(p)
  <2>1. PICK r \in Runs : trig' = [trig EXCEPT ![task[p].trigger].last_run = r]
    BY <1>3 DEF Claim
  <2>2. trig[task[p].trigger] # None /\ ~Settle(p)
    BY <1>3 DEF Claim, Ready, Settle
  <2>3. s # task[p].trigger => trig'[s] = trig[s]
    BY <2>1 DEF TypeOK
  <2>4. s = task[p].trigger => trig'[s] = [trig[s] EXCEPT !.last_run = r]
    BY <2>1 DEF TypeOK
  <2> QED
    BY <1>1, <1>3, <2>2, <2>3, <2>4 DEF TriggerRecord
<1>4. CASE Settle(p)
  <2>1. ~Claim(p)
    BY <1>4 DEF Settle, Claim
  <2>2. s # task[p].trigger \/ trig[s] = None => trig'[s] = trig[s]
    BY <1>4 DEF Settle, TypeOK
  <2>3. s = task[p].trigger /\ trig[s] # None =>
          trig'[s] = [trig[s] EXCEPT !.last_fired = task[p].now,
                                     !.next_fire = After(trig[s].spec, task[p].now)]
    BY <1>4 DEF Settle, TypeOK
  <2> QED
    BY <1>1, <1>4, <2>1, <2>2, <2>3 DEF TriggerRecord
<1> QED
  BY <1>2, <1>3, <1>4 DEF Fire

(* An edit of a record sets its spec, and its next time with a new one. *)
LEMMA UpdateRecord ==
    ASSUME TypeOK, NEW t \in Triggers, Update(t)
    PROVE  /\ trig[t] # None /\ trig'[t] \in TriggerRecord
           /\ \A s \in Triggers \ {t} : trig'[s] = trig[s]
           /\ trig'[t].last_run = trig[t].last_run /\ trig'[t].last_fired = trig[t].last_fired
           /\ \/ /\ trig'[t].spec = trig[t].spec /\ trig'[t].next_fire = trig[t].next_fire
                 /\ UNCHANGED <<settled, raced>>
              \/ /\ trig'[t].next_fire = NextFire(trig'[t].spec, clock)
                 /\ settled' = settled \ {t}
                 /\ raced' = IF Firing(t) THEN raced \cup {t} ELSE raced
<1>1. PICK spec \in Specs, paused \in BOOLEAN :
        /\ trig' = [trig EXCEPT ![t].spec = spec, ![t].paused = paused,
                                ![t].next_fire = IF spec # trig[t].spec
                                                 THEN NextFire(spec, clock) ELSE @]
        /\ settled' = IF spec # trig[t].spec THEN settled \ {t} ELSE settled
        /\ raced' = IF spec # trig[t].spec /\ Firing(t) THEN raced \cup {t} ELSE raced
  BY DEF Update
<1>2. trig[t] # None /\ trig[t] \in TriggerRecord
  <2>1. trig[t] # None
    BY DEF Update
  <2> QED
    BY <2>1 DEF TypeOK, Option
<1>3. /\ trig'[t] = [trig[t] EXCEPT !.spec = spec, !.paused = paused,
                                   !.next_fire = IF spec # trig[t].spec
                                                 THEN NextFire(spec, clock) ELSE @]
      /\ \A s \in Triggers \ {t} : trig'[s] = trig[s]
  BY <1>1, <1>2 DEF TypeOK
<1>4. NextFire(spec, clock) \in Option(Nat)
  BY NextFireType, TimesAssumption DEF TypeOK
<1>5. CASE spec = trig[t].spec
  <2>1. trig'[t] = [trig[t] EXCEPT !.spec = spec, !.paused = paused]
    BY <1>2, <1>3, <1>5 DEF TriggerRecord
  <2>2. settled' = settled /\ raced' = raced
    BY <1>1, <1>5
  <2>3. trig'[t] \in TriggerRecord
    BY <1>2, <2>1 DEF TriggerRecord
  <2>4. /\ trig'[t].last_run = trig[t].last_run /\ trig'[t].last_fired = trig[t].last_fired
        /\ trig'[t].spec = trig[t].spec /\ trig'[t].next_fire = trig[t].next_fire
    BY <1>2, <1>5, <2>1 DEF TriggerRecord
  <2> QED
    BY <1>2, <1>3, <2>2, <2>3, <2>4
<1>6. CASE spec # trig[t].spec
  <2>1. trig'[t] = [trig[t] EXCEPT !.spec = spec, !.paused = paused,
                                  !.next_fire = NextFire(spec, clock)]
    BY <1>3, <1>6
  <2>2. settled' = settled \ {t} /\ raced' = IF Firing(t) THEN raced \cup {t} ELSE raced
    BY <1>1, <1>6
  <2>3. trig'[t] \in TriggerRecord
    BY <1>2, <1>4, <2>1 DEF TriggerRecord
  <2>4. /\ trig'[t].last_run = trig[t].last_run /\ trig'[t].last_fired = trig[t].last_fired
        /\ trig'[t].spec = spec /\ trig'[t].next_fire = NextFire(spec, clock)
    BY <1>2, <2>1 DEF TriggerRecord
  <2> QED
    BY <1>2, <1>3, <2>2, <2>3, <2>4
<1> QED
  BY <1>5, <1>6

(* A new record is of a trigger that nobody fires and no run is left of. *)
LEMMA CreateRecord ==
    ASSUME TypeOK, NEW t \in Triggers, Create(t)
    PROVE  /\ trig'[t].last_run = None /\ trig'[t].last_fired = None
           /\ trig'[t].next_fire = NextFire(trig'[t].spec, clock) /\ trig'[t].spec \in Specs
           /\ \A s \in Triggers \ {t} : trig'[s] = trig[s]
           /\ ~Firing(t) /\ \A r \in Runs : active[r] # t
           /\ settled' = settled \ {t} /\ raced' = raced \ {t}
<1>1. PICK spec \in Specs, paused \in BOOLEAN :
          trig' = [trig EXCEPT ![t] =
                     [spec |-> spec, paused |-> paused, next_fire |-> NextFire(spec, clock),
                      last_run |-> None, last_fired |-> None]]
  BY DEF Create
<1> QED
  BY <1>1 DEF Create, TypeOK

(* The calls leave each trigger to the side that fires it, *)
LEMMA SidesCalls ==
    ASSUME FirerInv, NEW t \in Triggers, Create(t) \/ Update(t) \/ Delete(t)
    PROVE  WorkIsOffTheList' /\ WebhooksHaveNoTime' /\ OneSideFires'
<1> USE DEF FirerInv
<1>1. UNCHANGED <<task, due>> /\ WorkIsOffTheList'
  BY DEF Create, Update, Delete, WorkIsOffTheList
<1>2. \A s \in Triggers : (Scheduled(s)' <=> Scheduled(s)) /\ (Requested(s)' <=> Requested(s))
  BY <1>1 DEF Scheduled, Requested, AtWork
<1>3. \A s \in Triggers : ~Firing(s) => ~Scheduled(s) /\ ~Requested(s)
  BY DEF Firing, Scheduled, Requested, AtWork, Tasks
<1>4. \A s \in Triggers : trig[s] # None => trig[s] \in TriggerRecord
  BY DEF TypeOK, Option
<1>5. CASE Create(t)
  <2>1. WebhooksHaveNoTime'
    BY <1>5, CreateRecord, WebhookTime DEF WebhooksHaveNoTime
  <2>2. OneSideFires'
    BY <1>2, <1>3, <1>5, CreateRecord DEF OneSideFires
  <2> QED
    BY <1>1, <2>1, <2>2
<1>6. CASE Update(t)
  <2>1. trig'[t].spec \in Specs
    BY <1>6, UpdateRecord DEF TriggerRecord
  <2>2. WebhooksHaveNoTime'
    BY <1>6, <2>1, UpdateRecord, WebhookTime DEF WebhooksHaveNoTime
  <2>3. OneSideFires'
    BY <1>2, <1>3, <1>6, UpdateRecord DEF OneSideFires
  <2> QED
    BY <1>1, <2>2, <2>3
<1>7. CASE Delete(t)
  <2>1. trig'[t] = None /\ (\A s \in Triggers \ {t} : trig'[s] = trig[s]) /\ raced' = raced
    BY <1>7 DEF Delete, TypeOK, watch
  <2> QED
    BY <1>1, <1>2, <2>1 DEF WebhooksHaveNoTime, OneSideFires
<1> QED
  BY <1>5, <1>6, <1>7

(* a firing does, *)
LEMMA SidesFire ==
    ASSUME FirerInv, NEW p \in Tasks, Fire(p)
    PROVE  WorkIsOffTheList' /\ WebhooksHaveNoTime' /\ OneSideFires'
<1> USE DEF FirerInv
<1>1. /\ due' = due /\ raced' = raced
      /\ \A q \in Tasks \ {p} : task'[q] = task[q]
      /\ task'[p].trigger \in {task[p].trigger, None}
      /\ task[p].trigger \in Triggers
  BY FireFrame
<1>2. due \subseteq Triggers /\ Scheduler \in Tasks /\ Hooks \subseteq Tasks
  BY DEF TypeOK, Tasks
<1>3. WorkIsOffTheList'
  BY <1>1, <1>2, TasksAssumption DEF WorkIsOffTheList
<1>4. \A s \in Triggers : (Scheduled(s)' => Scheduled(s)) /\ (Requested(s)' => Requested(s))
  BY <1>1, <1>2, TasksAssumption DEF Scheduled, Requested, AtWork
<1>5. \A s \in Triggers : trig[s] # None => trig[s].spec \in Specs
  BY DEF TypeOK, Option, TriggerRecord
<1>6. WebhooksHaveNoTime'
  BY <1>5, FireRecords, WebhookTime DEF WebhooksHaveNoTime
<1>7. OneSideFires'
  BY <1>1, <1>4, FireRecords DEF OneSideFires
<1> QED
  BY <1>3, <1>6, <1>7

(* and so does everything else. *)
LEMMA SidesStep == FirerInv /\ [Next]_vars => FirerInv'
<1> SUFFICES ASSUME FirerInv, [Next]_vars
             PROVE WorkIsOffTheList' /\ WebhooksHaveNoTime' /\ OneSideFires'
  BY NextType DEF FirerInv
<1> USE DEF FirerInv
<1>1. CASE \E t \in Triggers : Create(t) \/ Update(t) \/ Delete(t)
  BY <1>1, SidesCalls
<1>2. CASE \E p \in Tasks : Fire(p)
  BY <1>2, SidesFire
<1>3. CASE \E p \in Tasks : ReadClock(p)
  <2>1. PICK p \in Tasks : ReadClock(p)
    BY <1>3
  <2>2. UNCHANGED <<trig, due, raced>> /\ \A q \in Tasks : task'[q].trigger = task[q].trigger
    BY <2>1 DEF ReadClock, TypeOK, watch
  <2> QED
    BY <2>2 DEF WorkIsOffTheList, WebhooksHaveNoTime, OneSideFires, Scheduled, Requested, AtWork, Tasks
<1>4. CASE ListDue
  <2>1. /\ task[Scheduler].trigger = None /\ task'[Scheduler].trigger = None
        /\ \A q \in Hooks : task'[q] = task[q]
        /\ UNCHANGED <<trig, raced>>
        /\ due' = {t \in Triggers : Due(t, task[Scheduler].now)}
    BY <1>4, TasksAssumption DEF ListDue, TypeOK, watch, Tasks
  <2>2. \A t \in due' : trig[t] # None /\ trig[t].spec.kind # "webhook"
    BY <2>1 DEF Due, WebhooksHaveNoTime
  <2>3. \A t \in Triggers : (Scheduled(t)' <=> t \in due') /\ (Requested(t)' <=> Requested(t))
    BY <2>1, TasksAssumption DEF Scheduled, Requested, AtWork
  <2> QED
    BY <2>1, <2>2, <2>3, TasksAssumption DEF WorkIsOffTheList, WebhooksHaveNoTime, OneSideFires
<1>5. CASE NextDue
  <2>1. PICK t \in due : due' = due \ {t}
                         /\ task' = [task EXCEPT ![Scheduler].pc = "claim", ![Scheduler].trigger = t]
    BY <1>5 DEF NextDue
  <2>2. /\ task'[Scheduler].trigger = t
        /\ \A q \in Hooks : task'[q] = task[q]
        /\ UNCHANGED <<trig, raced>>
    BY <1>5, <2>1, TasksAssumption DEF NextDue, TypeOK, watch, Tasks
  <2>3. \A s \in Triggers : (Scheduled(s)' => Scheduled(s)) /\ (Requested(s)' <=> Requested(s))
    BY <2>1, <2>2 DEF Scheduled, Requested, AtWork
  <2> QED
    BY <2>1, <2>2, <2>3 DEF WorkIsOffTheList, WebhooksHaveNoTime, OneSideFires
<1>6. CASE \E p \in Hooks : WebhookFire(p)
  <2>1. PICK p \in Hooks, t \in Triggers :
          /\ trig[t] # None /\ trig[t].spec.kind = "webhook"
          /\ task' = [task EXCEPT ![p].pc = "clock", ![p].trigger = t]
          /\ UNCHANGED <<trig, due, raced>>
    BY <1>6 DEF WebhookFire, watch
  <2>2. /\ task'[p].trigger = t /\ \A q \in Tasks \ {p} : task'[q] = task[q]
        /\ Scheduler \in Tasks \ {p} /\ Hooks \subseteq Tasks
    BY <2>1, TasksAssumption DEF TypeOK, Tasks
  <2>3. \A s \in Triggers : /\ Scheduled(s)' <=> Scheduled(s)
                            /\ Requested(s)' => Requested(s) \/ s = t
    BY <2>1, <2>2 DEF Scheduled, Requested, AtWork
  <2>4. t \notin raced => ~Scheduled(t)
    BY <2>1 DEF OneSideFires
  <2>5. OneSideFires'
    BY <2>1, <2>3, <2>4 DEF OneSideFires
  <2>6. WorkIsOffTheList' /\ WebhooksHaveNoTime'
    <3>1. task'[Scheduler] = task[Scheduler] /\ due' = due /\ trig' = trig
      BY <2>1, <2>2
    <3> QED
      BY <3>1 DEF WorkIsOffTheList, WebhooksHaveNoTime
  <2> QED
    BY <2>5, <2>6
<1>7. CASE \E p \in Hooks : HookDropped(p)
  <2>1. PICK p \in Hooks : task' = Over(p) /\ UNCHANGED <<trig, due, raced>>
    BY <1>7 DEF HookDropped
  <2>2. task'[p].trigger = None /\ \A q \in Tasks \ {p} : task'[q] = task[q]
    BY <2>1, OverType DEF Tasks
  <2>3. Scheduler \in Tasks \ {p} /\ Hooks \subseteq Tasks
    BY TasksAssumption DEF Tasks
  <2>4. \A s \in Triggers : (Scheduled(s)' <=> Scheduled(s)) /\ (Requested(s)' => Requested(s))
    BY <2>1, <2>2, <2>3, TasksAssumption DEF Scheduled, Requested, AtWork
  <2> QED
    BY <2>1, <2>2, <2>3, <2>4 DEF WorkIsOffTheList, WebhooksHaveNoTime, OneSideFires
<1>8. CASE Crash
  <2>1. UNCHANGED <<trig, raced>> /\ due' = {} /\ \A q \in Tasks : task'[q].trigger = None
    BY <1>8 DEF Crash, Idle
  <2>2. \A s \in Triggers : ~Scheduled(s)' /\ ~Requested(s)'
    BY <2>1, TasksAssumption DEF Scheduled, Requested, AtWork, Tasks
  <2> QED
    BY <2>1, <2>2 DEF WorkIsOffTheList, WebhooksHaveNoTime, OneSideFires
<1>9. CASE (\E r \in Runs : HumanEnds(r)) \/ ClockMoves \/ UNCHANGED vars
  BY <1>9 DEF HumanEnds, ClockMoves, vars, watch, WorkIsOffTheList, WebhooksHaveNoTime,
              OneSideFires, Scheduled, Requested, AtWork
<1> QED
  BY <1>1, <1>2, <1>3, <1>4, <1>5, <1>6, <1>7, <1>8, <1>9 DEF Next, SchedulerStep, Tasks

(* It holds at the start. *)
LEMMA SidesInit == Init => FirerInv
  BY InitType, TasksAssumption
     DEF Init, FirerInv, WorkIsOffTheList, WebhooksHaveNoTime, OneSideFires, Scheduled,
         Requested, AtWork, Idle, Tasks

-----------------------------------------------------------------------------
(* Division rounds down by less than the divisor. *)
LEMMA Division ==
    ASSUME NEW a \in Nat, NEW b \in Nat \ {0}
    PROVE  (a \div b) * b \in Nat /\ (a \div b) * b > a - b /\ (a \div b) * b <= a
  OBVIOUS

(* A task's reading of the clock is a time. *)
LEMMA ReadingType ==
    ASSUME TypeOK, NEW p \in Tasks
    PROVE  task[p].now \in Nat
<1>1. task[p] \in [pc: {"idle", "clock", "list", "claim", "lock", "start", "run", "settle"},
                  trigger: Option(Triggers), run: Option(Runs), now: Times \cup {0}]
  BY DEF TypeOK
<1>2. task[p].now \in Times \/ task[p].now = 0
  BY <1>1
<1>3. Times \subseteq Nat /\ 0 \in Nat
  BY TimesAssumption
<1> QED
  BY <1>2, <1>3

(* The time after a fire is later than the reading it was fired at. *)
LEMMA AfterIsLater ==
    ASSUME NEW spec \in Specs, NEW now \in Nat, After(spec, now) # None
    PROVE  After(spec, now) \in Nat /\ After(spec, now) > now
<1>1. spec.arg \in Nat /\ spec.kind \in {"once", "interval", "calendar", "webhook"}
  BY SpecsAssumption DEF TriggerSpecs
<1>2. spec.kind \in {"interval", "calendar"}
  BY <1>1 DEF After
<1>3. spec.arg > 0
  BY <1>2, SpecsAssumption
<1>4. CASE spec.kind = "interval"
  BY <1>1, <1>3, <1>4 DEF After, NextFire
<1>5. CASE spec.kind = "calendar"
  <2> DEFINE b == spec.arg
             a == now + 1 + b - 1
  <2>1. a \in Nat /\ b \in Nat \ {0} /\ a = now + b
    BY <1>1, <1>3
  <2>2. (a \div b) * b \in Nat /\ (a \div b) * b > a - b
    <3> HIDE DEF a, b
    <3> QED BY <2>1, Division
  <2>3. After(spec, now) = (a \div b) * b
    BY <1>5 DEF After, NextFire
  <2>4. a - b = now
    BY <2>1
  <2> HIDE DEF a, b
  <2> QED BY <2>2, <2>3, <2>4
<1> QED
  BY <1>2, <1>4, <1>5

(* A trigger that was fired is planned for later than that, and what the
   scheduler has listed of it, it listed at a later reading. *)
InHand(t) == t \in due \/ (AtWork(t) /\ task[Scheduler].pc = "claim")

NextIsLater ==
    \A t \in settled \ raced :
        trig[t] # None /\ trig[t].last_fired # None =>
            /\ trig[t].next_fire # None => trig[t].next_fire > trig[t].last_fired
            /\ InHand(t) => task[Scheduler].now > trig[t].last_fired

AdvanceInv == FirerInv /\ NextIsLater

(* The calls keep that: a new spec has not been fired. *)
LEMMA LaterCalls ==
    ASSUME AdvanceInv, NEW t \in Triggers, Create(t) \/ Update(t) \/ Delete(t)
    PROVE  NextIsLater'
<1> USE DEF AdvanceInv, FirerInv
<1>1. UNCHANGED <<task, due>> /\ settled \subseteq Triggers
  BY DEF Create, Update, Delete, TypeOK
<1>2. \A s \in Triggers : InHand(s)' <=> InHand(s)
  BY <1>1 DEF InHand, AtWork
<1>3. CASE Create(t)
  BY <1>1, <1>2, <1>3, CreateRecord DEF NextIsLater
<1>4. CASE Update(t)
  BY <1>1, <1>2, <1>4, UpdateRecord DEF NextIsLater, Firing, InHand, AtWork, Tasks
<1>5. CASE Delete(t)
  <2>1. /\ trig'[t] = None /\ \A s \in Triggers \ {t} : trig'[s] = trig[s]
        /\ UNCHANGED <<settled, raced>>
    BY <1>5 DEF Delete, TypeOK, watch
  <2> QED
    BY <1>1, <1>2, <2>1 DEF NextIsLater
<1> QED
  BY <1>3, <1>4, <1>5

(* So does a firing: it settles at a reading before its next time, *)
LEMMA LaterFire ==
    ASSUME AdvanceInv, NEW p \in Tasks, Fire(p)
    PROVE  NextIsLater'
<1> USE DEF AdvanceInv, FirerInv
<1> DEFINE t == task[p].trigger
<1>1. /\ due' = due /\ raced' = raced /\ t \in Triggers
      /\ \A q \in Tasks \ {p} : task'[q] = task[q]
      /\ task'[p].trigger \in {t, None}
  BY FireFrame
<1>2. /\ due \subseteq Triggers /\ settled \subseteq Triggers
      /\ Scheduler \in Tasks /\ Hooks \subseteq Tasks /\ None \notin Triggers
  BY TasksAssumption DEF TypeOK, Tasks
<1>3. task'[p].pc # "claim" /\ (p = Scheduler => task'[p].now = task[p].now)
  <2>1. CASE Refuse(p) \/ StartFails(p) \/ Settle(p)
    BY <2>1 DEF Refuse, StartFails, Settle, Over, Idle, TypeOK
  <2>2. CASE Claim(p)
    BY <2>2 DEF Claim, TypeOK
  <2>3. CASE Lock(p) \/ Begin(p) \/ RunReturns(p)
    BY <2>3 DEF Lock, Begin, RunReturns, TypeOK
  <2> QED BY <2>1, <2>2, <2>3 DEF Fire
<1>4. task'[Scheduler].now = task[Scheduler].now
  BY <1>1, <1>2, <1>3
<1>5. \A s \in Triggers : InHand(s)' => InHand(s)
  BY <1>1, <1>2, <1>3 DEF InHand, AtWork
<1>6. settled' = IF Settle(p) THEN settled \cup {t} ELSE settled
  BY DEF Fire, Refuse, Claim, Lock, Begin, RunReturns, StartFails, Settle, watch
<1> SUFFICES ASSUME NEW s \in settled' \ raced', trig'[s] # None, trig'[s].last_fired # None
             PROVE  /\ trig'[s].next_fire # None => trig'[s].next_fire > trig'[s].last_fired
                    /\ InHand(s)' => task'[Scheduler].now > trig'[s].last_fired
  BY DEF NextIsLater
<1>7. s \in Triggers /\ trig[s] # None
  BY <1>1, <1>2, <1>6, FireRecords
<1>8. CASE s # t \/ ~Settle(p)
  <2>1. s \in settled \ raced
    BY <1>1, <1>6, <1>8
  <2>2. trig'[s].last_fired = trig[s].last_fired /\ trig'[s].next_fire = trig[s].next_fire
    BY <1>7, <1>8, FireRecords
  <2> QED
    BY <1>4, <1>5, <1>7, <2>1, <2>2 DEF NextIsLater
<1>9. CASE s = t /\ Settle(p)
  <2>1. trig'[s].last_fired = task[p].now /\ trig'[s].next_fire = After(trig[s].spec, task[p].now)
    BY <1>7, <1>9, FireRecords
  <2>2. trig[s].spec \in Specs /\ task[p].now \in Nat
    <3>1. trig[s] \in TriggerRecord
      BY <1>7 DEF TypeOK, Option
    <3> QED
      BY <3>1, ReadingType DEF TriggerRecord
  <2>3. trig'[s].next_fire # None => trig'[s].next_fire > trig'[s].last_fired
    BY <2>1, <2>2, AfterIsLater
  <2>4. CASE p = Scheduler
    <3>1. task'[Scheduler].trigger = None /\ s \notin due
      BY <1>9, <2>4, OverType DEF Settle, WorkIsOffTheList
    <3> QED
      BY <1>1, <1>2, <1>7, <2>3, <3>1 DEF InHand, AtWork
  <2>5. CASE p \in Hooks
    <3>1. Requested(s) /\ ~Scheduled(s)
      BY <1>1, <1>7, <1>9, <2>5 DEF Requested, OneSideFires
    <3> QED
      BY <1>5, <1>7, <2>3, <3>1 DEF Scheduled, InHand
  <2> QED
    BY <2>4, <2>5 DEF Tasks
<1> QED
  BY <1>8, <1>9

(* and the scheduler lists what is due: what is planned by its reading. *)
LEMMA LaterStep == AdvanceInv /\ [Next]_vars => AdvanceInv'
<1> SUFFICES ASSUME AdvanceInv, [Next]_vars PROVE NextIsLater'
  BY SidesStep DEF AdvanceInv
<1> USE DEF AdvanceInv, FirerInv
<1>0. settled \subseteq Triggers /\ due \subseteq Triggers /\ None \notin Triggers
  BY TasksAssumption DEF TypeOK
<1>1. CASE \E t \in Triggers : Create(t) \/ Update(t) \/ Delete(t)
  BY <1>1, LaterCalls
<1>2. CASE \E p \in Tasks : Fire(p)
  BY <1>2, LaterFire
<1>3. CASE \E p \in Tasks : ReadClock(p)
  <2>1. PICK p \in Tasks : ReadClock(p)
    BY <1>3
  <2>2. UNCHANGED <<trig, due, settled, raced>>
    BY <2>1 DEF ReadClock, watch
  <2>3. CASE p = Scheduler
    <3>1. due = {} /\ task'[Scheduler].trigger = None
      BY <2>1, <2>3, TasksAssumption DEF ReadClock, TypeOK
    <3> QED
      BY <1>0, <2>2, <3>1 DEF NextIsLater, InHand, AtWork
  <2>4. CASE p # Scheduler
    <3>1. task'[Scheduler] = task[Scheduler]
      BY <2>1, <2>4 DEF ReadClock, TypeOK, Tasks
    <3> QED
      BY <2>2, <3>1 DEF NextIsLater, InHand, AtWork
  <2> QED
    BY <2>3, <2>4
<1>4. CASE ListDue
  <2>1. /\ task'[Scheduler].trigger = None /\ task'[Scheduler].now = task[Scheduler].now
        /\ UNCHANGED <<trig, settled, raced>>
        /\ due' = {t \in Triggers : Due(t, task[Scheduler].now)}
    BY <1>4 DEF ListDue, TypeOK, watch, Tasks
  <2>2. \A t \in Triggers : InHand(t)' => trig[t].next_fire # None
                                          /\ trig[t].next_fire <= task[Scheduler].now
    BY <1>0, <2>1 DEF InHand, AtWork, Due
  <2>3. task[Scheduler].now \in Nat
    BY ReadingType DEF Tasks
  <2>4. \A t \in Triggers : trig[t] # None =>
          trig[t].next_fire \in Option(Nat) /\ trig[t].last_fired \in Option(Nat)
    BY DEF TypeOK, Option, TriggerRecord
  <2> SUFFICES ASSUME NEW t \in settled \ raced, trig[t] # None, trig[t].last_fired # None
               PROVE  /\ trig[t].next_fire # None => trig[t].next_fire > trig[t].last_fired
                      /\ InHand(t)' => task[Scheduler].now > trig[t].last_fired
    BY <2>1 DEF NextIsLater
  <2>5. trig[t].next_fire # None => trig[t].next_fire > trig[t].last_fired
    BY DEF NextIsLater
  <2>6. ASSUME InHand(t)' PROVE task[Scheduler].now > trig[t].last_fired
    <3>1. /\ trig[t].next_fire \in Nat /\ trig[t].last_fired \in Nat
          /\ trig[t].next_fire <= task[Scheduler].now /\ trig[t].next_fire > trig[t].last_fired
      BY <1>0, <2>2, <2>4, <2>5, <2>6 DEF Option
    <3> QED
      BY <2>3, <3>1
  <2> QED
    BY <2>5, <2>6
<1>5. CASE NextDue
  <2>1. PICK t \in due : due' = due \ {t}
                         /\ task' = [task EXCEPT ![Scheduler].pc = "claim", ![Scheduler].trigger = t]
    BY <1>5 DEF NextDue
  <2>2. /\ task'[Scheduler].trigger = t /\ task'[Scheduler].now = task[Scheduler].now
        /\ UNCHANGED <<trig, settled, raced>>
    BY <1>5, <2>1 DEF NextDue, TypeOK, watch, Tasks
  <2>3. \A s \in Triggers : InHand(s)' => InHand(s)
    BY <2>1, <2>2 DEF InHand, AtWork
  <2> QED
    BY <1>0, <2>2, <2>3 DEF NextIsLater
<1>6. CASE \E p \in Hooks : WebhookFire(p) \/ HookDropped(p)
  <2>1. PICK p \in Hooks : WebhookFire(p) \/ HookDropped(p)
    BY <1>6
  <2>2. Scheduler # p /\ Scheduler \in Tasks /\ p \in Tasks
    BY TasksAssumption DEF Tasks
  <2>3. task'[Scheduler] = task[Scheduler] /\ UNCHANGED <<trig, due, settled, raced>>
    BY <2>1, <2>2, OverType DEF WebhookFire, HookDropped, TypeOK, watch
  <2> QED
    BY <2>3 DEF NextIsLater, InHand, AtWork
<1>7. CASE Crash
  <2>1. UNCHANGED <<trig, settled, raced>> /\ due' = {} /\ task'[Scheduler].trigger = None
    BY <1>7 DEF Crash, Idle, Tasks
  <2> QED
    BY <1>0, <2>1 DEF NextIsLater, InHand, AtWork
<1>8. CASE (\E r \in Runs : HumanEnds(r)) \/ ClockMoves \/ UNCHANGED vars
  BY <1>8 DEF HumanEnds, ClockMoves, vars, watch, NextIsLater, InHand, AtWork
<1> QED
  BY <1>1, <1>2, <1>3, <1>4, <1>5, <1>6, <1>7, <1>8 DEF Next, SchedulerStep, Tasks

(* The scheduler moves on from a claim to the runtime's mutex only by claiming,
   and only a record that is there. *)
LEMMA ClaimIsOfARecord ==
    ASSUME TypeOK, Next, task[Scheduler].pc = "claim", task'[Scheduler].pc = "lock"
    PROVE  trig[task[Scheduler].trigger] # None
<1>1. Scheduler \in Tasks
  BY DEF Tasks
<1>2. CASE Fire(Scheduler)
  <2>1. Refuse(Scheduler) \/ Claim(Scheduler)
    BY <1>2 DEF Fire, Lock, Begin, RunReturns, StartFails, Settle
  <2>2. ~Refuse(Scheduler)
    BY <1>1, OverType DEF Refuse
  <2> QED
    BY <2>1, <2>2 DEF Claim, Ready
<1>3. CASE \E p \in Hooks : Fire(p)
  BY <1>1, <1>3, FireFrame, TasksAssumption DEF Tasks
<1>4. CASE \E p \in Hooks : WebhookFire(p) \/ ReadClock(p) \/ HookDropped(p)
  <2>1. PICK p \in Hooks : WebhookFire(p) \/ ReadClock(p) \/ HookDropped(p)
    BY <1>4
  <2>2. p # Scheduler /\ p \in Tasks
    BY TasksAssumption DEF Tasks
  <2>3. task'[Scheduler] = task[Scheduler]
    BY <1>1, <2>1, <2>2, OverType DEF WebhookFire, ReadClock, HookDropped, TypeOK
  <2> QED
    BY <2>3
<1>5. CASE ReadClock(Scheduler) \/ ListDue \/ NextDue
  BY <1>5, TasksAssumption DEF ReadClock, ListDue, NextDue
<1>6. CASE Crash
  BY <1>1, <1>6 DEF Crash, Idle
<1>7. CASE \/ \E t \in Triggers : Create(t) \/ Update(t) \/ Delete(t)
           \/ \E r \in Runs : HumanEnds(r)
           \/ ClockMoves
  BY <1>7 DEF Create, Update, Delete, HumanEnds, ClockMoves
<1> QED
  BY <1>2, <1>3, <1>4, <1>5, <1>6, <1>7 DEF Next, SchedulerStep

(* Whatever crashes or fails, however the clock jumps, and with any number of
   webhook requests under way: once a fire of a trigger is settled, the
   scheduler fires it again only at a later reading of the clock.  (Not one
   that was given another spec while it was being fired.) *)
THEOREM DueTimesAreFiredOnce == Spec => FiresAdvance
<1>1. Init => AdvanceInv
  BY SidesInit DEF Init, AdvanceInv, NextIsLater
<1>2. AdvanceInv /\ [Next]_vars => AdvanceInv'
  BY LaterStep
<1> DEFINE Advances ==
      \A t \in settled \ raced :
          task[Scheduler].pc = "claim" /\ task'[Scheduler].pc = "lock"
            /\ task[Scheduler].trigger = t /\ trig[t].last_fired # None
          => task[Scheduler].now > trig[t].last_fired
<1>3. AdvanceInv /\ [Next]_vars => [Advances]_vars
  <2> SUFFICES ASSUME AdvanceInv, Next, NEW t \in settled \ raced,
                      task[Scheduler].pc = "claim", task'[Scheduler].pc = "lock",
                      task[Scheduler].trigger = t, trig[t].last_fired # None
               PROVE  task[Scheduler].now > trig[t].last_fired
    OBVIOUS
  <2>1. trig[t] # None
    BY ClaimIsOfARecord DEF AdvanceInv, FirerInv
  <2> QED
    BY <2>1 DEF AdvanceInv, NextIsLater, InHand, AtWork
<1> QED
  BY <1>1, <1>2, <1>3, PTL DEF Spec, FiresAdvance

-----------------------------------------------------------------------------
(* Why runs of one trigger do not overlap.  A run is in play from the moment
   it is recorded, before it has an event, until it has ended, or its start
   was given up: there is at most one, and the record names it.  With several
   requests to one webhook at a time that is false (finding_overlap). *)
OneRequest == \A h1, h2 \in Hooks : h1 = h2

InPlay(t, r) ==
    \/ active[r] = t
    \/ \E p \in Tasks : /\ task[p].trigger = t /\ task[p].run = r
                        /\ task[p].pc \in {"lock", "start", "run"}

HasRun == \A p \in Tasks : task[p].pc \in {"lock", "start", "run"} => task[p].run \in Runs

RecordKnows ==
    \A t \in Triggers \ raced, r \in Runs :
        trig[t] # None /\ InPlay(t, r) => trig[t].last_run = r

OneInPlay ==
    \A t \in Triggers \ raced, r, s \in Runs : InPlay(t, r) /\ InPlay(t, s) => r = s

OverlapInv == FirerInv /\ HasRun /\ RecordKnows /\ OneInPlay

(* One task at a time fires a trigger. *)
LEMMA OneFirer ==
    ASSUME OneRequest, FirerInv, NEW p \in Tasks, NEW q \in Tasks, NEW t \in Triggers \ raced,
           task[p].trigger = t, task[q].trigger = t
    PROVE  p = q
  BY DEF OneRequest, FirerInv, OneSideFires, Scheduled, Requested, AtWork, Tasks

(* What is in play only shrinks, and records and races stay as they are. *)
LEMMA PlayShrinks ==
    ASSUME RecordKnows, OneInPlay, raced \subseteq raced',
           \A t \in Triggers, r \in Runs : InPlay(t, r)' => InPlay(t, r),
           \A t \in Triggers : trig'[t] # None =>
              trig[t] # None /\ trig'[t].last_run = trig[t].last_run
    PROVE  RecordKnows' /\ OneInPlay'
  BY DEF RecordKnows, OneInPlay

(* The calls put nothing in play, and forget no run that is. *)
LEMMA PlayCalls ==
    ASSUME OverlapInv, NEW t \in Triggers, Create(t) \/ Update(t) \/ Delete(t)
    PROVE  HasRun' /\ RecordKnows' /\ OneInPlay'
<1> USE DEF OverlapInv, FirerInv
<1>1. UNCHANGED <<task, active>>
  BY DEF Create, Update, Delete
<1>2. HasRun' /\ \A s \in Triggers, r \in Runs : InPlay(s, r)' <=> InPlay(s, r)
  BY <1>1 DEF HasRun, InPlay
<1>3. CASE Create(t)
  <2>1. \A r \in Runs : ~InPlay(t, r)
    BY <1>3, CreateRecord DEF InPlay, Firing
  <2> QED
    BY <1>2, <1>3, <2>1, CreateRecord DEF RecordKnows, OneInPlay
<1>4. CASE Update(t)
  <2>1. /\ raced \subseteq raced'
        /\ \A s \in Triggers : trig'[s] # None =>
              trig[s] # None /\ trig'[s].last_run = trig[s].last_run
    BY <1>4, UpdateRecord
  <2> QED
    BY <1>2, <2>1, PlayShrinks
<1>5. CASE Delete(t)
  <2>1. /\ raced = raced' /\ trig'[t] = None
        /\ \A s \in Triggers \ {t} : trig'[s] = trig[s]
    BY <1>5 DEF Delete, TypeOK, watch
  <2> QED
    BY <1>2, <2>1, PlayShrinks
<1> QED
  BY <1>3, <1>4, <1>5

(* A claim puts a run in play where there is none, and records it. *)
LEMMA PlayClaim ==
    ASSUME OneRequest, OverlapInv, NEW p \in Tasks, Claim(p)
    PROVE  HasRun' /\ RecordKnows' /\ OneInPlay'
<1> USE DEF OverlapInv, FirerInv
<1>0. PICK t \in Triggers : t = task[p].trigger
  BY DEF Claim, TypeOK, Option
<1>1. PICK r \in Runs :
        /\ trig' = [trig EXCEPT ![t].last_run = r]
        /\ task' = [task EXCEPT ![p].pc = "lock", ![p].run = r]
  BY <1>0 DEF Claim
<1>2. /\ trig[t] # None /\ ~Busy(t) /\ UNCHANGED <<active, raced>>
      /\ task[p].pc = "claim"
  BY <1>0 DEF Claim, Ready
<1>3. trig[t] \in TriggerRecord
  BY <1>2 DEF TypeOK, Option
<1>4. /\ task'[p].trigger = t /\ task'[p].run = r /\ task'[p].pc = "lock"
      /\ \A q \in Tasks \ {p} : task'[q] = task[q]
  BY <1>0, <1>1 DEF TypeOK
<1>5. trig'[t].last_run = r /\ \A s \in Triggers \ {t} : trig'[s] = trig[s]
  <2>1. trig'[t] = [trig[t] EXCEPT !.last_run = r] /\ \A s \in Triggers \ {t} : trig'[s] = trig[s]
    BY <1>1, <1>2 DEF TypeOK
  <2> QED
    BY <1>3, <2>1 DEF TriggerRecord
<1>6. t \notin raced => \A u \in Runs : ~InPlay(t, u)
  <2> SUFFICES ASSUME t \notin raced, NEW u \in Runs, InPlay(t, u) PROVE FALSE
    OBVIOUS
  <2>1. trig[t].last_run = u
    BY <1>2 DEF RecordKnows
  <2>2. CASE active[u] = t
    BY <1>2, <2>1, <2>2, TasksAssumption DEF Busy, Active, TypeOK, Option
  <2>3. CASE \E q \in Tasks : task[q].trigger = t /\ task[q].pc \in {"lock", "start", "run"}
    BY <1>0, <1>2, <2>3, OneFirer
  <2> QED
    BY <2>2, <2>3 DEF InPlay
<1>7. \A u \in Runs : InPlay(t, u)' => InPlay(t, u) \/ u = r
  BY <1>2, <1>4 DEF InPlay
<1>8. \A s \in Triggers \ {t}, u \in Runs : InPlay(s, u)' => InPlay(s, u)
  BY <1>2, <1>4 DEF InPlay
<1>9. HasRun'
  BY <1>4 DEF HasRun
<1>10. RecordKnows'
  <2> SUFFICES ASSUME NEW s \in Triggers \ raced, NEW u \in Runs, trig'[s] # None, InPlay(s, u)'
               PROVE  trig'[s].last_run = u
    BY <1>2 DEF RecordKnows
  <2>1. CASE s = t
    BY <1>5, <1>6, <1>7, <2>1
  <2>2. CASE s # t
    BY <1>5, <1>8, <2>2 DEF RecordKnows
  <2> QED
    BY <2>1, <2>2
<1>11. OneInPlay'
  <2> SUFFICES ASSUME NEW s \in Triggers \ raced, NEW u \in Runs, NEW v \in Runs,
                      InPlay(s, u)', InPlay(s, v)'
               PROVE  u = v
    BY <1>2 DEF OneInPlay
  <2>1. CASE s = t
    BY <1>6, <1>7, <2>1
  <2>2. CASE s # t
    BY <1>8, <2>2 DEF OneInPlay
  <2> QED
    BY <2>1, <2>2
<1> QED
  BY <1>9, <1>10, <1>11

(* A firing puts in play nothing but that. *)
LEMMA PlayFire ==
    ASSUME OneRequest, OverlapInv, NEW p \in Tasks, Fire(p)
    PROVE  HasRun' /\ RecordKnows' /\ OneInPlay'
<1> USE DEF OverlapInv, FirerInv
<1> DEFINE t == task[p].trigger
<1>0. t \in Triggers /\ raced' = raced /\ \A q \in Tasks \ {p} : task'[q] = task[q]
  BY FireFrame
<1>1. CASE Claim(p)
  BY <1>1, PlayClaim
<1> SUFFICES ASSUME ~Claim(p),
                    HasRun' /\ \A s \in Triggers, r \in Runs : InPlay(s, r)' => InPlay(s, r)
             PROVE  RecordKnows' /\ OneInPlay'
  <2>1. CASE Refuse(p) \/ Settle(p)
    <3>1. active' = active /\ task'[p].pc = "idle"
      BY <2>1, OverType DEF Refuse, Settle, watch
    <3> QED
      BY <1>0, <1>1, <3>1 DEF HasRun, InPlay
  <2>2. CASE Lock(p)
    <3>1. /\ active' = active /\ task[p].pc = "lock"
          /\ task'[p].run = task[p].run /\ task'[p].trigger = t
      BY <2>2 DEF Lock, TypeOK, watch
    <3> QED
      BY <1>0, <1>1, <3>1 DEF HasRun, InPlay
  <2>3. CASE Begin(p)
    <3>1. /\ task[p].pc = "start" /\ task'[p].run = task[p].run /\ task'[p].trigger = t
          /\ \A r \in Runs : active'[r] = IF r = task[p].run THEN t ELSE active[r]
      BY <2>3 DEF Begin, TypeOK
    <3> QED
      BY <1>0, <1>1, <3>1 DEF HasRun, InPlay
  <2>4. CASE RunReturns(p)
    <3>1. PICK left \in {None, t} : active' = [active EXCEPT ![task[p].run] = left]
      BY <2>4 DEF RunReturns
    <3>2. /\ task[p].pc = "run" /\ task'[p].pc = "settle"
          /\ \A r \in Runs : active'[r] = IF r = task[p].run THEN left ELSE active[r]
      BY <2>4, <3>1 DEF RunReturns, TypeOK
    <3>3. \A s \in Triggers, r \in Runs : InPlay(s, r)' => InPlay(s, r)
      BY <1>0, <3>2, TasksAssumption DEF InPlay
    <3> QED
      BY <1>0, <1>1, <3>2, <3>3 DEF HasRun
  <2>5. CASE StartFails(p)
    <3>1. PICK left \in {None, active[task[p].run]} : active' = [active EXCEPT ![task[p].run] = left]
      BY <2>5 DEF StartFails
    <3>2. /\ task'[p].pc = "idle"
          /\ \A r \in Runs : active'[r] \in {active[r], None}
      BY <2>5, <3>1, OverType DEF StartFails, TypeOK
    <3>3. \A s \in Triggers, r \in Runs : InPlay(s, r)' => InPlay(s, r)
      BY <1>0, <3>2, TasksAssumption DEF InPlay
    <3> QED
      BY <1>0, <1>1, <3>2, <3>3 DEF HasRun
  <2> QED
    BY <1>1, <2>1, <2>2, <2>3, <2>4, <2>5 DEF Fire
<1>2. \A s \in Triggers : trig'[s] # None => trig[s] # None /\ trig'[s].last_run = trig[s].last_run
  BY FireRecords
<1> QED
  BY <1>0, <1>2, PlayShrinks

(* Nor does anything else. *)
LEMMA PlayStep == OneRequest /\ OverlapInv /\ [Next]_vars => OverlapInv'
<1> SUFFICES ASSUME OneRequest, OverlapInv, [Next]_vars
             PROVE HasRun' /\ RecordKnows' /\ OneInPlay'
  BY SidesStep DEF OverlapInv
<1> USE DEF OverlapInv, FirerInv
<1>1. CASE \E t \in Triggers : Create(t) \/ Update(t) \/ Delete(t)
  BY <1>1, PlayCalls
<1>2. CASE \E p \in Tasks : Fire(p)
  BY <1>2, PlayFire
<1>3. ASSUME UNCHANGED <<trig, raced>>,
             \A r \in Runs : active'[r] \in {active[r], None},
             \A q \in Tasks : \/ task'[q].pc \notin {"lock", "start", "run"}
                              \/ task'[q] = task[q]
      PROVE  HasRun' /\ RecordKnows' /\ OneInPlay'
  <2>1. HasRun'
    BY <1>3 DEF HasRun
  <2>2. \A t \in Triggers, r \in Runs : InPlay(t, r)' => InPlay(t, r)
    BY <1>3, TasksAssumption DEF InPlay
  <2> QED
    BY <1>3, <2>1, <2>2, PlayShrinks
<1>4. CASE \E p \in Tasks : ReadClock(p)
  <2>1. PICK p \in Tasks : ReadClock(p)
    BY <1>4
  <2>2. UNCHANGED <<trig, raced, active>>
        /\ task'[p].pc \notin {"lock", "start", "run"}
        /\ \A q \in Tasks \ {p} : task'[q] = task[q]
    BY <2>1 DEF ReadClock, TypeOK, watch
  <2> QED
    BY <1>3, <2>2
<1>5. CASE ListDue \/ NextDue
  <2>1. UNCHANGED <<trig, raced, active>>
        /\ task'[Scheduler].pc \notin {"lock", "start", "run"}
        /\ \A q \in Tasks \ {Scheduler} : task'[q] = task[q]
    BY <1>5 DEF ListDue, NextDue, TypeOK, watch, Tasks
  <2> QED
    BY <1>3, <2>1
<1>6. CASE \E p \in Hooks : WebhookFire(p)
  <2>1. PICK p \in Hooks : WebhookFire(p)
    BY <1>6
  <2>2. UNCHANGED <<trig, raced, active>>
        /\ task'[p].pc \notin {"lock", "start", "run"}
        /\ \A q \in Tasks \ {p} : task'[q] = task[q]
    BY <2>1 DEF WebhookFire, TypeOK, watch, Tasks
  <2> QED
    BY <1>3, <2>2
<1>7. CASE \E p \in Hooks : HookDropped(p)
  <2>1. PICK p \in Hooks : HookDropped(p)
    BY <1>7
  <2>2. UNCHANGED <<trig, raced, active>>
        /\ task'[p].pc = "idle"
        /\ \A q \in Tasks \ {p} : task'[q] = task[q]
    BY <2>1, OverType DEF HookDropped, Tasks
  <2> QED
    BY <1>3, <2>2
<1>8. CASE Crash
  <2>1. UNCHANGED <<trig, raced, active>> /\ \A q \in Tasks : task'[q].pc = "idle"
    BY <1>8 DEF Crash, Idle
  <2> QED
    BY <1>3, <2>1
<1>9. CASE (\E r \in Runs : HumanEnds(r)) \/ ClockMoves \/ UNCHANGED vars
  <2>1. UNCHANGED <<trig, raced, task>> /\ \A r \in Runs : active'[r] \in {active[r], None}
    BY <1>9 DEF HumanEnds, ClockMoves, vars, watch, TypeOK
  <2> QED
    BY <1>3, <2>1
<1> QED
  BY <1>1, <1>2, <1>4, <1>5, <1>6, <1>7, <1>8, <1>9 DEF Next, SchedulerStep, Tasks

(* With one request to a webhook at a time: whatever crashes, fails or is
   dropped, whenever a trigger is edited, paused, deleted and created again,
   two runs of one trigger are never active together.  (Not of one whose spec
   was set anew while it was being fired.) *)
THEOREM RunsDoNotOverlap ==
    ASSUME OneRequest
    PROVE  Spec => []NoOverlap
<1>1. Init => OverlapInv
  <2> SUFFICES ASSUME Init PROVE HasRun /\ RecordKnows /\ OneInPlay
    BY SidesInit DEF OverlapInv
  <2>1. /\ \A p \in Tasks : task[p].pc = "idle"
        /\ \A r \in Runs : active[r] = None
    BY DEF Init, Idle
  <2>2. \A t \in Triggers, r \in Runs : ~InPlay(t, r)
    BY <2>1, TasksAssumption DEF InPlay
  <2> QED
    BY <2>1, <2>2 DEF HasRun, RecordKnows, OneInPlay
<1>2. OverlapInv /\ [Next]_vars => OverlapInv'
  BY PlayStep
<1>3. OverlapInv => NoOverlap
  <2> SUFFICES ASSUME OverlapInv, NEW t \in Triggers \ raced
               PROVE  Cardinality({r \in Runs : active[r] = t}) <= 1
    BY DEF NoOverlap
  <2> DEFINE here == {r \in Runs : active[r] = t}
  <2>1. \A r, s \in here : r = s
    BY DEF OverlapInv, OneInPlay, InPlay
  <2>2. CASE here = {}
    BY <2>2, FS_EmptySet
  <2>3. CASE here # {}
    <3>1. PICK r : r \in here
      BY <2>3
    <3>2. here = {r}
      BY <2>1, <3>1
    <3>3. Cardinality({r}) = 1
      BY FS_Singleton
    <3> QED
      BY <3>2, <3>3
  <2> QED
    BY <2>2, <2>3
<1> QED
  BY <1>1, <1>2, <1>3, PTL DEF Spec

=============================================================================
