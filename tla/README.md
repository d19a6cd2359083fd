# Verification of the evowork runtime

evowork runs agents whose every step is an event: a run is an append-only Log,
its state is the fold of that Log, and what happens next is a pure function of
the state. This directory holds TLA+ models of the code that makes that true,
TLC configurations that check them on small instances, and proofs, checked by
TLAPS, that hold for every value of the constants.

All paths below are relative to the repository; `runtime.rs` is
`crates/evo-daemon/src/runtime.rs`.

## 1. The system: inventory

| Component | State it keeps | Operations |
|---|---|---|
| Kernel (`evo-kernel`: `reduce.rs`, `decide.rs`, `state.rs`) | none; `RunState` is a value | `reduce(state, event)`, `decide(state) -> commands` |
| Run runtime (`runtime.rs`) | the workspaces, model, pricing and Gateway it holds; the run itself is always read back from the Log | `start`, `resume`, `decide_approval`, `answer_clarification`, `amend_budget`, and inside them `drive`, `call_model`, `request_effect`, `dispatch_effect` |
| Effect Gateway (`evo-gateway`) | manifests, a policy hook | `admit`, `admit_with_preview` |
| Policy (`evo-policy`) | the rules of `policy.toml` | `evaluate_with_trace` |
| Run Log (`evo-runlog`) | SQLite: events, snapshots; blobs on disk | `append`, `events`, `put_snapshot`, `snapshot_at_or_before`, `clear` |
| Replay and verify (`replay.rs`) | none | `replay_to`, `replay_to_checked`, `verify` |
| Triggers (`trigger.rs`, scheduler in `http.rs`) | trigger definitions with `next_fire`, `last_run_id` | create, pause, delete, `fire_due`, `run_scheduler` |
| Event stream (`http.rs`, `apps/ui/src/daemon/client.ts`) | per socket: what was sent; per client: what was observed | `catch_up_one`, `catch_up_all`, `live_loop`; subscribe, reconnect, resume |
| RPC surface (`http.rs`, `rpc.rs`) | a token | dispatch to the calls of the runtime |
| Executor, sandbox, workspace (`evo-exec-local`) | the workspace directory; per command its process, two readers, a deadline | `execute` (file tools, `shell.exec`), `ensure`, `resolve_in_workspace` |
| Context (`evo-context`) | none | `assemble` |
| Model and pricing (`evo-model`) | the price table | `call`; `covers`, `charges`; `cost.query` |
| User interface (`apps/ui/src/projection/fold.ts`, `App.tsx`) | per run a view, folded from events | `applyEvent`, `foldEvents`; the inbox; a change of client |
| Hash and rng (`evo-kernel`), CLI, case generator, configuration, MCP, memory | - | - |

**How they interact.** The HTTP server holds the runtime in one
`tokio::sync::Mutex`; a call keeps the lock until it returns, model and executor
included. So calls never interleave with each other. What does interleave with a
call is failure: between any two appends the process may die, and any `?` may
leave the call half done. Nothing survives but the Log. A call loads the run by
folding it, and then loops: `decide` a command, execute it, append its events,
fold them. The executor and the model are awaited inside the loop. Each
append is also broadcast to the event stream, which has its own tasks. The
scheduler is another task that takes the same lock to start runs. The executor
starts processes nobody else controls. The user interface gets every event from
the stream and folds it with code of its own, in another language.

**What is hard here**, and so what the properties are about:

* a process that dies between two appends of one logical step (request, policy,
  approval; dispatch, result, charge; checkpoint, snapshot; created, intent),
  and a `resume` that has to guess from the Log how far it got;
* approvals: a human's decision, the expiry of the approval, a restart and a
  change of the budget, in any order;
* turns, plans and contexts: `decide` looks at three per-turn marks that many
  events set or clear, and a forgotten one is an endless loop or a stale plan;
* taint: from a tool's output to the gate of the next call, whatever lies between;
* two budget gates over the same meters, under a clock that may jump back;
* a scheduler that is busy, dies, or fires what it fired before;
* a subscriber that reads the past while the present arrives;
* a command that forks, leaves its group, closes its pipes, writes without end or
  does not end, under a deadline that may pass at any read;
* a path through links, links to what is not there, and hard links;
* a content file written by a process that dies between two calls;
* two folds of one Log, written apart, that must show and do the same.

What makes each component correct: *kernel* - a turn ends exactly when its
effect is final, every command makes progress, meters and taint never go back;
*runtime* - a side effect happens at most once, never without consent, never
after a refusal, approvals are decided in time, callers are told what the Log
says, every call ends; *Gateway* - structural gates only tighten, the logged
decision is the one acted on, nothing passes that cannot be paid for; *Run Log,
replay* - a sequence without holes, a replay that equals the fold and finds
what was tampered with, contents that are there when an event names them;
*triggers* - no overlap and no double fire, due at the first moment that matches;
*stream* - every event once, in order, across reconnections; *executor* - an
output is whole or marked, nothing outlives a kill, every command is answered,
a file operation lands in the workspace of its run; *pricing* - the account is
exact; *view* - what is shown is what the daemon acts on.

## 2. Modules

| Module | Models | Kind |
|---|---|---|
| `Protocol` | the shared types of `evo-protocol`: taint, effect classes, budgets, meters; the arithmetic of a machine word | definitions |
| `RunKernel` | `reduce`, one operator per event, and `decide`, one condition per command | definitions |
| `Context` | the blocks a context is assembled from, their trust, its taint | definitions |
| `RunRuntime` | the five calls of the daemon on one run, step by step, with crashes | state machine |
| `EffectProtocol` | what the runtime promises about side effects | abstract specification |
| `RunRuntimeClaims` | statements of comments the runtime does not keep | properties |
| `RunView` | `fold.ts`: the second fold of a run | definitions |
| `RunViewed` | `RunRuntime` and `RunView` together | composition |
| `RunViewClaims` | a statement of `fold.ts` it does not keep | properties |
| `Gateway` | `admit`, `admit_with_preview`, `budget_gate`, `tighten`, policy evaluation, as pure operators | definitions |
| `GatewayAdmission` | one admission in time: first half, policy reload, second half | state machine |
| `Workspace` | where a path leads, and where a tool may go | definitions |
| `LocalExecutor` | one effect executed: file tools, and a command with its processes, pipes, readers and deadline | state machine |
| `Pricing` | price tables, charges, the two sums of an account | definitions |
| `ToolCall` | one turn: answer charged, call admitted, executed, charged | composition of `GatewayAdmission`, `LocalExecutor`, `Pricing` |
| `RunLogReplay` | the store of one run, replay, verify, and what `emit` and `checkpoint` write | state machine |
| `RunHistory` | what the store promises to those who use a run | abstract specification |
| `BlobStore` | content files, put call by call of the file system | state machine |
| `Triggers` | the trigger store, the scheduler, webhook requests, edits | state machine |
| `TriggersClaims` | a statement about triggers the daemon does not keep | properties |
| `Calendar` | `next_fire_ms` and the conversions of dates, beside an almanac | operators, held against a walk |
| `EventStream` | `emit`, the bus, the socket handler, the reconnecting client, the app's view | state machine |
| `Subscription` | what a subscription promises | abstract specification |
| `MCRunRuntime`, `MCRunViewed`, `MCToolCall`, `MCTriggers`, `MCRunLogReplay`, `MCEventStream` | instances for TLC (`MCRunLogReplay` also holds a claim) | constants |
| `MCSchedule`, `MCStore` | `Triggers` after `Calendar`, and `RunLogReplay` beside `BlobStore`, in one run each | instances |
| `RunRuntimeSafety` | the runtime's types, its inductive invariant, side effects, the refinement | proofs |
| `RunRuntimeTurns` | turns, plans, taint, budgets, deadlines, outcomes | proofs |
| `RunViewProofs` | the two folds agree | proofs |
| `ToolCallProofs` | the Gateway, the executor, the workspace, the turn around them, the account | proofs |
| `StoreProofs` | the store, replay, verify, contents; `RunHistory` is implemented | proofs |
| `TriggersProofs` | one-shots, due times, overlap | proofs |
| `CalendarProofs` | the conversions of dates; due at the first moment that matches | proofs |
| `EventStreamProofs` | every event once, in order; the view folds it once; `Subscription` is implemented | proofs |

### 2.1 RunKernel

`RunState` is the record of the code without what no property distinguishes.
Left out or abstracted:

* blobs, identifiers, rng and env. An effect is a number, `1 .. MaxEffects`; the
  code's `<run>-e<last_seq>` is fresh each time, so the model takes the smallest
  unused number.
* An approval is named by its effect: the runtime writes one
  `approval.requested` per effect. `awaiting` keeps only its reason.
* `last_checkpoint_seq` becomes `anchored`: whether there is a checkpoint.
* A question id becomes "a question is pending".
* Meters saturate at `MeterCap`. All comparisons in the code are with limits;
  with limits at most `MeterCap` a saturated meter compares as the real one.

Events the fold ignores (`model.requested`, `policy.evaluated`,
`impact.estimated`, `trigger.fired`) have no operator; the step that appends
them is there when it is a step of its own (`CallModel`), and is folded into
`RequestEffect` when it is written together with `tool.requested`.

### 2.2 RunRuntime

`st` is the fold of the Log, with three facts the daemon reads back from older
events (`tool_of`, `deadline`, `outputs`). `pc`, `cur`, `todo`, `lines`,
`decision` and `reading` are the locals of the call under way; they are lost in
a `Crash`. `ran`, `consent`, `refused`, `gated` and `stale` observe: nothing
reads them.

One action is one append, or one wait for the model or the executor, since
these are the places where a call can stop for good:

* `Start`, `Resume`, `DecideApproval`, `AnswerClarification`, `AmendBudget`
  begin a call when none is under way.
* `ReadClock` and `ExpireApproval` are `expire_overdue_approvals`; then
  `GrantApproval`, `DenyCheckpoint`/`DenyApproval` or `DecisionTooLate`, and
  `decide_approval` goes on as `resume`. `resume` sweeps again, with a second
  reading of the clock, as in the code.
* `ResumeBlocked`, or `EmitRunResumed` and the `Redispatch` of what was approved
  and not dispatched.
* `drive`: `TurnLimit`, `DriveReturns`, `Stalled`, `PeriodicCheckpoint`, and one
  action per command of `decide`.
* `call_model`: `CallModel`, `ModelCallFails`, `ModelResponds`, then
  `ModelNotPriced`, or `ChargeModel` per line of cost and `UnparseablePlan` or
  `PlanStep`.
* an effect: `RequestEffect`; refused (`Refuse...`), held (`Hold...`) or
  dispatched (`PreWriteCheckpoint`, `EmitDispatched`, `Execute`, `ToolResult`,
  `EmitArtifact`, `ChargeTool`, `EffectDone`).

`Crash` ends the call anywhere. It stands for a process that dies and for every
`?` (a failed append, a failed executor start): the call is gone, the Log has
what was appended.

Abstractions of data: clock readings are any members of `Times`, at each
reading, so the clock jumps forth and back; the model answers any plan; a tool
answers ok or error; a line of cost costs 1; the periodic checkpoint comes
whenever it likes (`CHECKPOINT_EVERY` events are not counted), and only while
the run has none, since a later one changes nothing that is modelled.
`resume` of an unknown run id is allowed, as in the code: it leaves a run with
events and no `run.created`. What a context is assembled from is `Context`: the
taint of a turn's context is that of its blocks, not a choice of the model.

Not actions, because no call of this daemon reaches them: `BudgetExceeded` in
`handle_gateway_action` (the kernel's gate comes first with the same meters and
no estimate; `GatesAgree` checks it), `DryRun` (the mode is always live),
`NeedPreview` with an answer (the runtime goes on without one), the iteration
limit of `drive` (the turn limit comes first). `GatewayAdmission` covers the
first three on the Gateway's side.

### 2.3 Gateway and GatewayAdmission

`Admit`, `Judge`, `Finish` and `OverBudget` are the steps of `pipeline.rs`, with
their order; the manifest is class, reversibility and whether there is a
preview; the policy is a sequence of rules. `GatewayAdmission` starts from any
request and any policy and follows the code through the second half of an
admission with any estimate, with the policy reloaded in between
(`ReloadPolicy`). The reload belongs to the environment alone: the Gateway takes its policy as a
trait object and promises that the decision of the first half is the one acted on, but this daemon
never reloads a policy, and calls `admit_with_preview` with no preview and without an await in between.
`Spec` of `GatewayAdmission` is the admission alone, which the proofs are about; TLC meets it
inside `ToolCall`, with the meters of a real account.

### 2.4 EffectProtocol

Each effect goes from absent to requested, and from there to dispatched (if
allowed), held or denied; a held one is approved or denied, an approved one
dispatched; the side effect happens once, between dispatch and result. No
calls, turns, crashes or events. `RunRuntime` implements it with
`phase` = the fold's state of the effect ("held" while its approval is open),
`allowed` = what the Gateway let pass, `happened` = how often it ran. A crash
is a stutter: that is the point.

### 2.5 RunLogReplay

One run in SQLite. `log` is `run_events`, `snapshots` its table, `proc` what
each process is doing. A process drives the run (`Start`, or `LoadRun` and
`Resume`, then `Emit` and `Checkpoint`) or reads it (`ReadRun`); both load it by
a replay: the last seq, the snapshot query with its four outcomes,
`ReplayEvents`. Each SQL statement, or transaction, is one step: every process has
a connection of its own, and there is no other atomicity. `append` is therefore
two steps, the read of the last seq and the transaction, and a checkpoint is
three. `Crash` ends a process anywhere.

Events are what they do to a state: they add (a charge), set (a suspension),
are a checkpoint, or nothing. That tells apart folding one twice, not at all, or
in another order. The daemon is meant to be the only process that drives a run,
and nothing enforces it: `shared` records whether two ever did at once. What
needs a single one says so (`~shared => ...`); `AckedIsKept` holds regardless.
`state_hash` is taken as injective: the state itself. A damaged
snapshot holds another state than its hash says, or does not decode; events are
never damaged. A reader asks for any seq, with or without snapshots; a process
that drives the run asks for the end, as `resume` does. Left out: the table `runs`, other
runs, and SQLite's own errors besides the conflict on the primary key.

`RunHistory` is the store for those who use a run: a past that grows, the state at
each moment of it, and a desk per process. Who reads asks for a moment
(`Ask`) and is answered at once with the state of that moment, or of the present if
it has not come (`Answer`); who writes asks for the present and leads the run from
there to the next event (`Advance`). `RunLogReplay` implements it with `past` = the table of events and
`Desk` = what each process asked for and has: the moment is the target of its replay, until that is
over, and the state what it holds in memory from then on. Snapshots, hashes, queries, the read of the last seq and
damage are stutters; a replay is answered by its last query, and a process that dies leaves its desk.
Once two processes have driven the run at a time, `Shared` leaves the desks to chance and promises
that the past is only added to.

`BlobStore` is the other half of the store: a content goes to the path of its
hash through a temporary file and a rename, then an event that names it is
appended (`AppendNaming`). `Put` looks only whether the file exists. `PutLost` is
a process that dies, or a call that fails, between any two of these. The two
halves share no state; `MCStore` runs each while the other is as it began.

### 2.6 Triggers

`trig` is the trigger store. Its mutex is never held across an await, so a
section under it is one step. The runtime's mutex is held for a whole run
(`holder`). Of a run only that it is active, and for which trigger, is kept
(`active`): from its first event until it ends. `task` is where the scheduler
and each webhook request are in `fire_due` and `fire_record`: they read the
clock behind the runtime's mutex, list, claim (refuse, or write `last_run_id`),
wait for the mutex, start, return or fail, and settle. `Create`, `Update` and
`Delete` come in between; so do `Crash` and `HookDropped` (axum drops the handler
of a closed connection, with the mutex it may hold). `raced` records the triggers
that were once edited while a fire of theirs was under way. `HumanEnds` is a call that
ends a run that waits; one that does not end it changes nothing here. Clock
readings are arbitrary, so the clock jumps both ways. Calendar times are
multiples of a period. Trigger and run ids are used again once nothing refers to
them. The order of a due list is left open. Failures of the trigger store itself
are not modelled.

### 2.7 Calendar

The operators of `trigger.rs`, line by line, in half minutes instead
of milliseconds so that TLC's integers suffice. The state is a walk through an
almanac that knows only how long months are and when years are leap: what is
checked in every state is that the code's arithmetic agrees with it. `DayNumber`, which counts the
days of the years, leap days and months before a date, ties the walk's starts to the epoch. `MCSchedule`
lets the scheduler of `Triggers` run when the walks are over: two questions,
one run.

### 2.8 EventStream

One subscriber, to one run from some seq or to all (`Subscriptions`). `AppendEvent` and `Broadcast` are the two
halves of `emit`; the runtime's mutex makes that one event at a time. `rx` is the
receiver on the bus, which overflows at `Capacity`; `server` is
`handle_socket`: `SubscribeToBus`, `ListRuns`, `ReadBacklog` (one query per run),
`SendFrame`, `GoLive`, `LiveEvent`, `LiveLagged`. A frame waits for room on the
wire (`MaxFrames`), which is how a handler falls behind. `client` is `subscribe`
or `subscribeAll`: `Open`, `ConnectFails`, `OnMessage`, `OnClose`, `Reconnect`,
`Unsubscribe`. After a `Drop` or a `Crash`, frames already sent may arrive or
not. The hello frame, which the client ignores, is left out; so is the time
between a client's leaving and the old handler's noticing, since an old handler
shares nothing with a new one.

The subscriber of all is the app. `shown` is what its view of a run holds:
`Folded` is the part of `applyEvent` that leaves out a seq it has and keeps the
events by seq (`BySeq`, a stable sort), which is why `subscribeAll` may start over. `ChangeClient` is
`App.tsx` with other settings or after a click on "reconnect": the effect is
cleaned up, the view begins empty, a new client subscribes.

`Subscription` is all of this for a reader who knows nothing of sockets: a Log of
each run that grows (`Publish`), and a reader that gets the next event of a run it asked for
(`Deliver`) or, when it follows all, is put back to the beginning (`PutBack`) with a view that
keeps what it has. `EventStream` implements it with `asked` = what the client asked for, `got` = what
the subscriber was shown and `view` = the app's. Drops, deaths, overflows, retries and frames are stutters.

### 2.9 RunView and RunViewed

`RunView` is `fold.ts` event by event: `view` has the status, turn, meters,
budget, effects, artifacts, approvals and question of a run as the user interface
knows them. It is written from the TypeScript alone. `RunViewed` gives every step of
`RunRuntime` the fold of the event that step appends, so that each state has
both folds of one Log; a crash and a clock reading leave the view alone. That
events come once and in order is `EventStream`'s part.

### 2.10 Workspace, LocalExecutor and ToolCall

A path is the sequence of its names; a file system gives a node (directory, file
with one or more names, link) to the paths that exist, each in a directory
(`IsFileSystem`). `Walk` is how an operating system follows a path, name by name and through
links, and belongs to the environment; a walk that is not over after `MaxSteps` goes round in
links and finds nothing, so the bound is taken longer than any other walk. `Exists` looks at
the last name itself and does not follow it (`lstat`); `Ensure`, `Lexical`, `LongestThere`,
`ResolveThroughSymlinks` and `ResolveInWorkspace` are `workspace.rs`. The
file system does not change between the check and the operation: one effect is
open at a time, and a command left behind by an earlier one that swaps a
directory for a link is outside the model.

`LocalExecutor` is `execute`, after the `ensure` of `dispatch_effect` that gives it a workspace: an
`ensure` that fails leaves through `?` before `effect.dispatched`, with no outcome and no charge
(`EnsureFails`; for a command, whose workspace no property looks at, it may always fail). Then `RunFileTool`, or `RefuseToSpawn` and `Spawn`, the
`select` over two readers and the deadline (`ReadSome`, `ReadEnd`, `BothRead`,
`DeadlineInSelect`), and the last wait (`ChildWaited`, `DeadlineInWait`, `Reaped`).
The command is three processes that do anything: write, fork, close a pipe,
end, and one that leaves the process group (`Write`, `Fork`, `ClosePipe`, `Exit`).
A kill is sent (`killed`) and arrives later (`Die`). `Abandoned` is the request
that is dropped, with the future that drives the command.

`ToolCall` is the turn around it, in the order of `runtime.rs`: the answer is
charged by `Pricing`, the Gateway admits with what the account then holds, the
executor runs what is dispatched and the effect is charged. Amounts have a
width (`MAX`), and each sum wraps, saturates or refuses as the code at that
place does (`Total` adds the lines of an account up in one of these ways, or exactly). So do the
budget gates of both modules: the estimate is added, and the wall-clock limit turned into
milliseconds, by saturating arithmetic (`SaturatingAdd`, `SaturatingMul` of `Protocol`).

## 3. Runs

The runs of the runtime are all with `MeterCap = 2`, `MsPerSecond = 1`, `ApprovalTtl = 1`
and `MAX = 9`, which nothing there comes near.

| Run | Instance | Shows |
|---|---|---|
| `runtime_core` | 2 effects, turns 0 and 1, five tools (write, read, irreversible, denied by policy, without manifest), an amount limit or none, clock 0..2, one line of cost, with the view; 1.7 million states | side effects, consent, refusals, turns, plans, taint, outcomes, deadlines; `EffectProtocol` is implemented; the view agrees |
| `runtime_budget` | 2 effects, three tools, limits on tokens and wall clock or none, amended at any moment; fair; 0.6 million states | the two budget gates agree, only what is approved runs without money, nothing is undone, every call ends |
| `tool_call` | every class of manifest, policies of up to three rules; 4 tools; some 90 file systems with links and hard links and every path of up to three names; four leases, a cap of one byte, two bytes per pipe, three processes; three price tables, amounts up to 4 and a limit at that bound; fair; 1.6 million states | verdicts, the place a file tool lands, what a command's answer says, the account, every command is answered |
| `triggers` | one trigger of each kind, 2 runs, the scheduler and a webhook request, clock 0..2, one crash; 2.5 million states | no overlap, a one-shot starts once and is not lost, one due time is one fire |
| `schedule` | 300 days from four places of the calendar, 13 plans, 3 zones, 5 times of day; then 2 one-shots, 3 runs, failing starts, fair; 0.1 million states | due at the first moment that matches; a sweep goes on past a failure |
| `replay` | 2 processes, 3 events, one damaged snapshot; and 2 contents; 2.4 million states | the Log verifies, a replay among the steps of another process is a fold, an acknowledged append is kept, a named content is there; `RunHistory` is implemented |
| `stream` | two runs; all of them, or one from seq 0 or 1; 3 events, a bus of 2, a socket of 2, 2 retries, 2 drops, fair; 0.2 million states | every event once and in order over reconnections, folded once, and every event arrives; `Subscription` is implemented |
| `finding_*` | the smallest instance of the module (`finding_overlap`: 3 runs, 2 requests; `finding_panic`: only runs that are started and then resumed) | one disagreement each (section 6) |

**The bounds.** Two effects in two turns are the smallest instance in which one
effect's history (its output, its taint, its refusal) meets another's decision,
and in which `TurnLimit` fires both from a drive and from a resume. A third
brings nothing of a new kind: at most one effect is open at a time
(`OneOpenEffect`). Clock 0..2 with a time to live of 1 has a reading before, at
and after every deadline, and jumps both ways; with `MsPerSecond = 1` and a
wall limit of 1 it has readings below, at and above the limit. One line of cost
and limits of 1 give balances of one, zero and below. The actions' own bounds
are `MaxEffects` (in `PlanStep`), `MaxLines` and `MeterCap`; `MaxTurns` is the
code's constant, 64 there. No run uses constraints. `triggers` uses the symmetry
of run ids and `replay` that of processes, which no spec, guard or property
tells apart (neither checks liveness).

In `replay`, three events hold a checkpoint with an event before and after it, or
two checkpoints; the second process resumes what the first left, or reads while
the first appends, checkpoints and drops snapshots; one damage is enough, as a
replay looks at one snapshot. In `triggers`, one trigger is enough since triggers
meet only in the mutex and in the list; a sweep that goes on past a failure needs
two, and that is `schedule`. Two runs let a fire find an old id that is over
or that still runs. A bus of two events overflows in every phase of a handler.
Months of 28 to 31 days repeat within those chosen, in leap and ordinary years;
the walks cross the epoch, the leap century 2000, a leap year and 2100, which is none.

In `tool_call`, a cap of one byte and two bytes per pipe make an output that fits,
fills the buffer exactly, and does not fit, on either side; three processes are
the child, one that a kill of the group reaches and one that it does not. The file
systems put every kind of node at each of two names and under a directory, and a
link or nothing in place of the workspace; three names climb out and come back
in. `MAX = 4` lets a line overflow, and a sum of two that fit; a limit of 4 is one
that no saturated sum exceeds, so the gate's estimate stops nothing there (`PaidFor` says so). The policies shadow one
another in both orders.

**Deadlock** is checked for the runtime, the triggers and the store. It is not for
`tool_call` (a turn ends), `schedule` (two one-shots that fired, and nothing due)
and `stream` (a client that stopped or gave up, and no more events).

**Fairness.** `FairSpec` adds weak fairness of `Daemon`, the steps of a call
under way: the task that holds the lock is polled until it returns, the model
call has a timeout and answers or fails, the executor returns. Calls are not
fair (nobody has to make one) and neither is `Crash`. In `Triggers`, the steps
of the scheduler task are weakly fair: it is polled, wakes up every second, and
tokio's mutex is fair. In `EventStream`, so are the broadcast, the handler, the end of
a connection attempt either way, the reconnect timer, and the handling of what
arrived. In `ToolCall`, the start of a command, the readers, the ways it ends, the
arrival of a signal and the passing of time are weakly fair: one task polls them,
and the deadline is a timer. Nothing is asked of the command, which may write and
fork for ever, nor of the disk.

## 4. Properties

*Side effects.* `AtMostOnce`, `RunOnlyWithConsent`, `RefusedNeverRuns`,
`OneOpenEffect` and the refinement `EffectsFollowTheProtocol`. They are about
crashes at the worst place: after `tool.requested` and before
`approval.requested`, after `effect.dispatched` and before `tool.result`,
between the three events of a refusal. `AllAgree` is the invariant behind them (section 7).

*Approvals.* `GrantInTime` relates the grant to the clock of the very call that
writes it.

*Turns, plans, contexts.* `TurnsCountEffects`, `PlanSeesEverything`,
`OutputsTaint`, `ToldTheTruth`.

*Budget.* `GatesAgree`, `BrokeOnlyByApproval`, `NothingIsForgotten`.

*Liveness.* `EveryCallEnds`.

*View.* `ViewAgrees`: meters, budget, turn, effects, approvals, the question and,
but for the case of section 6, the status are those of the daemon's own fold.

*Gateway.* `LogDecides`, `NeverLooser`, `GatesHold`, `PaidFor`.

*Executor.* `OutputIsWhole` (an output not marked truncated is everything the
command's processes ever wrote, in any order of two readers, a deadline and an
end), `NothingOutlivesAKill`, `EveryCommandEnds`, and `LandsInWorkspace`, which
compares the path the check accepted with where the operating system then goes.

*Account.* `AccountIsExact`: the lines, the kernel's meter and `cost.query` say
what the turn has cost, as long as it fits, and an answer that does not fit leaves
no line.

*Store and replay.* `LogVerifies`, `SnapshotsAreHonest`, `AckedIsKept` (also with
two processes that write to the run), `BlobsAreThere`, and the refinement
`KeepsAHistory`. Part of the last is `ReplayIsFold` (a replay answers with the fold up to its target,
whatever happens between its queries), which has a proof of its own.

*Triggers.* `NoOverlap` (timed triggers and requests that come one after the other),
`OnceStartsOnce` and `OnceIsNotLost` (what a crash or an error may and may not do to a
one-shot), `FiresAdvance` (one due time is one fire, over clock jumps and restarts),
`DueIsServed`. A one-shot whose plan is changed while it fires is left out of them:
nothing says what should become of the change. *Calendar.* `DueAtTheFirst`.

*Event stream.* `NothingMissedNothingTwice`, `CaughtUpMeansIt`, `ViewFoldsOnce`,
`EveryEventArrives`, and the refinement `MovesAlongTheLog`. (A run without events is announced as caught up at 0, like a
run with one event; `CaughtUpMeansIt` says nothing of that announcement.)

## 5. Sensitivity

Each property is checked to be able to fail: next to the operator or action it
depends on stands a faulty variant, written the way a plausible mistake in that
code would be, and with the variant in its place TLC finds the property
violated under the run's own configuration. Some of these mistakes the
repository's history knows (`BL-1`: a resume that takes for approved whatever
no approval holds back, `EmitRunResumedTrusting`; `BL-7`: a stalled run reported
as completed, `StalledCompletes`). The variants, in the order of section 4:

| Variant | Mistake | Property it breaks |
|---|---|---|
| `EmitRunResumedTrusting` | resume dispatches what is merely requested | `RunOnlyWithConsent`, `EffectsFollowTheProtocol` |
| `OnEffectDispatchedIgnored` | the fold forgets a dispatch | `AtMostOnce` |
| `OnToolResultSettles` | a refusal folds like a result | `RefusedNeverRuns` |
| `DecideStepEager` | an open effect does not hold decide back | `OneOpenEffect` |
| `OverdueLate` | `>` for `>=` at the deadline | `GrantInTime` |
| `OnApprovalRefusedSameTurn` | a refusal does not end the turn | `TurnsCountEffects` |
| `OnClarificationAnsweredKeepsPlan` | an answer leaves the old plan | `PlanSeesEverything` |
| `OnToolResultUntainted` | taint only through the context | `OutputsTaint` |
| `StalledCompletes` | the old fallback of drive | `ToldTheTruth` |
| `BudgetExhaustedLate` | `>` for `>=` at the limit | `GatesAgree` |
| `EmitRunResumedRedoing` | resume dispatches again | `BrokeOnlyByApproval` |
| `OnEnvSampledRaw` | no saturation, no maximum | `NothingIsForgotten` |
| `OnPlanStepUnmarked` | the turn's plan is not marked | `EveryCallEnds` |
| `ViewRunResumedWaiting` | the view forgets that a resumed run runs | `ViewAgrees` |
| `AdmitWithPreviewReevaluates` | the policy is asked again | `LogDecides` |
| `TightenLowers` | a gate replaces a higher level | `NeverLooser` |
| `JudgeWritesOnly` | the taint gate minds only writes | `GatesHold` |
| `OverBudgetAfterwards` | the estimate is not counted | `PaidFor` |
| `EndOfReadSilently` | a full buffer counts as the end of the output | `OutputIsWhole` |
| `KillChild` | the child is killed, not its group | `NothingOutlivesAKill` |
| `DeadlineInWaitForgotten` | the last wait has no deadline | `EveryCommandEnds` |
| `LongestThereFollowing` | a link to nothing counts as not there | `LandsInWorkspace` |
| `ChargesWrapping` | an amount that overflows wraps | `AccountIsExact` |
| `TakeSnapshotTrusting` | the snapshot's hash is not checked | `LogVerifies` |
| `PutSnapshotAfter` | the state after the checkpoint is stored | `SnapshotsAreHonest` |
| `ReplayEventsToEnd` | the upper bound is left out of the query | `KeepsAHistory` |
| `InsertReplacing` | INSERT OR REPLACE | `AckedIsKept` |
| `CreateTmpReserving` | the content's path is taken before it is written | `BlobsAreThere` |
| `ClaimUnrecorded` | `last_run_id` is not written | `NoOverlap` |
| `SettleReplans` | a one-shot is planned again | `OnceStartsOnce` |
| `ClaimEager` | the plan moves before the run exists | `OnceIsNotLost` |
| `SettleSameInstant` | the search for the next time includes this one | `FiresAdvance` |
| `StartFailsAborting` | the first error ends the sweep | `DueIsServed` |
| `MonthlyCandidatesClamped` | the 31st becomes the last of the month | `DueAtTheFirst` |
| `GoLiveResubscribed` | the bus is followed after the backlog | `NothingMissedNothingTwice` |
| `ReadBacklogEndFirst` | `caught_up` before the backlog | `CaughtUpMeansIt` |
| `FoldedAgain` | the view folds what comes again | `ViewFoldsOnce` |
| `LiveLaggedIgnored` | a lagging handler goes on | `EveryEventArrives` |
| `NextFromSeqInclusive` | the last event seen is asked for again | `MovesAlongTheLog` |

## 6. Where code and documentation disagree

Each is a statement of `RunRuntimeClaims`, `RunViewClaims`, `TriggersClaims` or `MCRunLogReplay`,
found violated by a run of its own.

* `NeverPanics` - the `expect` of `AssembleContext` says start and resume both
  made sure of the intent. A crash between `run.created` and
  `intent.declared`, then `resume`, reaches it without one. The run takes
  `StartedThenResumed`, the behaviours of `Spec` in which a run is started and then
  only resumed, so that this is what TLC shows. (`budget.amend` or `run.resume` of an id that was
  never started reaches the same place: neither asks whether the run exists.)
* `StalledMeansStuck` - `drive` fails a run as stalled over effects nobody will
  push any more. `amend_budget` on a run whose process died enters `drive` past
  the head of `resume`, so a run with an open approval or an approved effect is
  failed that way.
* `NeverOverlaps` - rather miss a fire than fire the same trigger twice, says
  `last_run_active`. A run that was recorded and waits for the mutex has no event
  and counts as not active, so two requests to one webhook both start a run.
  (`NoOverlap` is what holds.)
* `DamageCostsNothing` - a bad snapshot is as good as none, says `replay.rs`. One
  that does not decode fails the replay, and with it every resume.
* `StatusIsTheRuns` - the view is a projection of the events the daemon wrote, says
  `fold.ts`. It shows every `run.completed` as completed and does not look at the
  event's status; the kernel does, and `decide` completes a run as failed when
  the plan asks for a call the model did not make.

Five more behaviours of the models differ from what a document says, are mild or
known, and have no run of their own. A failed model call leaves no event, and the
Log says "running" (`lifecycle.rs` has `run.failed` as the place of faults). What
was approved is dispatched by `resume` although the budget was lowered meanwhile
(`BrokeOnlyByApproval` is what holds). `resume` revives a failed run
(`docs/STATUS.md` records it). A one-shot fires again when its fire was cut short
by a crash or an error (`OnceStartsOnce` and `OnceIsNotLost` are what holds). Two
processes that put one content at a time share its `.tmp` path (`blobstore.rs:35`);
`store.rs` says there is one writer, and `BlobStore` has one.

## 7. Proofs

Checked with TLAPS, for every number of effects, turns, lines, events, runs,
processes and drops, every set of tools, every policy, manifest, budget and clock.
The assumptions are those of the modules: types of constants, bounds that are
numbers, and that `None` (or no tool, or no process) is no value of another kind.
For the run they are `WidthAssumption` (the largest word is a number), `NoneAssumption`, `MeterAssumption`, `SecondAssumption`,
`EffectsAssumption`, `NoToolAssumption`, `NoPlanAssumption`, `BudgetsAssumption`,
`ManifestAssumption`, `TimeAssumption`, `BoundAssumption`; for the admission
`PolicyAssumption`, `AdmissionBudgetAssumption`, `MeterBoundAssumption`,
`NoneIsApart`; for the workspace `WorkspaceAssumption`, for the executor
`ExecutorAssumption` (file systems are file systems), for the account `WidthAssumption` again and
`PricesAssumption` (prices and usages are numbers of the width); for triggers
`SpecsAssumption`, `TimesAssumption`, `TasksAssumption`; for the calendar
`GrainAssumption`, `ValidSpecs`, `ValidClock` (what `validate_spec` lets pass) and `StartsAssumption`
(a walk starts at a date of the years from 1 on, with that date's number); for the store
`BoundsAssumption`; for the stream its own `NoneAssumption`,
`SubscriberAssumption`, `StreamBoundsAssumption`. TLC evaluates them in the runs. One theorem
has a hypothesis of its own, `OneRequest` of `RunsDoNotOverlap`: without it the statement is false
(`finding_overlap`).
Nothing is assumed of the policy in `RunRuntime`, so consent does not depend
on what `policy.toml` says.

| Theorem | Says |
|---|---|
| `TypeCorrect` | `Spec => []TypeOK` of the runtime |
| `AlwaysAgree` | `Spec => [](TypeOK /\ AllAgree)` |
| `EffectsRunAtMostOnce`, `EffectsRunWithConsent`, `RefusedEffectsNeverRun` | the three properties of side effects |
| `RuntimeImplementsProtocol` | `Spec => EffectsFollowTheProtocol` |
| `OneEffectIsOpen`, `TurnsAreCounted`, `PlansSeeEverything`, `OutputsAlwaysTaint` | the four properties of turns |
| `BudgetGatesAgree`, `BrokeRunsOnlyApproved`, `NothingIsEverForgotten` | the three properties of budgets |
| `GrantsComeInTime`, `CallersAreToldTheTruth` | deadlines and outcomes |
| `ViewedRunsAreRuns`, `ViewsAgree` | every theorem about `Spec` holds of `ViewedSpec`; the two folds agree |
| `LogAlwaysDecides`, `GatesNeverLoosen`, `GatesAlwaysHold`, `WhatPassesIsPaidFor` | the four properties of the Gateway (of `Spec` of `GatewayAdmission`) |
| `OutputIsWholeHolds`, `NothingOutlivesAKillHolds`, `FileToolsLandInWorkspace` | the three safety properties of the executor (of `ExecSpec`) |
| `TurnFollowsLog`, `TurnNeverLooser`, `TurnGatesHold`, `TurnIsPaidFor`, `TurnOutputIsWhole`, `TurnLeavesNothing`, `TurnLandsInWorkspace` | the same seven of a whole turn (of `TurnSpec`), where an admission is paid from the turn's account |
| `AccountsAreExact` | the account of a turn (of `TurnSpec`), for amounts of any width |
| `StoreTypesAlways`, `LogVerifiesHolds`, `SnapshotsAreHonestHolds`, `ReplayIsFoldHolds`, `AckedIsKeptHolds` | the store (of `RunLogReplay`), at any length of the Log |
| `StoreIsAHistory` | `Spec => KeepsAHistory` |
| `BlobsAreThereHolds` | the content files (of `BlobSpec`) |
| `TypesHold`, `OneShotsAreNotLost`, `OneShotsStartOnce`, `DueTimesAreFiredOnce` | triggers, with any number of them and of requests |
| `RunsDoNotOverlap` | `OneRequest => (Spec => []NoOverlap)` |
| `CalendarIsExact` | `AlmanacSpec => []DueAtTheFirst` |
| `StreamIsSound`, `NothingIsMissedOrDoubled`, `CaughtUpIsMeant`, `ViewIsFoldedOnce` | the event stream and the app's view of it |
| `StreamIsASubscription` | `Spec => MovesAlongTheLog` |

**The runtime's argument.** "At most once" is not inductive: a state in which an
effect ran once and is about to be dispatched satisfies it. What has to be
carried along is agreement between three parties that a crash can separate.
`LogAgrees` says, per effect and phase of the Log, how often it may have run and
whose consent there must be: nothing ran before its dispatch; an approved effect
has a human's consent; an open approval belongs to an effect nobody decided on;
what is refused is denied; what a structural gate held is not the Gateway's to
allow. `CallAgrees` says what the call under way believes without reading the
Log again: at `dispatch` its effect is approved, or requested and allowed; at
`execute` it is dispatched and did not run; the rest of the resume loop is
approved and does not contain the effect in hand. `Crash` only drops the second
part, which is why the first must stand alone, and `EmitRunResumed` rebuilds the
second from the first. The three properties follow without a step.

A lemma per action; actions that touch no effect share `QuietSteps`. The lemma
`GatedIsNotDispatched` connects the runtime to the Gateway: whatever the policy,
a verdict of dispatch means no structural gate applied.

**Refinement.** From `TypeOK /\ AllAgree`, each action is one action of
`EffectProtocol` or a stutter; the mapping turns an open approval into "held",
so `HoldRequest` is `Hold`, expiry and denial are `Refuse`, and a crash between
`tool.requested` and `approval.requested` leaves an effect that is neither
allowed nor held, and that the protocol permits nothing but `Hold` or `Refuse`.

**The Gateway's argument.** The first half's decision is `Judge` of the policy it
asked; the invariant `AdmissionInv` keeps it through a reload (`pending =
judged`) and says that a verdict other than deny and need-preview is `Finish` of
it with the estimate. `JudgeTightens` and `FinishLetsPass` do the rest.

**Turns.** `Paced` says how far a run has come. One effect is open at a time, so
each end of an effect ends the turn; the marks of context and plan are never
ahead of the turn; a context of this turn was assembled from everything the Log
holds, and a plan of this turn from such a context. That the turn is the number of
effects that ended needs the cardinality of that set to grow by one, which holds
because an effect that ended never ends again (`AllAgree`).

**Budgets, deadlines, outcomes.** Each needs one fact that a crash may not break:
`LeaveIsPaidFor` (between the Gateway's leave and the execution nothing is
charged), `Swept` (what the sweep of overdue approvals has left is younger than its
reading of the clock), `FailureIsLogged` (what a failed drive will tell is in the
Log), `Metered`. `GatesAgree` needs no invariant: both gates read the same meters.

**The view.** `Told` relates the two folds field by field; `ShownInv` adds the
names of the tools. One lemma per event shows that folding it on both sides keeps
`Told`. Beside it stands only `Beginnings`: before its first event a run is new,
and a run about to be held has its approval open. Statuses differ in one way, the
one of section 6, and the proof shows it is the only one.

**The store.** `FoldOf` is a recursive function over the length of a Log, so its
equation has to be proved: `FoldExists` and `FoldsAgree` are inductions on that
length, done as the least counterexample, which exists by the well-foundedness of
finite sets under inclusion (`LeastNatural`). Then `SoloInv`, while one process
drives: `EachSound` (what a process holds in memory is the fold of what it has
read), `Alone`, no checkpoint of the Log fails to verify, and `SnapshotsFolded`.
`SnapshotsAreHonest` alone is not inductive, since a damaged snapshot is
not honest about its state but its hash still must be: the hash outlives the
damage. `AckedIsKept` and `BlobsAreThere` hold without the assumption of one
process, or of a process that lives.

**A history.** `ReplayIsAHistory`, `InsertIsAHistory`, `WriteIsAHistory` and `SharedIsAHistory`
map each step of the store. While one process drives, `SoloInv` is what the mapping needs: the
state a replay ends with is the fold up to its target, which is `Answer`; what the
writer holds is the present, and the seq it read is still the next one, so that its insert is
`Advance` and cannot meet a conflict. `InReach` bounds the targets, which makes them moments of the
history. From the moment a second process drives there is only `Shared` to show, that a
transaction adds one event behind the others or none: the second process's first step is still an `Ask`
(or a `Begin`), which is what raises the flag.

**Triggers.** `NotLostInv`: a task that began a run has counted it. `OnceInv`
adds that requests fire nothing but webhooks, that a one-shot which is being fired is on no other
list, and that it either was not begun and keeps its time, or was begun once and has none.
For cron and interval triggers, `NextIsLater` says that the planned time is later than
every time fired for; the next multiple of a period is later than the moment it is counted from, and
`TypeOK` keeps that moment a number whatever the clock does. `OverlapInv` calls a run in play from the
moment it is recorded, when it has no event yet, until it has ended or its start was
given up: there is one at most, and the record names it.

**The executor.** `ExecInv`: the bytes written to a pipe are in it, in the buffer, or
cut (`BytesAreKept`); a reader that saw the end of a pipe saw it with nobody left
to write (`EofIsTheEnd`); who was killed, was killed for a cut or a deadline
(`KillsHaveAReason`).

**The workspace.** A walk is a recursive function of its steps, so `WalkIs` first gives it its
equation, an induction done as in the store below. `WalkIsReal`: what a walk has behind it holds no
link. From there: a path of directories is walked straight (`WalkIsStraight`), so the
longest part of a path that is there, resolved, is walked again without a
detour, and below it there is nothing (`NothingUnder`), so the rest is missing where it is
looked for (`LandsThere`). What resolves is under the workspace by the check of the
code, and the workspace is a directory by `Ensure` (`EnsuredNode`).

**The turn.** Each step of `TurnSpec` is a step of the admission, one of the executor or neither:
`TurnInv` is both their invariants, with the admission's forgotten at `Dispatch`. The executor's
part goes on after the answer, since what a command left behind does.

**The account.** `SumsAgree`: as long as the exact sum of some amounts fits, the wrapping and the
saturating sum are that sum, and beyond it the saturating one is the largest number. `AccountInv`
says which lines there are at each stage, and `AccountSum` adds them up.

**The stream.** `StreamInv` follows an event from the Log to the client. `Due(r)`
is the seq the client is due next. The `Pipe` is what is on the wire and what the
handler is about to send; from `Due(r)` on it goes on without a gap (`InOrder`). What
is in the Log and not in the pipe waits on the bus once the backlog of the run was
read (`NothingLost`). A handler that was left behind owes nothing, since it hangs up, and a
client that connects again is due what it asks for. For the view (`ViewInv`) the log is an upper
bound of what is on its way (`Logged`), and `SortedIn` shows that sorting an event into a
prefix of a Log leaves a prefix, however the sort places what is equal.

**A subscription.** With `StreamInv` and `ViewInv`, `StepMoves` maps each step: `AppendEvent` is
`Publish`; a frame handled is `Deliver` of its run if it is the one that is due
(`MessageDelivers`) and otherwise changes nothing the reader sees; a connection that opens for a
reader of all is `PutBack` with its view kept, a change of client is `PutBack` with an empty one.

**The calendar.** `civil_from_unix_days` and its counterpart count days in eras of 400 years that begin
in March, without a table of months. `CountsAlike`: the second is `DayNumber`, counted by years and months.
`DateToEra` splits a date into era, year, month from March and day, and `EraToDate` follows the first through them:
the year comes back since the leap days before it are taken out exactly, in steps of 4, 100 and 400
(`YearOfEraIs`). So `DateIsFound` and, from it, `DatesDiffer`: no two dates have one number.
The invariant (`AlmanacInv`) is that the walk's date is one and its day is that date's number. `next_monthly` then tries
days of the almanac: a candidate within the horizon is the almanac's day of that number; the
first due day is a candidate, since it is in one of the next three months (`MonthIsNear`: each month takes 28 days); and there is
one within 62 days, since a month without the day is followed by one with 31 (`DayComes`).

**Only model-checked.** Liveness (`EveryCallEnds`, `EveryCommandEnds`, `DueIsServed`,
`EveryEventArrives`): TLAPS has no usable ENABLED. Years before 1, where the code's
truncating division would matter, do not occur: a moment is a u64 counted from 1970.

## 8. Plan

1. Done, with proofs: the runtime, its view, the Gateway, the executor, the workspace, the
   turn and its account, the store, triggers, the calendar, the event stream with the app's view.
2. Done, model-checked: all liveness.
3. Done: `Subscription`, an abstract specification of a reader that moves along a Log, which
   `EventStream` implements; the calendar's proof.
4. Done: `RunHistory`, an abstract specification of the store, which `RunLogReplay`
   implements, with its proof.
5. `RunRuntime` composed with `Triggers` through the lock (fairness of the
   scheduler while a long call is under way), and with `LocalExecutor` (what is left
   of a command when the next turn's file tool resolves its path).

## 9. Not modelled, and why

* RPC surface: dispatch by name, authentication and parsing of parameters are sequential
  code around the modelled calls; `trigger.dryrun` and the read-only lists change nothing.
* Executor: a pipe that cannot be read; the environment and the network rules of the
  child, which the operating system enforces; absolute paths, which are refused.
* Model adapter: requests to a provider and the parsing of its stream. A model
  answers with usage or fails. A provider and a model name are one name.
* Text: prompts, the text of a context's blocks, previews, error messages.
* User interface: the timeline, formatting and the React views.
* Triggers: errors of the trigger store itself. Store: the schema of the database.
* Canonical hashing and the random generator: bit-level functions.
* Command line, case generator, configuration: start-up and one-shot tools.
* `evo-mcp` and `evo-memory` are stubs.
