--------------------------- MODULE LocalExecutor ---------------------------
(***************************************************************************)
(* crates/evo-exec-local: one dispatched effect, executed.  A file tool    *)
(* resolves its path and works there.  A shell command runs in the sandbox *)
(* of sandbox.rs: a tree of processes that write to two pipes, two capped  *)
(* readers, a deadline, and a kill of the process group.                   *)
(*                                                                         *)
(* Bytes are counted: a reader's buffer is a prefix of what was written.   *)
(* Time is whether the deadline has passed.                                *)
(***************************************************************************)
EXTENDS Protocol, Workspace

CONSTANTS
    FileCalls,     \* [tool, fs, run, path]: file tools, on what file system
    ShellCalls,    \* [tool, program, lease]: shell.exec
    AllowedPrograms,
    TimeoutCap,    \* SANDBOX_TIMEOUT_CAP_MS
    OutputCap,     \* SANDBOX_MAX_OUTPUT_BYTES
    MaxWritten     \* bound: bytes a command writes to one pipe

ASSUME ExecutorAssumption ==
    /\ TimeoutCap \in Nat /\ OutputCap \in Nat \ {0} /\ MaxWritten \in Nat
    /\ None \notin {"own", "signal", "eof", "cut"}
    /\ \A c \in FileCalls : IsFileSystem(c.fs) /\ c.path \in ParamPaths
    /\ \A c \in ShellCalls : c.tool = "shell.exec"

VARIABLES
    step,      \* where execute is
    effect,    \* the DispatchedEffect with its lease, or None
    outcome,   \* the EffectOutcome, or None
    alive,     \* the processes of the command
    killed,    \* those a SIGKILL is on its way to
    code,      \* how the child ended: "own", "signal" or None
    holds,     \* process |-> the pipes it can write to
    written,   \* pipe |-> bytes written to it ever
    unread,    \* pipe |-> bytes in it
    buf,       \* pipe |-> bytes collected from it
    read,      \* pipe |-> how its reader ended: "eof", "cut" or None
    late       \* the deadline has passed

tree == <<alive, killed, code, holds>>
data == <<written, unread>>
readers == <<buf, read>>
execution == <<step, effect, outcome, tree, data, readers, late>>

Pipes == {"stdout", "stderr"}

(* The child leads its process group; what it forks is in the group, unless
   it makes a session of its own. *)
Processes == {"child", "grandchild", "session"}
Group == {"child", "grandchild"}

Running == step \in {"select", "wait", "reap"}

ExecInit ==
    /\ step = "idle" /\ effect = None /\ outcome = None
    /\ alive = {} /\ killed = {} /\ code = None
    /\ holds = [p \in Processes |-> {}]
    /\ written = [p \in Pipes |-> 0] /\ unread = [p \in Pipes |-> 0]
    /\ buf = [p \in Pipes |-> 0] /\ read = [p \in Pipes |-> None]
    /\ late = FALSE

(* outcome_taint, the same for success and failure *)
OutcomeTaint(tool) == IF tool = "fs.write" THEN "clean" ELSE "tainted"

Failed(why) == [status |-> "error", why |-> why, taint |-> OutcomeTaint(effect.tool)]

Finish_(result) == step' = "done" /\ outcome' = result

-----------------------------------------------------------------------------
(* The workspace of the run is made first.  Where that fails, dispatch_effect
   leaves through its `?`, before effect.dispatched: nothing is executed and
   there is no outcome.  (Of a command's file system nothing else is kept: its
   workspace may be there or not.) *)

HasWorkspace == effect.tool # "shell.exec" => Ensure(effect.fs, effect.run).ok

EnsureFails ==
    /\ step = "begin"
    /\ effect.tool = "shell.exec" \/ ~HasWorkspace
    /\ step' = "done" /\ outcome' = None
    /\ UNCHANGED <<effect, tree, data, readers, late>>

(* The file tools.  What the outcome names is relative to the workspace. *)

TargetOf(ws, path) == SubSeq(path, Len(ws) + 1, Len(path))

RunFileTool ==
    /\ step = "begin" /\ effect.tool \in {"fs.write", "fs.read"} /\ HasWorkspace
    /\ LET ws == Ensure(effect.fs, effect.run)
           fs == EnsuredFs(effect.fs, effect.run)
           target == ResolveInWorkspace(fs, ws.path, effect.path)
       IN  IF ~target.ok THEN Finish_(Failed("path"))
           ELSE \/ /\ IF effect.tool = "fs.read" THEN CanRead(fs, target.path)
                                               ELSE CanWrite(fs, target.path)
                   /\ Finish_([status |-> "ok", taint |-> OutcomeTaint(effect.tool),
                               path |-> target.path, target |-> TargetOf(ws.path, target.path)])
                \/ Finish_(Failed("io"))
    /\ UNCHANGED <<effect, tree, data, readers, late>>

UnknownTool ==
    /\ step = "begin" /\ effect.tool \notin {"fs.write", "fs.read", "shell.exec"} /\ HasWorkspace
    /\ Finish_(Failed("unknown_tool"))
    /\ UNCHANGED <<effect, tree, data, readers, late>>

-----------------------------------------------------------------------------
(* shell.exec: up to the spawn. *)

(* Lease::spawn_timeout *)
SpawnTimeout(lease) ==
    LET remaining == IF lease.expires > lease.issued THEN lease.expires - lease.issued ELSE 0
    IN  IF remaining < TimeoutCap THEN remaining ELSE TimeoutCap

RefuseToSpawn ==
    /\ step = "begin" /\ effect.tool = "shell.exec"
    /\ \/ SpawnTimeout(effect.lease) = 0 /\ Finish_(Failed("lease_expired"))
       \/ /\ SpawnTimeout(effect.lease) > 0 /\ effect.program \notin AllowedPrograms
          /\ Finish_(Failed("program_not_allowed"))
       \/ /\ SpawnTimeout(effect.lease) > 0 /\ effect.program \in AllowedPrograms
          /\ Finish_(Failed("io"))    \* there is no such program, no process to be had
    /\ UNCHANGED <<effect, tree, data, readers, late>>

Spawn ==
    /\ step = "begin" /\ effect.tool = "shell.exec"
    /\ SpawnTimeout(effect.lease) > 0 /\ effect.program \in AllowedPrograms
    /\ step' = "select"
    /\ alive' = {"child"}
    /\ holds' = [holds EXCEPT !["child"] = Pipes]
    /\ UNCHANGED <<effect, outcome, killed, code, data, readers, late>>

-----------------------------------------------------------------------------
(* The command: whatever it does. *)

Free == alive \ killed

(* (What is written after the answer nobody reads: left out.) *)
Write ==
    /\ Running
    /\ \E p \in Free : \E pipe \in holds[p] :
         /\ written[pipe] < MaxWritten
         /\ written' = [written EXCEPT ![pipe] = @ + 1]
         /\ unread' = [unread EXCEPT ![pipe] = @ + 1]
    /\ UNCHANGED <<step, effect, outcome, tree, readers, late>>

Fork ==
    \E p \in Free, q \in Processes \ (alive \cup {"child"}) :
        /\ q \in Group => p \in Group
        /\ alive' = alive \cup {q}
        /\ holds' = [holds EXCEPT ![q] = holds[p]]
        /\ UNCHANGED <<step, effect, outcome, killed, code, data, readers, late>>

ClosePipe ==
    \E p \in Free : \E pipe \in holds[p] :
        /\ holds' = [holds EXCEPT ![p] = @ \ {pipe}]
        /\ UNCHANGED <<step, effect, outcome, alive, killed, code, data, readers, late>>

Ends(p, how) ==
    /\ alive' = alive \ {p}
    /\ holds' = [holds EXCEPT ![p] = {}]
    /\ code' = IF p = "child" THEN how ELSE code
    /\ UNCHANGED <<step, effect, outcome, killed, data, readers, late>>

Exit == \E p \in Free : Ends(p, "own")

Die == \E p \in alive \cap killed : Ends(p, "signal")

TimePasses ==
    /\ Running /\ ~late
    /\ late' = TRUE
    /\ UNCHANGED <<step, effect, outcome, tree, data, readers>>

-----------------------------------------------------------------------------
(* spawn, once the child runs.  kill_child_tree: the group, if the child is
   not reaped yet; and nothing waits for the kill to arrive. *)

(* Faulty: the child alone. *)
KillChild == killed' = killed \cup (alive \cap {"child"})

KillChildTree == killed' = killed \cup (alive \cap Group)

(* read_capped, one read of up to `unread` bytes: a full buffer ends it, and
   what does not fit is dropped. *)
Filled(pipe, n) == IF buf[pipe] + n > OutputCap THEN OutputCap ELSE buf[pipe] + n

(* Faulty: the end of the room is taken for the end of the output. *)
EndOfReadSilently(pipe, n) == IF Filled(pipe, n) = OutputCap THEN "eof" ELSE None

EndOfRead(pipe, n) == IF Filled(pipe, n) = OutputCap THEN "cut" ELSE None

ReadSome(pipe) ==
    /\ step = "select" /\ read[pipe] = None
    /\ \E n \in 1 .. unread[pipe] :
         /\ unread' = [unread EXCEPT ![pipe] = @ - n]
         /\ buf' = [buf EXCEPT ![pipe] = Filled(pipe, n)]
         /\ read' = [read EXCEPT ![pipe] = EndOfRead(pipe, n)]
         /\ IF EndOfRead(pipe, n) = "cut" THEN KillChildTree ELSE UNCHANGED killed
    /\ UNCHANGED <<step, effect, outcome, alive, code, holds, written, late>>

ReadEnd(pipe) ==
    /\ step = "select" /\ read[pipe] = None /\ unread[pipe] = 0
    /\ \A p \in alive : pipe \notin holds[p]
    /\ read' = [read EXCEPT ![pipe] = "eof"]
    /\ UNCHANGED <<step, effect, outcome, tree, data, buf, late>>

(* The sleep of the select: it may win against a read that is ready too. *)
DeadlineInSelect ==
    /\ step = "select" /\ late
    /\ KillChildTree
    /\ step' = "reap"
    /\ UNCHANGED <<effect, outcome, alive, code, holds, data, readers, late>>

Truncated == "cut" \in {read[pipe] : pipe \in Pipes}

BothRead ==
    /\ step = "select" /\ \A pipe \in Pipes : read[pipe] # None
    /\ IF Truncated THEN KillChildTree ELSE UNCHANGED killed
    /\ step' = "wait"
    /\ UNCHANGED <<effect, outcome, alive, code, holds, data, readers, late>>

(* The child is reaped.  Its exit code is data; a signal is -1. *)
ChildWaited ==
    /\ step = "wait" /\ "child" \notin alive
    /\ Finish_([status |-> "ok", taint |-> OutcomeTaint(effect.tool), truncated |-> Truncated,
                got |-> buf, exit_code |-> code])
    /\ UNCHANGED <<effect, tree, data, readers, late>>

(* Faulty: the last wait has no deadline. *)
DeadlineInWaitForgotten == FALSE /\ UNCHANGED execution

(* A command that closed both pipes and goes on. *)
DeadlineInWait ==
    /\ step = "wait" /\ late /\ "child" \in alive
    /\ KillChildTree
    /\ step' = "reap"
    /\ UNCHANGED <<effect, outcome, alive, code, holds, data, readers, late>>

Reaped ==
    /\ step = "reap" /\ "child" \notin alive
    /\ Finish_(Failed("lease_expired"))
    /\ UNCHANGED <<effect, tree, data, readers, late>>

(* The future is dropped with the request that drives the run: kill_on_drop
   reaches the child alone.  (A pipe that cannot be read is left out.) *)
Abandoned ==
    /\ Running
    /\ killed' = killed \cup (alive \cap {"child"})
    /\ step' = "done" /\ outcome' = None
    /\ UNCHANGED <<effect, alive, code, holds, data, readers, late>>

-----------------------------------------------------------------------------
(* execute, of one effect *)
Execute(calls) ==
    /\ step = "idle"
    /\ effect' \in calls
    /\ step' = "begin"
    /\ UNCHANGED <<outcome, tree, data, readers, late>>

StartCommand == RefuseToSpawn \/ Spawn

Begin == EnsureFails \/ RunFileTool \/ UnknownTool \/ StartCommand

Reads == \E pipe \in Pipes : ReadSome(pipe) \/ ReadEnd(pipe)

Ending == DeadlineInSelect \/ BothRead \/ ChildWaited \/ DeadlineInWait \/ Reaped

Command == Write \/ Fork \/ ClosePipe \/ Exit

Executing ==
    \/ Begin \/ Reads \/ Ending \/ Abandoned
    \/ Command \/ Die \/ TimePasses

ExecNext == Execute(FileCalls \cup ShellCalls) \/ Executing

(* The task is polled, time goes on and signals arrive.  The command owes
   nothing: it may run, and write, for ever. *)
ExecFairness ==
    /\ WF_execution(StartCommand) /\ WF_execution(Reads) /\ WF_execution(Ending)
    /\ WF_execution(Die) /\ WF_execution(TimePasses)

ExecSpec == ExecInit /\ [][ExecNext]_execution /\ ExecFairness

-----------------------------------------------------------------------------
Answered == step = "done" /\ outcome # None
Shell == Answered /\ effect.tool = "shell.exec" /\ outcome.status = "ok"

(* Safety: what a command's answer says of its output is so.  Not marked
   truncated, it is everything the whole process tree ever wrote, and nobody
   interfered with the command; marked truncated, one side is a prefix of the
   length of the cap, and no side is longer (sandbox.rs, read_capped). *)
OutputIsWhole ==
    Shell =>
      IF outcome.truncated
        THEN /\ \E pipe \in Pipes : outcome.got[pipe] = OutputCap
             /\ \A pipe \in Pipes : outcome.got[pipe] <= OutputCap
                                    /\ outcome.got[pipe] <= written[pipe]
        ELSE outcome.got = written /\ outcome.exit_code = "own" /\ killed = {}

(* Safety: after an answer that came with a kill, nothing of the process group
   goes on ("sh -c 'sleep infinity'": sandbox.rs, kill_child_tree). *)
NothingOutlivesAKill ==
    Answered /\ effect.tool = "shell.exec" /\ (outcome.status = "ok" => outcome.truncated)
      => alive \cap Group \subseteq killed

(* Liveness: shell.exec answers, whatever the command does: it may fork,
   detach, keep a pipe open, close both and go on, or write for ever. *)
EveryCommandEnds == step = "begin" /\ effect.tool = "shell.exec" ~> step = "done"

(* Safety: a file tool that answers ok has worked where the operating system
   takes its path, that is a place inside the workspace of its run and of no
   other, with no name outside; and the target it reports is that place
   ("resolve_in_workspace", workspace.rs; "actual_targets", executor.rs). *)
LandsInWorkspace ==
    Answered /\ effect.tool \in {"fs.write", "fs.read"} /\ outcome.status = "ok" =>
      LET ws == Append(Base, effect.run)
          place == Landing(EnsuredFs(effect.fs, effect.run), outcome.path)
      IN  /\ place = ws \o outcome.target
          /\ Node(effect.fs, place) # HardLinked

=============================================================================
