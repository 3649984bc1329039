----------------------------- MODULE TaskExecutor -----------------------------
(***************************************************************************)
(* crabgent-task: the executors of one process over one shared TaskStore.   *)
(*                                                                          *)
(* A run is one drive of a task: a future that holds a semaphore permit     *)
(* from acquire_spawn_permit until it ends.  A run starts by spawn (row      *)
(* inserted) or by resume_paused (row claimed), is registered under its     *)
(* task id, joins the executor's JoinSet and drives the kernel; its outcome *)
(* is classified into a verdict, the verdict is written to the row, and the *)
(* run retires.  Users cancel tasks, blocking callers time out, shutdown    *)
(* pauses, then cancels, then aborts, and the process may die at any point; *)
(* the next boot folds Running rows into Paused(Crash) and resumes them.    *)
(*                                                                          *)
(* Time is abstracted: a timeout may fire whenever its timer is armed.      *)
(***************************************************************************)
EXTENDS TaskStore, FiniteSets

CONSTANTS
  Tasks,            \* task ids
  Executors,        \* the executors (one per agent) that share the store
  Runs,             \* run slots: enough for every run that can be live
  Calls,            \* calls of shutdown() each executor may receive
  NoTask, NoRun, StaleRun,
  AgentOf,          \* the executor a task belongs to (resolver, tool wiring)
  ParentOf,         \* parent_task_id, or NoTask
  Blocking,         \* the tasks created by spawn_blocking
  Legacy,           \* rows of an older deploy, without a resume spec
  MaxParallel,      \* max_parallel
  MaxResumes,       \* max_resumes
  BootFirst,        \* the host resumes before it accepts the first spawn
  CallersMayDrop,   \* a caller outside any task may drop its spawn future
  CrashAllowed,     \* the process may die without a finished shutdown
  Sweeper,          \* the host schedules recover_stuck
  MaxBoots,         \* bound: process starts, the first included
  MaxFaults         \* bound: store calls that return an error

ASSUME ExecutorAssumption ==
  /\ NoTask \notin Tasks
  /\ NoRun \notin Runs
  /\ StaleRun \notin Runs \cup {NoRun}
  /\ "live" \notin Calls
  /\ AgentOf \in [Tasks -> Executors]
  /\ ParentOf \in [Tasks -> Tasks \cup {NoTask}]
  /\ \A t \in Tasks :
       ParentOf[t] # NoTask => AgentOf[ParentOf[t]] = AgentOf[t]
  /\ Blocking \subseteq Tasks
  /\ Legacy \subseteq Tasks
  /\ {MaxParallel, MaxResumes, MaxBoots, MaxFaults} \subseteq Nat
  /\ {BootFirst, CallersMayDrop, CrashAllowed, Sweeper} \subseteq BOOLEAN

VARIABLES
  row,        \* durable: Tasks -> Row
  run,        \* Runs -> RunState
  handles,    \* cancel_handles: Tasks -> run, NoRun, or a run that is gone
  caller,     \* where the caller of spawn / spawn_blocking of a task stands
  answer,     \* the status a blocking caller was answered with
  pausing,    \* pause_root fired, per executor
  cancelled,  \* cancel root fired, per executor
  shut,       \* progress of each shutdown() call, per executor
  boot,       \* progress of resume_paused, per executor
  selected,   \* the paused tasks this executor's scan selected
  pending,    \* those the scan has not processed yet
  current,    \* the one it is processing, or NoTask
  boots,      \* process starts so far
  faults      \* store errors so far

(* Observability variables: they record history and guard no action. *)
VARIABLES
  stamped,    \* tasks whose live run accepted the StopPattern stamp
  accepted,   \* tasks whose cancel() returned true before the verdict
  hits        \* involuntary interruptions of each task

store   == <<row, faults>>
control == <<pausing, cancelled, shut>>
scan    == <<boot, selected, pending, current>>
ghost   == <<stamped, accepted, hits>>
vars == <<row, run, handles, caller, answer, control, scan, boots, faults, ghost>>

------------------------------------------------------------------------------
(* State *)

RunPhases == {"free", "spawning", "claiming", "stored", "handled", "drain",
              "cancelling", "decided", "persisted"}

(* The permit is held in every phase but "free"; the JoinSet holds the last *)
(* four; a kernel run is live in "drain" and "cancelling".                  *)
JoinedPhases == {"drain", "cancelling", "decided", "persisted"}
LivePhases   == {"drain", "cancelling"}

Verdicts == [status : {"done", "failed", "paused"}, cause : Causes, error : Errors]

Done          == [status |-> "done", cause |-> "none", error |-> "none"]
Failed(error) == [status |-> "failed", cause |-> "none", error |-> error]
Paused(cause) == [status |-> "paused", cause |-> cause, error |-> "none"]

RunState == [task : Tasks \cup {NoTask},
             phase : RunPhases,
             origin : {"spawn", "blocking", "resume"},  \* who started it;
                                            \* "blocking" carries a waiter's sender
             fired : BOOLEAN,               \* its own cancel token fired
             reason : {"unset", "stop", "shutdown"},
             verdict : Verdicts,
             set : Calls \cup {"live"}]     \* the JoinSet that holds it

FreeRun == [task |-> NoTask, phase |-> "free", origin |-> "spawn", fired |-> FALSE,
            reason |-> "unset", verdict |-> Done, set |-> "live"]

TypeOK ==
  /\ row \in [Tasks -> Row]
  /\ run \in [Runs -> RunState]
  /\ handles \in [Tasks -> Runs \cup {NoRun, StaleRun}]
  /\ caller \in [Tasks -> {"idle", "queued", "launching", "waiting",
                           "expired", "polling", "overdue", "gone"}]
  /\ answer \in [Tasks -> {"none"} \cup Statuses]
  /\ pausing \in [Executors -> BOOLEAN]
  /\ cancelled \in [Executors -> BOOLEAN]
  /\ shut \in [Executors -> [Calls -> {"idle", "firing", "draining", "forcing",
                                       "returned", "aborted"}]]
  /\ boot \in [Executors -> {"idle", "adopted", "resuming", "done"}]
  /\ selected \in [Executors -> SUBSET Tasks]
  /\ pending \in [Executors -> SUBSET Tasks]
  /\ current \in [Executors -> Tasks \cup {NoTask}]
  /\ boots \in Nat
  /\ faults \in Nat
  /\ stamped \in SUBSET Tasks
  /\ accepted \in SUBSET Tasks
  /\ hits \in [Tasks -> Nat]

Init ==
  /\ row = [t \in Tasks |-> IF t \in Legacy THEN FreshRow ELSE AbsentRow]
  /\ run = [r \in Runs |-> FreeRun]
  /\ handles = [t \in Tasks |-> NoRun]
  /\ caller = [t \in Tasks |-> IF t \in Legacy THEN "gone" ELSE "idle"]
  /\ answer = [t \in Tasks |-> "none"]
  /\ pausing = [e \in Executors |-> FALSE]
  /\ cancelled = [e \in Executors |-> FALSE]
  /\ shut = [e \in Executors |-> [c \in Calls |-> "idle"]]
  /\ boot = [e \in Executors |-> "idle"]
  /\ selected = [e \in Executors |-> {}]
  /\ pending = [e \in Executors |-> {}]
  /\ current = [e \in Executors |-> NoTask]
  /\ boots = 1
  /\ faults = 0
  /\ stamped = {}
  /\ accepted = {}
  /\ hits = [t \in Tasks |-> IF t \in Legacy THEN 1 ELSE 0]

------------------------------------------------------------------------------
(* Derived state *)

Exec(r) == AgentOf[run[r].task]

Held(e) == {r \in Runs : run[r].phase # "free" /\ Exec(r) = e}

PermitFree(e) == Cardinality(Held(e)) < MaxParallel

(* The child cancel token of a run: fired itself, or through the root. *)
IsCancelled(r) == run[r].fired \/ cancelled[Exec(r)]

(* acquire_spawn_permit fails at once: shutting down, or no permit exists.  *)
Stopping(e) == pausing[e] \/ cancelled[e] \/ MaxParallel = 0

(* A kernel run inside the task tool: it reaches no turn or tool boundary   *)
(* until the tool call returns.                                             *)
InToolCall(r) ==
  \E t \in Tasks : ParentOf[t] = run[r].task /\ caller[t] \notin {"idle", "gone"}

(* Mutant: the host accepts spawns while resume_paused still runs. *)
Booted_NotAwaited == TRUE

Booted == \A e \in Executors : boot[e] = "done"

StoreFault ==
  /\ faults < MaxFaults
  /\ faults' = faults + 1

Release(r) == run' = [run EXCEPT ![r] = FreeRun]

------------------------------------------------------------------------------
(* Spawning *)

(* A caller asks for a task: a client at any time, a task from inside the   *)
(* task tool of its live run.                                               *)
Request(t) ==
  /\ row[t].status = "absent"
  /\ caller[t] = "idle"
  /\ BootFirst => Booted
  /\ ParentOf[t] # NoTask =>
       \E r \in Runs : /\ run[r].task = ParentOf[t]
                       /\ run[r].phase = "drain"
                       /\ ~IsCancelled(r)
                       /\ ~InToolCall(r)
  /\ caller' = [caller EXCEPT ![t] = "queued"]
  /\ UNCHANGED <<store, run, handles, answer, control, scan, boots, ghost>>

(* acquire_spawn_permit: the biased select prefers the shutdown signals. *)
RejectSpawn(t) ==
  /\ caller[t] = "queued"
  /\ Stopping(AgentOf[t])
  /\ caller' = [caller EXCEPT ![t] = "gone"]
  /\ UNCHANGED <<store, run, handles, answer, control, scan, boots, ghost>>

AcquirePermit(t, r) ==
  /\ caller[t] = "queued"
  /\ ~Stopping(AgentOf[t])
  /\ PermitFree(AgentOf[t])
  /\ run[r].phase = "free"
  /\ run' = [run EXCEPT ![r] = [FreeRun EXCEPT !.task = t, !.phase = "spawning",
                 !.origin = IF t \in Blocking THEN "blocking" ELSE "spawn"]]
  /\ caller' = [caller EXCEPT ![t] = "launching"]
  /\ UNCHANGED <<store, handles, answer, control, scan, boots, ghost>>

InsertRow(r) ==
  /\ run[r].phase = "spawning"
  /\ row' = [row EXCEPT ![run[r].task] = FreshRow]
  /\ run' = [run EXCEPT ![r].phase = "stored"]
  /\ UNCHANGED <<handles, caller, answer, control, scan, boots, faults, ghost>>

InsertFails(r) ==
  /\ run[r].phase = "spawning"
  /\ StoreFault
  /\ Release(r)
  /\ caller' = [caller EXCEPT ![run[r].task] = "gone"]
  /\ UNCHANGED <<row, handles, answer, control, scan, boots, ghost>>

(* launch_run, first lock: the handle replaces any the task already had. *)
RegisterHandle(r) ==
  /\ run[r].phase = "stored"
  /\ handles' = [handles EXCEPT ![run[r].task] = r]
  /\ run' = [run EXCEPT ![r].phase = "handled"]
  /\ UNCHANGED <<store, caller, answer, control, scan, boots, ghost>>

(* launch_run, second lock: the run joins the JoinSet the executor has now, *)
(* and the spawn call or the resume scan moves on.                          *)
JoinTask(r) ==
  LET t == run[r].task IN
  /\ run[r].phase = "handled"
  /\ run' = [run EXCEPT ![r].phase = "drain"]
  /\ \/ /\ run[r].origin = "resume"
        /\ current' = [current EXCEPT ![AgentOf[t]] = NoTask]
        /\ UNCHANGED caller
     \/ /\ run[r].origin # "resume"
        /\ caller' = [caller EXCEPT ![t] = IF t \in Blocking THEN "waiting" ELSE "gone"]
        /\ UNCHANGED current
  /\ UNCHANGED <<store, handles, answer, control, boot, selected, pending, boots, ghost>>

(* The spawn future is dropped: the kernel run it is a tool call of has     *)
(* ended, or its client went away.  A run not yet in the JoinSet goes with  *)
(* it, whatever it already wrote; a run in the JoinSet does not.            *)
CallerAbandoned(t) ==
  /\ ParentOf[t] # NoTask
  /\ ~\E r \in Runs : /\ run[r].task = ParentOf[t]
                      /\ run[r].phase = "drain"
                      /\ ~IsCancelled(r)

DropCaller(t) ==
  /\ caller[t] \notin {"idle", "gone"}
  /\ CallerAbandoned(t) \/ (CallersMayDrop /\ ParentOf[t] = NoTask)
  /\ caller' = [caller EXCEPT ![t] = "gone"]
  /\ LET launching == {r \in Runs : /\ caller[t] = "launching"
                                    /\ run[r].task = t
                                    /\ run[r].origin # "resume"
                                    /\ run[r].phase \in {"spawning", "stored", "handled"}}
     IN /\ run' = [r \in Runs |-> IF r \in launching THEN FreeRun ELSE run[r]]
        /\ handles' = [handles EXCEPT ![t] = IF @ \in launching THEN StaleRun ELSE @]
  /\ UNCHANGED <<store, answer, control, scan, boots, ghost>>

------------------------------------------------------------------------------
(* Driving a run *)

(* Mutant: a pause at a boundary wins over the user's cancel. *)
Classify_PauseWins(outcome, pauseRequested, reason) ==
  CASE outcome = "paused" -> Paused("shutdown")
    [] outcome = "timed_out" -> Failed("timed_out")
    [] outcome = "cancelled" ->
         IF pauseRequested /\ reason # "stop" THEN Paused("forced") ELSE Failed("cancelled")
    [] outcome = "error" -> Failed("run_error")
    [] outcome = "closed" -> Failed("no_final")
    [] outcome = "final" -> Done

(* classify_outcome *)
Classify(outcome, pauseRequested, reason) ==
  CASE outcome = "paused" ->
         IF reason = "stop" THEN Failed("cancelled") ELSE Paused("shutdown")
    [] outcome = "timed_out" -> Failed("timed_out")
    [] outcome = "cancelled" ->
         IF pauseRequested /\ reason # "stop" THEN Paused("forced") ELSE Failed("cancelled")
    [] outcome = "error" -> Failed("run_error")
    [] outcome = "closed" -> Failed("no_final")
    [] outcome = "final" -> Done

(* The drain has its outcome; the verdict is taken in the same poll. *)
Decide(r, outcome) ==
  /\ run' = [run EXCEPT ![r].phase = "decided",
                        ![r].verdict = Classify(outcome, pausing[Exec(r)], run[r].reason)]
  /\ UNCHANGED <<store, handles, caller, answer, control, scan, boots, ghost>>

(* Outcomes a kernel run reaches by itself.  It pauses, finishes or errs    *)
(* only at a boundary, outside any tool call.                               *)
Reachable(r, outcome) ==
  /\ ~InToolCall(r)
  /\ outcome = "paused" => pausing[Exec(r)]

DrainEnds(r, outcome) ==
  /\ run[r].phase = "drain"
  /\ ~IsCancelled(r)
  /\ outcome \in {"final", "paused", "error", "closed"}
  /\ Reachable(r, outcome)
  /\ Decide(r, outcome)

ObserveCancel(r) ==
  /\ run[r].phase = "drain"
  /\ IsCancelled(r)
  /\ run' = [run EXCEPT ![r].phase = "cancelling"]
  /\ UNCHANGED <<store, handles, caller, answer, control, scan, boots, ghost>>

(* normalize_after_cancel: a final text or a pause reached within the grace *)
(* stands; anything else, and a grace that elapses, is a cancellation.      *)
CancelDrainEnds(r, outcome) ==
  /\ run[r].phase = "cancelling"
  /\ outcome \in {"final", "paused", "cancelled"}
  /\ outcome # "cancelled" => Reachable(r, outcome)
  /\ Decide(r, outcome)

(* Mutant: the row is finished before the drain has ended. *)
TimeoutFires_FinishesFirst(r) ==
  /\ run[r].phase = "drain"
  /\ ~IsCancelled(r)
  /\ row' = [row EXCEPT ![run[r].task] = Finished(@, "failed", "timed_out")]
  /\ run' = [run EXCEPT ![r].phase = "cancelling", ![r].fired = TRUE]
  /\ UNCHANGED <<handles, caller, answer, control, scan, boots, faults, ghost>>

(* timeout_drain fires the run's own token, then drains for at most the      *)
(* shutdown grace: the outcome is the timeout whatever the drain still      *)
(* produced, so the run counts as decided from here on.  That the row is    *)
(* written only after the grace is covered by a Persist that comes late.    *)
TimeoutFires(r) ==
  /\ run[r].phase = "drain"
  /\ ~IsCancelled(r)
  /\ run' = [run EXCEPT ![r].phase = "decided",
                        ![r].fired = TRUE,
                        ![r].verdict = Classify("timed_out", pausing[Exec(r)], run[r].reason)]
  /\ UNCHANGED <<store, handles, caller, answer, control, scan, boots, ghost>>

Forced(verdict) == verdict.status = "paused" /\ verdict.cause = "forced"

(* Mutant: a forced pause is left unwritten. *)
Written_ForcedLost(w, verdict) ==
  IF Forced(verdict) THEN w
  ELSE IF verdict.status = "paused" THEN PausedRow(w, verdict.cause)
  ELSE Finished(w, verdict.status, verdict.error)

(* pause_task is a compare-and-swap, finalize_task is not. *)
Written(w, verdict) ==
  IF verdict.status = "paused" THEN PausedRow(w, verdict.cause)
  ELSE Finished(w, verdict.status, verdict.error)

Persist(r) ==
  LET t == run[r].task IN
  /\ run[r].phase = "decided"
  /\ row' = [row EXCEPT ![t] = Written(@, run[r].verdict)]
  /\ run' = [run EXCEPT ![r].phase = "persisted"]
  /\ hits' = [hits EXCEPT ![t] =
                IF Forced(run[r].verdict) /\ row[t].status = "running" THEN @ + 1 ELSE @]
  /\ UNCHANGED <<handles, caller, answer, control, scan, boots, faults, stamped, accepted>>

(* The write failed: it is logged and the run goes on to retire. *)
PersistFails(r) ==
  /\ run[r].phase = "decided"
  /\ StoreFault
  /\ run' = [run EXCEPT ![r].phase = "persisted"]
  /\ UNCHANGED <<row, handles, caller, answer, control, scan, boots, ghost>>

(* Mutant: the permit of a resumed run is not given back. *)
Retire_ResumedKeepsPermit(r) ==
  LET t == run[r].task
      signals == run[r].origin = "blocking" /\ caller[t] = "waiting"
  IN
  /\ run[r].phase = "persisted"
  /\ IF run[r].origin = "resume" THEN run' = [run EXCEPT ![r].phase = "spent"] ELSE Release(r)
  /\ handles' = [handles EXCEPT ![t] = NoRun]
  /\ caller' = [caller EXCEPT ![t] = IF signals THEN "gone" ELSE @]
  /\ answer' = [answer EXCEPT ![t] = IF signals THEN row[t].status ELSE @]
  /\ UNCHANGED <<store, control, scan, boots, ghost>>

(* signal_completion hands the row to a blocking waiter that still waits,   *)
(* the task id's handle is removed, and the permit is released.             *)
Retire(r) ==
  LET t == run[r].task
      signals == run[r].origin = "blocking" /\ caller[t] = "waiting"
  IN
  /\ run[r].phase = "persisted"
  /\ Release(r)
  /\ handles' = [handles EXCEPT ![t] = NoRun]
  /\ caller' = [caller EXCEPT ![t] = IF signals THEN "gone" ELSE @]
  /\ answer' = [answer EXCEPT ![t] = IF signals THEN row[t].status ELSE @]
  /\ UNCHANGED <<store, control, scan, boots, ghost>>

------------------------------------------------------------------------------
(* Cancelling, and waiting for a blocking task *)

(* do_cancel: remove the handle, stamp the user's intent unless an earlier  *)
(* reason is there, fire the token.                                         *)
DoCancel(t) ==
  /\ handles' = [handles EXCEPT ![t] = NoRun]
  /\ IF handles[t] \in Runs
     THEN LET r == handles[t] IN
          /\ run' = [run EXCEPT ![r].fired = TRUE,
                                ![r].reason = IF @ = "unset" THEN "stop" ELSE @]
          /\ stamped' = IF run[r].reason = "unset" /\ run[r].phase \in LivePhases \cup {"handled"}
                        THEN stamped \cup {t} ELSE stamped
     ELSE UNCHANGED <<run, stamped>>

(* cancel() called by a user: it returns true when there was a handle. *)
UserCancel(t) ==
  /\ handles[t] # NoRun
  /\ DoCancel(t)
  /\ accepted' = IF handles[t] \in Runs /\ run[handles[t]].phase \in LivePhases \cup {"handled"}
                 THEN accepted \cup {t} ELSE accepted
  /\ UNCHANGED <<store, caller, answer, control, scan, boots, hits>>

WaitTimesOut(t) ==
  /\ caller[t] = "waiting"
  /\ caller' = [caller EXCEPT ![t] = "expired"]
  /\ UNCHANGED <<store, run, handles, answer, control, scan, boots, ghost>>

Answer(t) ==
  /\ caller' = [caller EXCEPT ![t] = "gone"]
  /\ answer' = [answer EXCEPT ![t] = row[t].status]

(* load_after_timeout: a row that already left Running is the answer;       *)
(* otherwise the task is cancelled and polled.                              *)
LoadAfterTimeout(t) ==
  /\ caller[t] = "expired"
  /\ \/ /\ row[t].status # "running"
        /\ Answer(t)
        /\ UNCHANGED <<run, handles, ghost>>
     \/ /\ row[t].status = "running"
        /\ DoCancel(t)
        /\ caller' = [caller EXCEPT ![t] = "polling"]
        /\ UNCHANGED <<answer, accepted, hits>>
  /\ UNCHANGED <<store, control, scan, boots>>

(* Mutants: a row still Running at the deadline is the answer; or there is  *)
(* no deadline.                                                             *)
PollReturns_AnswersRunning(t) ==
  /\ caller[t] = "polling"
  /\ Answer(t)
  /\ UNCHANGED <<store, run, handles, control, scan, boots, ghost>>

PollReturns_NoDeadline(t) ==
  /\ caller[t] = "polling"
  /\ row[t].status # "running"
  /\ Answer(t)
  /\ UNCHANGED <<store, run, handles, control, scan, boots, ghost>>

(* wait_for_cancelled_task returns a row that left Running, or, at its      *)
(* deadline, one that did not.  Running or cancelled leads to a finish.     *)
PollReturns(t) ==
  /\ caller[t] = "polling"
  /\ IF row[t].status = "running" \/ row[t].error = "cancelled"
     THEN /\ caller' = [caller EXCEPT ![t] = "overdue"]
          /\ UNCHANGED answer
     ELSE Answer(t)
  /\ UNCHANGED <<store, run, handles, control, scan, boots, ghost>>

(* The unconditional finish(Failed, "task timed out"), and the reload. *)
FinishOverdue(t) ==
  /\ caller[t] = "overdue"
  /\ row' = [row EXCEPT ![t] = Finished(@, "failed", "timed_out")]
  /\ caller' = [caller EXCEPT ![t] = "gone"]
  /\ answer' = [answer EXCEPT ![t] = "failed"]
  /\ UNCHANGED <<run, handles, control, scan, boots, faults, ghost>>

(* The sender went away with its run: the waiter loads the row itself. *)
WaiterLosesSender(t) ==
  /\ caller[t] = "waiting"
  /\ ~\E r \in Runs : run[r].task = t /\ run[r].origin = "blocking"
  /\ Answer(t)
  /\ UNCHANGED <<store, run, handles, control, scan, boots, ghost>>

------------------------------------------------------------------------------
(* Resuming after a restart *)

(* resume_paused: adoption folds every Running row of the shared store,     *)
(* whichever executor it belongs to.  A host boots its executors in turn.   *)
AdoptOrphans(e) ==
  /\ boot[e] = "idle"
  /\ \A d \in Executors : boot[d] \in {"idle", "done"}
  /\ row' = [t \in Tasks |-> FoldedRow(row[t])]
  /\ boot' = [boot EXCEPT ![e] = "adopted"]
  /\ UNCHANGED <<run, handles, caller, answer, control, selected, pending, current,
                 boots, faults, ghost>>

(* scan_paused, and the resolver's selection. *)
ScanPaused(e) ==
  /\ boot[e] = "adopted"
  /\ boot' = [boot EXCEPT ![e] = "resuming"]
  /\ \E found \in {{t \in Tasks : row[t].status = "paused" /\ AgentOf[t] = e}} :
       /\ selected' = [selected EXCEPT ![e] = found]
       /\ pending' = [pending EXCEPT ![e] = found]
  /\ UNCHANGED <<store, run, handles, caller, answer, control, current, boots, ghost>>

(* A store error in adoption or scan ends the call. *)
ResumeFails(e) ==
  /\ boot[e] \in {"idle", "adopted"}
  /\ \A d \in Executors \ {e} : boot[d] \in {"idle", "done"}
  /\ StoreFault
  /\ boot' = [boot EXCEPT ![e] = "done"]
  /\ UNCHANGED <<row, run, handles, caller, answer, control, selected, pending, current,
                 boots, ghost>>

(* tree_depth: parent links followed from a task while they stay inside the *)
(* selected set, at most MaxDepthWalk of them.                              *)
MaxDepthWalk == 16

(* Mutant: no order. *)
TreeDepth_Flat(sel, t) == 0

(* The task n links up from t, while the links stay within sel. *)
AncestorWalk(sel, t) ==
  LET walk[n \in 0 .. MaxDepthWalk] ==
        IF n = 0 THEN t
        ELSE IF walk[n - 1] \in sel THEN ParentOf[walk[n - 1]] ELSE NoTask
  IN walk

TreeDepth(sel, t) ==
  Cardinality({n \in 1 .. MaxDepthWalk : AncestorWalk(sel, t)[n] # NoTask})

(* order_children_first: deepest tasks first, ties in either order. *)
PickResume(e, t) ==
  /\ boot[e] = "resuming"
  /\ current[e] = NoTask
  /\ t \in pending[e]
  /\ \A u \in pending[e] : TreeDepth(selected[e], u) <= TreeDepth(selected[e], t)
  /\ current' = [current EXCEPT ![e] = t]
  /\ pending' = [pending EXCEPT ![e] = @ \ {t}]
  /\ UNCHANGED <<store, run, handles, caller, answer, control, boot, selected, boots, ghost>>

ScanDone(e) ==
  /\ boot[e] = "resuming"
  /\ current[e] = NoTask
  /\ pending[e] = {}
  /\ boot' = [boot EXCEPT ![e] = "done"]
  /\ UNCHANGED <<store, run, handles, caller, answer, control, selected, pending, current,
                 boots, ghost>>

(* The run slot the scan works through for its current task, if any. *)
ResumeRuns(e) ==
  {r \in Runs : /\ run[r].task = current[e]
                /\ run[r].origin = "resume"
                /\ run[r].phase \in {"claiming", "stored", "handled"}}

Skip(e) == current' = [current EXCEPT ![e] = NoTask]

(* A row without a usable resume spec is claimed, then finished as failed.  *)
ClaimLegacy(e) ==
  LET t == current[e] IN
  /\ t \in Legacy
  /\ row[t].status # "running"
  /\ IF Claimable(row[t], MaxResumes)
     THEN /\ row' = [row EXCEPT ![t] = ClaimedRow(@)]
          /\ UNCHANGED current
     ELSE /\ Skip(e)
          /\ UNCHANGED row
  /\ UNCHANGED <<run, handles, caller, answer, control, boot, selected, pending,
                 boots, faults, ghost>>

FinishLegacy(e) ==
  LET t == current[e] IN
  /\ t \in Legacy
  /\ row[t].status = "running"
  /\ row' = [row EXCEPT ![t] = Finished(@, "failed", "not_resumable")]
  /\ Skip(e)
  /\ UNCHANGED <<run, handles, caller, answer, control, boot, selected, pending,
                 boots, faults, ghost>>

LegacyFails(e) ==
  /\ current[e] \in Legacy
  /\ StoreFault
  /\ Skip(e)
  /\ UNCHANGED <<row, run, handles, caller, answer, control, boot, selected, pending,
                 boots, ghost>>

(* The permit comes before the claim, and shutdown rejects it. *)
RejectResume(e) ==
  /\ current[e] \in Tasks \ Legacy
  /\ ResumeRuns(e) = {}
  /\ Stopping(e)
  /\ Skip(e)
  /\ UNCHANGED <<store, run, handles, caller, answer, control, boot, selected, pending,
                 boots, ghost>>

ResumePermit(e, r) ==
  /\ current[e] \in Tasks \ Legacy
  /\ ResumeRuns(e) = {}
  /\ ~Stopping(e)
  /\ PermitFree(e)
  /\ run[r].phase = "free"
  /\ run' = [run EXCEPT ![r] = [FreeRun EXCEPT !.task = current[e], !.phase = "claiming",
                                               !.origin = "resume"]]
  /\ UNCHANGED <<store, handles, caller, answer, control, scan, boots, ghost>>

Claim(r) ==
  LET t == run[r].task IN
  /\ run[r].phase = "claiming"
  /\ Claimable(row[t], MaxResumes)
  /\ row' = [row EXCEPT ![t] = ClaimedRow(@)]
  /\ run' = [run EXCEPT ![r].phase = "stored"]
  /\ UNCHANGED <<handles, caller, answer, control, scan, boots, faults, ghost>>

(* fail_when_cap_exhausted: of the rejected claims only the spent cap acts. *)
ClaimRejected(r) ==
  LET t == run[r].task IN
  /\ run[r].phase = "claiming"
  /\ ~Claimable(row[t], MaxResumes)
  /\ row' = [row EXCEPT ![t] = IF CapExhausted(@, MaxResumes)
                               THEN Finished(@, "failed", "resume_limit") ELSE @]
  /\ Release(r)
  /\ Skip(AgentOf[t])
  /\ UNCHANGED <<handles, caller, answer, control, boot, selected, pending,
                 boots, faults, ghost>>

(* A store error in the claim, or after it in load_transcript or            *)
(* list_children: the scan skips the task; a claimed row stays Running.     *)
ResumeOneFails(r) ==
  /\ run[r].origin = "resume"
  /\ run[r].phase \in {"claiming", "stored"}
  /\ StoreFault
  /\ Release(r)
  /\ Skip(Exec(r))
  /\ UNCHANGED <<row, handles, caller, answer, control, boot, selected, pending,
                 boots, ghost>>

------------------------------------------------------------------------------
(* Shutdown, the sweeper, and restarts *)

Taken(e, c) == {r \in Runs : run[r].phase # "free" /\ Exec(r) = e /\ run[r].set = c}

Advance(e, c, from, to) ==
  /\ shut[e][c] = from
  /\ shut' = [shut EXCEPT ![e][c] = to]

FireRoot(e) == cancelled' = [cancelled EXCEPT ![e] = TRUE]

ShutdownFires(e, c) ==
  /\ Advance(e, c, "idle", "firing")
  /\ pausing' = [pausing EXCEPT ![e] = TRUE]
  /\ UNCHANGED <<store, run, handles, caller, answer, cancelled, scan, boots, ghost>>

(* mem::take of the JoinSet; an empty one cancels the root at once. *)
ShutdownTakes(e, c) ==
  LET live == {r \in Taken(e, "live") : run[r].phase \in JoinedPhases} IN
  /\ IF live = {}
     THEN Advance(e, c, "firing", "returned") /\ FireRoot(e)
     ELSE Advance(e, c, "firing", "draining") /\ UNCHANGED cancelled
  /\ run' = [r \in Runs |-> IF r \in live THEN [run[r] EXCEPT !.set = c] ELSE run[r]]
  /\ UNCHANGED <<store, handles, caller, answer, pausing, scan, boots, ghost>>

(* Mutant: runs that only end after the force-cancel are not joined. *)
ShutdownDrained_BeforeForce(e, c) ==
  /\ Taken(e, c) = {}
  /\ Advance(e, c, "draining", "returned")
  /\ FireRoot(e)
  /\ UNCHANGED <<store, run, handles, caller, answer, pausing, scan, boots, ghost>>

(* Every taken run has ended, before or after the force-cancel. *)
ShutdownDrained(e, c) ==
  /\ Taken(e, c) = {}
  /\ Advance(e, c, "draining", "returned") \/ Advance(e, c, "forcing", "returned")
  /\ FireRoot(e)
  /\ UNCHANGED <<store, run, handles, caller, answer, pausing, scan, boots, ghost>>

(* pause_grace elapsed: stamp Shutdown on every registered run that has no  *)
(* reason yet, then cancel the root.                                        *)
Registered(e) == {handles[t] : t \in {u \in Tasks : AgentOf[u] = e}} \cap Runs

(* Mutant: the rows of the stragglers are paused before they have ended. *)
ForceCancelStragglers_PausesRows(e, c) ==
  /\ Taken(e, c) # {}
  /\ Advance(e, c, "draining", "forcing")
  /\ row' = [t \in Tasks |-> IF \E r \in Taken(e, c) : run[r].task = t
                             THEN PausedRow(row[t], "forced") ELSE row[t]]
  /\ FireRoot(e)
  /\ UNCHANGED <<run, handles, caller, answer, pausing, scan, boots, faults, ghost>>

ForceCancelStragglers(e, c) ==
  /\ Taken(e, c) # {}
  /\ Advance(e, c, "draining", "forcing")
  /\ run' = [r \in Runs |-> IF r \in Registered(e) /\ run[r].reason = "unset"
                            THEN [run[r] EXCEPT !.reason = "shutdown"] ELSE run[r]]
  /\ FireRoot(e)
  /\ UNCHANGED <<store, handles, caller, answer, pausing, scan, boots, ghost>>

(* shutdown_grace elapsed: abort what is left; its rows stay Running. *)
ShutdownAborts(e, c) ==
  /\ Taken(e, c) # {}
  /\ Advance(e, c, "forcing", "aborted")
  /\ run' = [r \in Runs |-> IF r \in Taken(e, c) THEN FreeRun ELSE run[r]]
  /\ handles' = [t \in Tasks |-> IF handles[t] \in Taken(e, c) THEN StaleRun ELSE handles[t]]
  /\ UNCHANGED <<store, caller, answer, pausing, cancelled, scan, boots, ghost>>

(* recover_stuck, scheduled by the host once it has resumed: any Running    *)
(* row may have gone without a heartbeat for long enough.                   *)
RecoverStuck(stuck) ==
  /\ Sweeper
  /\ Booted
  /\ stuck # {}
  /\ \A t \in stuck : row[t].status = "running"
  /\ row' = [t \in Tasks |-> IF t \in stuck THEN SweptRow(row[t]) ELSE row[t]]
  /\ UNCHANGED <<run, handles, caller, answer, control, scan, boots, faults, ghost>>

(* The process ends, after every executor's shutdown or by dying, and the   *)
(* next one starts with nothing but the store.                              *)
CleanExit == \A e \in Executors : \E c \in Calls : shut[e][c] \in {"returned", "aborted"}

Restart ==
  /\ boots < MaxBoots
  /\ CrashAllowed \/ CleanExit
  /\ boots' = boots + 1
  /\ run' = [r \in Runs |-> FreeRun]
  /\ handles' = [t \in Tasks |-> NoRun]
  /\ caller' = [t \in Tasks |-> IF row[t].status = "absent" THEN "idle" ELSE "gone"]
  /\ pausing' = [e \in Executors |-> FALSE]
  /\ cancelled' = [e \in Executors |-> FALSE]
  /\ shut' = [e \in Executors |-> [c \in Calls |-> "idle"]]
  /\ boot' = [e \in Executors |-> "idle"]
  /\ selected' = [e \in Executors |-> {}]
  /\ pending' = [e \in Executors |-> {}]
  /\ current' = [e \in Executors |-> NoTask]
  /\ stamped' = {}
  /\ accepted' = {}
  /\ hits' = [t \in Tasks |-> IF row[t].status = "running" THEN hits[t] + 1 ELSE hits[t]]
  /\ answer' = [t \in Tasks |-> "none"]
  /\ UNCHANGED <<row, faults>>

------------------------------------------------------------------------------
(* Specification *)

CallerStep(t) ==
  \/ RejectSpawn(t)
  \/ \E r \in Runs : AcquirePermit(t, r)
  \/ LoadAfterTimeout(t)
  \/ PollReturns(t)
  \/ FinishOverdue(t)
  \/ WaiterLosesSender(t)

LaunchStep(r) == InsertRow(r) \/ RegisterHandle(r) \/ JoinTask(r)

DriveEnds(r) ==
  \E outcome \in {"final", "paused", "error", "closed", "cancelled"} :
    DrainEnds(r, outcome) \/ CancelDrainEnds(r, outcome)

DriveStep(r) == DriveEnds(r) \/ ObserveCancel(r) \/ TimeoutFires(r) \/ Persist(r) \/ Retire(r)

ResumeStep(e) ==
  \/ AdoptOrphans(e)
  \/ ScanPaused(e)
  \/ \E t \in Tasks : PickResume(e, t)
  \/ ClaimLegacy(e)
  \/ FinishLegacy(e)
  \/ RejectResume(e)
  \/ \E r \in Runs : ResumePermit(e, r)
  \/ ScanDone(e)

ClaimStep(r) == Claim(r) \/ ClaimRejected(r)

ShutdownStep(e, c) ==
  \/ ShutdownTakes(e, c)
  \/ ShutdownDrained(e, c)
  \/ ForceCancelStragglers(e, c)
  \/ ShutdownAborts(e, c)

Fault ==
  \/ \E r \in Runs : InsertFails(r) \/ PersistFails(r) \/ ResumeOneFails(r)
  \/ \E e \in Executors : ResumeFails(e) \/ LegacyFails(e)

(* What users, hosts and the environment do, whenever they like. *)
Environment ==
  \/ \E t \in Tasks : Request(t) \/ UserCancel(t) \/ DropCaller(t) \/ WaitTimesOut(t)
  \/ \E e \in Executors, c \in Calls : ShutdownFires(e, c)
  \/ \E stuck \in SUBSET Tasks : RecoverStuck(stuck)
  \/ Fault
  \/ Restart

Next ==
  \/ \E t \in Tasks : CallerStep(t)
  \/ \E r \in Runs : LaunchStep(r) \/ DriveStep(r) \/ ClaimStep(r)
  \/ \E e \in Executors : ResumeStep(e)
  \/ \E e \in Executors, c \in Calls : ShutdownStep(e, c)
  \/ Environment

Spec == Init /\ [][Next]_vars

(* What a run does if it does nothing better: of the ways its drain may end, *)
(* only the timeout and the grace after a cancel are sure to come.           *)
RunStep(r) ==
  \/ LaunchStep(r) \/ ClaimStep(r)
  \/ ObserveCancel(r) \/ CancelDrainEnds(r, "cancelled") \/ TimeoutFires(r)
  \/ Persist(r) \/ Retire(r)

(* Fairness: the runtime keeps polling every future it owns, timers fire,   *)
(* the store answers, and a dropped parent drops its tool call.  Nothing is *)
(* assumed of users, of the provider (a run may never end by itself), of    *)
(* faults or of restarts, nor of the order in which permits are granted.    *)
Fairness ==
  /\ \A t \in Tasks :
       /\ WF_vars(CallerStep(t))
       /\ WF_vars(WaitTimesOut(t))
       /\ WF_vars(CallerAbandoned(t) /\ DropCaller(t))
  /\ \A r \in Runs : WF_vars(RunStep(r))
  /\ \A e \in Executors :
       /\ WF_vars(ResumeStep(e))
       /\ \A c \in Calls : WF_vars(ShutdownStep(e, c))

FairSpec == Spec /\ Fairness

------------------------------------------------------------------------------
(* Safety properties *)

Executing(t) ==
  {r \in Runs : run[r].task = t /\ run[r].phase \in {"stored", "handled"} \cup LivePhases}

Aborted(e) == \E c \in Calls : shut[e][c] = "aborted"

(* No task is ever driven by two runs at once: spawn, resume_paused and the *)
(* claim between them start one run per task and process.                   *)
OneRunPerTask == \A t \in Tasks : Cardinality(Executing(t)) <= 1

(* A row is stored Paused only once its run has let go of the task, so a    *)
(* resume can never start beside the run that was paused (pause, claim).    *)
PausedRowsAreIdle == \A t \in Tasks : row[t].status = "paused" => Executing(t) = {}

(* Finished work is not executed: a terminal row has no run whose outcome   *)
(* is still open, except one its blocking caller gave up on.  A run that    *)
(* timed out is drained for its grace before its row is written.            *)
TerminalRowsAreIdle ==
  \A t \in Tasks \ Blocking : Terminal(row[t]) => Executing(t) = {}

(* With the store answering, a Running row always has a run behind it once  *)
(* the host has booted; only an aborted shutdown leaves one for the next    *)
(* boot (launch_run, drive_one_task, resume_one).                           *)
RunningRowsAreBacked ==
  \A t \in Tasks :
    (row[t].status = "running" /\ Booted /\ ~Aborted(AgentOf[t]) /\ faults = 0) =>
      \E r \in Runs : run[r].task = t /\ run[r].phase \in {"stored", "handled", "decided"} \cup LivePhases

(* Adoption folds rows of dead runs only: "a second adoption pass is an     *)
(* idempotent no-op" for the tasks another executor has just resumed        *)
(* (pause_orphans, resume_paused_with).                                     *)
AdoptionSparesLiveRuns ==
  [][\A t \in Tasks :
       Executing(t) # {} => ~(row[t].status = "running" /\ row'[t].cause = "crash")]_vars

(* A user cancel stamped before the outcome was classified ends the task:   *)
(* no shutdown, however it interleaves, stores that run Paused.             *)
StampedCancelIsFinal == \A t \in stamped : row[t].status # "paused"

(* The resume cap counts involuntary interruptions only: no clean pause     *)
(* ever spends one (claim_for_resume, pause).                               *)
OnlyInvoluntaryPausesCount == \A t \in Tasks : row[t].resumes <= hits[t]

(* A task fails with the resume limit only after more involuntary           *)
(* interruptions than the cap allows (fail_when_cap_exhausted).             *)
LimitFailsPoisonTasksOnly ==
  \A t \in Tasks : row[t].error = "resume_limit" => hits[t] > MaxResumes

(* A blocking caller is never handed the record of a task that still runs,  *)
(* unless the shutdown aborted it or the store lost its last write          *)
(* (signal_completion, load_after_timeout).                                 *)
BlockingAnswersAreSettled ==
  \A t \in Tasks : answer[t] = "running" => Aborted(AgentOf[t]) \/ faults > 0

(* The scan resumes children before their parents: while it works on a      *)
(* task no selected child of it is still waiting (order_children_first).    *)
ChildrenResumeFirst ==
  \A e \in Executors, t \in Tasks :
    (t \in pending[e] /\ ParentOf[t] # NoTask) => ParentOf[t] # current[e]

(* cancel() tells the caller true and the run has not been classified yet:  *)
(* the task must fail, a concurrent shutdown must not pause it.             *)
AcceptedCancelIsFinal == \A t \in accepted : row[t].status # "paused"

------------------------------------------------------------------------------
(* The abstract specification *)

Lifecycle == INSTANCE TaskLifecycle WITH
  status <- [t \in Tasks |-> row[t].status],
  active <- {t \in Tasks : Executing(t) # {}},
  Overridable <- IF Sweeper THEN Tasks ELSE Blocking

(* Every step of the executor is a step of the lifecycle each task is       *)
(* promised: spawn, drive, pause, shutdown, crash and resume together.      *)
ImplementsLifecycle == Lifecycle!Spec

------------------------------------------------------------------------------
(* Liveness properties, under Fairness *)

(* A caller of spawn or spawn_blocking always gets an answer: no wait for a *)
(* permit, a run or a cancelled run lasts for ever, nested tasks included.  *)
CallersReturn ==
  \A t \in Tasks : caller[t] # "idle" ~> caller[t] \in {"idle", "gone"}

(* A launched run settles its row, hung kernel or not: only an aborted      *)
(* shutdown, the end of the process or a failed last write leaves the row   *)
(* Running (run_with_timeout, drive_one_task).                              *)
RunningRowsSettle ==
  \A t \in Tasks :
    (row[t].status = "running" /\ \E r \in Runs : run[r].task = t /\ run[r].phase \in JoinedPhases) ~>
      (row[t].status # "running" \/ ~Booted \/ Aborted(AgentOf[t]) \/ faults > 0)

(* shutdown() always returns, hung tools and blocked parents or not. *)
ShutdownReturns ==
  \A e \in Executors, c \in Calls :
    shut[e][c] = "firing" ~> shut[e][c] \in {"returned", "aborted", "idle"}

(* resume_paused always returns, also when it waits for permits because it  *)
(* resumes more tasks than there are: each resumed run gives its permit     *)
(* back, hung kernel or not (resume_one, drive_one_task).                   *)
ResumeReturns == \A e \in Executors : boot[e] # "idle" ~> boot[e] \in {"done", "idle"}
==============================================================================
