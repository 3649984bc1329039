---------------------------- MODULE CronScheduler ----------------------------
(***************************************************************************)
(* crabgent-cron: schedulers that share one CronStore.                      *)
(*                                                                          *)
(* On each tick a scheduler claims the due jobs, most overdue first, and    *)
(* hands each to a worker if it has a permit left, or releases the claim.   *)
(* A worker drives one job: pre-processors, executor with a timeout,        *)
(* deliveries, then finish_claim, which frees the claim and moves next_run. *)
(* Users create, edit and delete jobs at any time through the cron tool.    *)
(* Workers are aborted when the shutdown grace elapses, and the process may *)
(* die; the claims of both stay in the store until a later start recovers   *)
(* the ones old enough.                                                     *)
(*                                                                          *)
(* Kept of a job's next_run: whether it has passed (due) and which due job  *)
(* has the earlier one.  Time is abstracted: a timer may fire whenever it   *)
(* is armed.  A failed claim_due changes nothing and is not an action.      *)
(***************************************************************************)
EXTENDS Naturals, FiniteSets

CONSTANTS
  Jobs,           \* cron job ids, never reused
  Schedulers,     \* the processes that share the store
  Workers,        \* worker slots: enough for every worker that can be live
  None,           \* no job, no scheduler
  MaxConcurrent,  \* max_concurrent
  ClaimLimit,     \* claim_limit
  LongRuns,       \* a job may be driven for longer than stuck_recover_secs
  CrashAllowed,   \* a process may die at any point
  MaxStarts,      \* bound: scheduler starts
  MaxEdits,       \* bound: updates through the cron tool
  MaxFaults       \* bound: store errors and worker panics

ASSUME CronAssumption ==
  /\ None \notin Jobs \cup Schedulers
  /\ {MaxConcurrent, ClaimLimit, MaxStarts, MaxEdits, MaxFaults} \subseteq Nat
  /\ {LongRuns, CrashAllowed} \subseteq BOOLEAN

VARIABLES
  job,        \* durable: the rows of cron_jobs
  due,        \* the jobs whose next_run has passed
  earlier,    \* <<k, j>>: both are due and k's next_run is the earlier one
  phase,      \* where the run loop of each scheduler stands
  cancelled,  \* the scheduler-owned token fired
  batch,      \* claimed jobs the current tick has not dispatched yet
  worker,     \* Workers -> WorkerState
  starts, edits, faults

(* Observability variables: they record history and guard no action. *)
VARIABLES
  fired,      \* deliveries of each job by runs claimed as run_once
  lost        \* such runs that delivered and then lost their claim unfinished

rows   == <<job, due, earlier>>
loop   == <<phase, cancelled, batch>>
bounds == <<starts, edits, faults>>
ghost  == <<fired, lost>>
vars   == <<rows, loop, worker, bounds, ghost>>

------------------------------------------------------------------------------
(* State *)

JobRow == [status : {"absent", "stored", "deleted"},
           enabled : BOOLEAN,
           runOnce : BOOLEAN,
           claimed : BOOLEAN]

(* What claim_due returns of a row: a copy, never read again. *)
Snapshot == [job : Jobs, runOnce : BOOLEAN]

WorkerPhases == {"free", "pre", "exec", "grace", "deliver", "finish", "ending"}

WorkerState == [sched : Schedulers \cup {None},
                job : Jobs \cup {None},
                runOnce : BOOLEAN,
                phase : WorkerPhases,
                ok : BOOLEAN]          \* CronExecResult::is_success

FreeWorker == [sched |-> None, job |-> None, runOnce |-> FALSE, phase |-> "free", ok |-> FALSE]

TypeOK ==
  /\ job \in [Jobs -> JobRow]
  /\ due \in SUBSET Jobs
  /\ earlier \in SUBSET (Jobs \X Jobs)
  /\ phase \in [Schedulers -> {"down", "ticking", "draining", "stopped"}]
  /\ cancelled \in [Schedulers -> BOOLEAN]
  /\ batch \in [Schedulers -> SUBSET Snapshot]
  /\ worker \in [Workers -> WorkerState]
  /\ {starts, edits, faults} \subseteq Nat
  /\ fired \in [Jobs -> Nat]
  /\ lost \in [Jobs -> Nat]

Init ==
  /\ job = [j \in Jobs |-> [status |-> "absent", enabled |-> FALSE,
                            runOnce |-> FALSE, claimed |-> FALSE]]
  /\ due = {}
  /\ earlier = {}
  /\ phase = [s \in Schedulers |-> "down"]
  /\ cancelled = [s \in Schedulers |-> FALSE]
  /\ batch = [s \in Schedulers |-> {}]
  /\ worker = [w \in Workers |-> FreeWorker]
  /\ starts = 0
  /\ edits = 0
  /\ faults = 0
  /\ fired = [j \in Jobs |-> 0]
  /\ lost = [j \in Jobs |-> 0]

------------------------------------------------------------------------------
(* Derived state *)

Stored(j) == job[j].status = "stored"

Live(s) == {w \in Workers : worker[w].phase # "free" /\ worker[w].sched = s}

PermitFree(s) == Cardinality(Live(s)) < MaxConcurrent

(* The workers that still have to finish their claim of a job. *)
DrivePhases == {"pre", "exec", "grace", "deliver", "finish"}

Driving(j) == {w \in Workers : worker[w].job = j /\ worker[w].phase \in DrivePhases}

InBatch(j) == \E s \in Schedulers : \E c \in batch[s] : c.job = j

Held(j) == InBatch(j) \/ Driving(j) # {}

(* The jobs without j's place in the order of next_run. *)
NotDue(j) ==
  /\ due' = due \ {j}
  /\ earlier' = {p \in earlier : p[1] # j /\ p[2] # j}

Fault ==
  /\ faults < MaxFaults
  /\ faults' = faults + 1

(* A run_once run that has delivered and not finished its claim yet. *)
Delivered(w) == worker[w].phase = "finish" /\ worker[w].ok /\ worker[w].runOnce

------------------------------------------------------------------------------
(* The cron tool and the clock *)

Create(j, enabled, once) ==
  /\ job[j].status = "absent"
  /\ job' = [job EXCEPT ![j] = [status |-> "stored", enabled |-> enabled,
                                runOnce |-> once, claimed |-> FALSE]]
  /\ UNCHANGED <<due, earlier, loop, worker, bounds, ghost>>

(* update(): the claim is left alone; a new schedule moves next_run.  The   *)
(* history starts again: the user has asked for another run.                *)
Update(j, enabled, once, reschedule) ==
  /\ Stored(j)
  /\ edits < MaxEdits
  /\ edits' = edits + 1
  /\ job' = [job EXCEPT ![j].enabled = enabled, ![j].runOnce = once]
  /\ IF reschedule THEN NotDue(j) ELSE UNCHANGED <<due, earlier>>
  /\ fired' = [fired EXCEPT ![j] = 0]
  /\ lost' = [lost EXCEPT ![j] = 0]
  /\ UNCHANGED <<loop, worker, starts, faults>>

Delete(j) ==
  /\ Stored(j)
  /\ job' = [job EXCEPT ![j] = [@ EXCEPT !.status = "deleted", !.claimed = FALSE]]
  /\ NotDue(j)
  /\ UNCHANGED <<loop, worker, bounds, ghost>>

(* The clock passes next_run: later than that of every job already due. *)
BecomesDue(j) ==
  /\ Stored(j)
  /\ j \notin due
  /\ due' = due \cup {j}
  /\ earlier' = earlier \cup (due \X {j})
  /\ UNCHANGED <<job, loop, worker, bounds, ghost>>

------------------------------------------------------------------------------
(* The run loop *)

Unclaimed(S) == [j \in Jobs |-> IF j \in S THEN [job[j] EXCEPT !.claimed = FALSE]
                                           ELSE job[j]]

(* Mutant: recovery at startup clears every claim, however young. *)
Start_RecoversAll(s, stuck) ==
  /\ phase[s] = "down"
  /\ starts < MaxStarts
  /\ starts' = starts + 1
  /\ job' = Unclaimed(Jobs)
  /\ phase' = [phase EXCEPT ![s] = "ticking"]
  /\ UNCHANGED <<due, earlier, cancelled, batch, worker, edits, faults, ghost>>

(* recover_stuck_at_startup clears the claims old enough, whoever holds     *)
(* them: a held claim gets that old only when runs may be that long.  A     *)
(* store error recovers none.                                               *)
Start(s, stuck) ==
  /\ phase[s] = "down"
  /\ starts < MaxStarts
  /\ starts' = starts + 1
  /\ \A j \in stuck : job[j].claimed /\ (Held(j) => LongRuns)
  /\ job' = Unclaimed(stuck)
  /\ phase' = [phase EXCEPT ![s] = "ticking"]
  /\ UNCHANGED <<due, earlier, cancelled, batch, worker, edits, faults, ghost>>

(* Mutant: claims ignored. *)
Eligible_IgnoresClaims == {j \in due : Stored(j) /\ job[j].enabled}

Eligible == {j \in due : Stored(j) /\ job[j].enabled /\ ~job[j].claimed}

(* ORDER BY next_run LIMIT: ties are broken either way. *)
MostOverdue(S, limit) ==
  {T \in SUBSET S :
     /\ Cardinality(T) = IF Cardinality(S) < limit THEN Cardinality(S) ELSE limit
     /\ \A j \in T, k \in S \ T : <<k, j>> \notin earlier}

(* claim_due: one statement.  The tick before it reaped finished workers.   *)
Tick(s) ==
  /\ phase[s] = "ticking"
  /\ batch[s] = {}
  /\ Eligible # {}
  /\ \E T \in MostOverdue(Eligible, ClaimLimit) :
       /\ batch' = [batch EXCEPT ![s] = {[job |-> j, runOnce |-> job[j].runOnce] : j \in T}]
       /\ job' = [j \in Jobs |-> IF j \in T THEN [job[j] EXCEPT !.claimed = TRUE] ELSE job[j]]
  /\ UNCHANGED <<due, earlier, phase, cancelled, worker, bounds, ghost>>

(* Mutant: dispatched in any order. *)
NextInBatch_AnyOrder(s) == batch[s]

(* The batch is dispatched in the order it was claimed in: that of next_run *)
(* in the memory store, which sorts what it claims.                         *)
NextInBatch(s) ==
  {c \in batch[s] : \A d \in batch[s] : <<d.job, c.job>> \notin earlier}

(* spawn_or_release_job: a permit is tried for, not waited for. *)
SpawnJob(s, w) ==
  /\ PermitFree(s)
  /\ worker[w].phase = "free"
  /\ \E c \in NextInBatch(s) :
       /\ batch' = [batch EXCEPT ![s] = @ \ {c}]
       /\ worker' = [worker EXCEPT ![w] = [sched |-> s, job |-> c.job, runOnce |-> c.runOnce,
                                           phase |-> "pre", ok |-> FALSE]]
  /\ UNCHANGED <<rows, phase, cancelled, bounds, ghost>>

ReleaseUnclaimed(s) ==
  /\ ~PermitFree(s)
  /\ \E c \in NextInBatch(s) :
       /\ batch' = [batch EXCEPT ![s] = @ \ {c}]
       /\ job' = Unclaimed({c.job})
  /\ UNCHANGED <<due, earlier, phase, cancelled, worker, bounds, ghost>>

ReleaseFails(s) ==
  /\ ~PermitFree(s)
  /\ Fault
  /\ \E c \in NextInBatch(s) : batch' = [batch EXCEPT ![s] = @ \ {c}]
  /\ UNCHANGED <<rows, phase, cancelled, worker, starts, edits, ghost>>

(* run_loop_step sees the external cancel, which it bridges into the        *)
(* scheduler's own token, or that token itself, and leaves for drain_jobs.  *)
StopLoop(s) ==
  /\ phase[s] = "ticking"
  /\ batch[s] = {}
  /\ phase' = [phase EXCEPT ![s] = "draining"]
  /\ cancelled' = [cancelled EXCEPT ![s] = TRUE]
  /\ UNCHANGED <<rows, batch, worker, bounds, ghost>>

(* shutdown() fires the token while the loop is anywhere. *)
Shutdown(s) ==
  /\ phase[s] # "down"
  /\ cancelled' = [cancelled EXCEPT ![s] = TRUE]
  /\ UNCHANGED <<rows, phase, batch, worker, bounds, ghost>>

DrainDone(s) ==
  /\ phase[s] = "draining"
  /\ Live(s) = {}
  /\ phase' = [phase EXCEPT ![s] = "stopped"]
  /\ UNCHANGED <<rows, cancelled, batch, worker, bounds, ghost>>

------------------------------------------------------------------------------
(* A worker: drive_one_job *)

Becomes(w, p, ok) == worker' = [worker EXCEPT ![w].phase = p, ![w].ok = ok]

(* run_pre_processors: Skip, Deliver, or on to the executor. *)
PreProcess(w) ==
  /\ worker[w].phase = "pre"
  /\ \/ Becomes(w, "finish", FALSE)
     \/ Becomes(w, "deliver", TRUE)
     \/ Becomes(w, "exec", FALSE)
  /\ UNCHANGED <<rows, loop, bounds, ghost>>

ExecutorReturns(w, ok) ==
  /\ worker[w].phase = "exec"
  /\ Becomes(w, IF ok THEN "deliver" ELSE "finish", ok)
  /\ UNCHANGED <<rows, loop, bounds, ghost>>

(* The job timeout fires the job's token, or the scheduler's token has: the *)
(* executor may still drain, but its result is dropped.                     *)
ExecutorTimesOut(w) ==
  /\ worker[w].phase = "exec"
  /\ Becomes(w, "grace", FALSE)
  /\ UNCHANGED <<rows, loop, bounds, ghost>>

ExecutorCancelled(w) ==
  /\ worker[w].phase = "exec"
  /\ cancelled[worker[w].sched]
  /\ Becomes(w, "grace", FALSE)
  /\ UNCHANGED <<rows, loop, bounds, ghost>>

GraceEnds(w) ==
  /\ worker[w].phase = "grace"
  /\ Becomes(w, "finish", FALSE)
  /\ UNCHANGED <<rows, loop, bounds, ghost>>

(* dispatch_deliveries: a delivery that fails is logged and the result      *)
(* stands; a job with no delivery target turns it into an error.            *)
Deliver(w) ==
  /\ worker[w].phase = "deliver"
  /\ Becomes(w, "finish", TRUE)
  /\ fired' = IF worker[w].runOnce THEN [fired EXCEPT ![worker[w].job] = @ + 1] ELSE fired
  /\ UNCHANGED <<rows, loop, bounds, lost>>

DeliveryRejected(w) ==
  /\ worker[w].phase = "deliver"
  /\ Becomes(w, "finish", FALSE)
  /\ UNCHANGED <<rows, loop, bounds, ghost>>

(* Mutant: a run_once job stays enabled. *)
Disables_Never(w) == FALSE

(* advance_schedule: disable if the snapshot was run_once and succeeded. *)
Disables(w) == worker[w].runOnce /\ worker[w].ok

(* finish_claim: a row deleted meanwhile is no error; a row that is no      *)
(* longer run_once stays enabled.                                           *)
FinishedRow(x, disable) ==
  IF x.status # "stored" THEN x
  ELSE [x EXCEPT !.claimed = FALSE,
                 !.enabled = IF disable /\ x.runOnce THEN FALSE ELSE x.enabled]

FinishClaim(w) ==
  LET j == worker[w].job IN
  /\ worker[w].phase = "finish"
  /\ job' = [job EXCEPT ![j] = FinishedRow(@, Disables(w))]
  /\ NotDue(j)
  /\ Becomes(w, "ending", worker[w].ok)
  /\ UNCHANGED <<loop, bounds, ghost>>

(* The error is logged: the claim stays. *)
FinishFails(w) ==
  LET j == worker[w].job IN
  /\ worker[w].phase = "finish"
  /\ Fault
  /\ Becomes(w, "ending", worker[w].ok)
  /\ lost' = IF Delivered(w) THEN [lost EXCEPT ![j] = @ + 1] ELSE lost
  /\ UNCHANGED <<rows, loop, starts, edits, fired>>

(* The observers have heard of the end; the permit is released. *)
Retire(w) ==
  /\ worker[w].phase = "ending"
  /\ worker' = [worker EXCEPT ![w] = FreeWorker]
  /\ UNCHANGED <<rows, loop, bounds, ghost>>

------------------------------------------------------------------------------
(* Workers that do not end by themselves *)

(* The workers of S are gone, with whatever they had not written yet. *)
Drop(S) ==
  /\ worker' = [w \in Workers |-> IF w \in S THEN FreeWorker ELSE worker[w]]
  /\ lost' = [j \in Jobs |-> IF \E w \in S : worker[w].job = j /\ Delivered(w)
                             THEN lost[j] + 1 ELSE lost[j]]

(* A pre-processor, executor, observer or delivery panics. *)
WorkerPanics(w) ==
  /\ worker[w].phase # "free"
  /\ Fault
  /\ Drop({w})
  /\ UNCHANGED <<rows, loop, starts, edits, fired>>

(* Mutant: the grace never elapses. *)
AbortJobs_Never(s) == FALSE /\ UNCHANGED vars

(* The shutdown grace elapses: abort_all. *)
AbortJobs(s) ==
  /\ phase[s] = "draining"
  /\ Live(s) # {}
  /\ Drop(Live(s))
  /\ phase' = [phase EXCEPT ![s] = "stopped"]
  /\ UNCHANGED <<rows, cancelled, batch, bounds, fired>>

(* The process ends, stopped or not; a later one may take its place. *)
ProcessEnds(s) ==
  /\ phase[s] # "down"
  /\ CrashAllowed \/ phase[s] = "stopped"
  /\ Drop(Live(s))
  /\ phase' = [phase EXCEPT ![s] = "down"]
  /\ cancelled' = [cancelled EXCEPT ![s] = FALSE]
  /\ batch' = [batch EXCEPT ![s] = {}]
  /\ UNCHANGED <<rows, bounds, fired>>

------------------------------------------------------------------------------
(* Specification *)

LoopStep(s) ==
  \/ Tick(s)
  \/ \E w \in Workers : SpawnJob(s, w)
  \/ ReleaseUnclaimed(s)
  \/ DrainDone(s)
  \/ AbortJobs(s)

ExecutorStep(w) ==
  \/ \E ok \in BOOLEAN : ExecutorReturns(w, ok)
  \/ ExecutorTimesOut(w)
  \/ ExecutorCancelled(w)
  \/ GraceEnds(w)

PluginStep(w) == PreProcess(w) \/ Deliver(w) \/ DeliveryRejected(w)

EndStep(w) == FinishClaim(w) \/ Retire(w)

(* What users, hosts, the clock and the environment do, when they like. *)
Environment ==
  \/ \E j \in Jobs, enabled, once \in BOOLEAN : Create(j, enabled, once)
  \/ \E j \in Jobs, enabled, once, reschedule \in BOOLEAN : Update(j, enabled, once, reschedule)
  \/ \E j \in Jobs : Delete(j) \/ BecomesDue(j)
  \/ \E s \in Schedulers, stuck \in SUBSET Jobs : Start(s, stuck)
  \/ \E s \in Schedulers : StopLoop(s) \/ Shutdown(s) \/ ProcessEnds(s) \/ ReleaseFails(s)
  \/ \E w \in Workers : FinishFails(w) \/ WorkerPanics(w)

Next ==
  \/ \E s \in Schedulers : LoopStep(s)
  \/ \E w \in Workers : ExecutorStep(w) \/ PluginStep(w) \/ EndStep(w)
  \/ Environment

Spec == Init /\ [][Next]_vars

(* Fairness: the runtime polls the loop and the workers, the interval and   *)
(* the timers fire, the store answers.  Nothing is assumed of users, of the *)
(* clock or of the executor's own end: its timeout ends it.  A fired token  *)
(* stays ready while ticks come and go, so select! gets to it (strong       *)
(* fairness).                                                               *)
Fairness ==
  /\ \A s \in Schedulers :
       /\ WF_vars(LoopStep(s))
       /\ SF_vars(cancelled[s] /\ StopLoop(s))
  /\ \A w \in Workers :
       /\ WF_vars(ExecutorTimesOut(w) \/ ExecutorCancelled(w))
       /\ WF_vars(GraceEnds(w))
       /\ WF_vars(EndStep(w))

FairSpec == Spec /\ Fairness

------------------------------------------------------------------------------
(* Safety properties *)

(* A claim is exclusive: no job is driven by two workers at once, of one    *)
(* process or of two, as long as no run outlasts the recovery threshold     *)
(* (claim_due, finish_claim, release_claim_only, recover_stuck).            *)
OneWorkerPerJob == \A j \in Jobs : Cardinality(Driving(j)) <= 1

(* Whoever holds a job owns its claim in the store, to the last write: no   *)
(* release or recovery frees the claim of somebody else's run.              *)
HeldJobsAreClaimed == \A j \in Jobs : Held(j) /\ Stored(j) => job[j].claimed

(* A run_once job delivers once per request; every further delivery is paid *)
(* for by a run that delivered and could not finish its claim (crash, abort *)
(* or store error between deliver and finish_claim).                        *)
RunOnceDeliversOnce == \A j \in Jobs : fired[j] <= 1 + lost[j]

(* A job cancelled mid-run "must still have its claim finished and schedule *)
(* advanced": once the run loop has returned, no claim is left behind       *)
(* (drain_jobs, abort_jobs_after_grace).                                    *)
StoppedLeavesNoClaim ==
  (\A s \in Schedulers : phase[s] = "stopped") => \A j \in Jobs : ~job[j].claimed

------------------------------------------------------------------------------
(* The abstract specification *)

(* Whose hands a job is in: the batch of a scheduler, or a worker. *)
Holder(j) == {s \in Schedulers : \E c \in batch[s] : c.job = j} \cup Driving(j)

Lease == INSTANCE JobLease WITH
  claimed <- {j \in Jobs : job[j].claimed},
  holder <- [j \in Jobs |-> Holder(j)],
  withdrawn <- {j \in Jobs : job[j].status = "deleted"},
  Holders <- Schedulers \cup Workers

(* Ticks, workers, edits, faults, crashes and recoveries together treat a   *)
(* claim as a lease: whatever happens to a row happens to a job nobody else *)
(* is at (claim_due, release_claim_only, finish_claim, recover_stuck).      *)
ImplementsLease == Lease!Spec

------------------------------------------------------------------------------
(* The inductive invariant behind them, when no run outlasts the threshold *)

WorkersHaveJobs ==
  \A w \in Workers : worker[w].phase # "free" => worker[w].job \in Jobs

(* A job has one holder, a worker or a batch, and it was created. *)
HolderInv ==
  /\ WorkersHaveJobs
  /\ \A v, w \in Workers :
       /\ worker[v].phase \in DrivePhases
       /\ worker[w].phase \in DrivePhases
       /\ worker[v].job = worker[w].job
       => v = w
  /\ \A s, t \in Schedulers : \A c \in batch[s], d \in batch[t] :
       c.job = d.job => s = t /\ c = d
  /\ \A s \in Schedulers, w \in Workers : \A c \in batch[s] :
       worker[w].phase \in DrivePhases => c.job # worker[w].job
  /\ \A j \in Jobs : Held(j) => job[j].status # "absent"

(* A job is held by a run claimed as run_once. *)
OnceHeld(j) ==
  \/ \E s \in Schedulers : \E c \in batch[s] : c.job = j /\ c.runOnce
  \/ \E w \in Driving(j) : worker[w].runOnce

(* A delivery that is not paid for has its run about to finish the claim,   *)
(* or it has spent the job's request: nothing claims it as run_once again.  *)
Accounted(j) ==
  /\ job[j].status = "absent" => fired[j] <= lost[j]
  /\ \/ fired[j] <= lost[j]
     \/ fired[j] <= lost[j] + 1 /\ \E w \in Driving(j) : Delivered(w)
     \/ /\ fired[j] <= lost[j] + 1
        /\ ~OnceHeld(j)
        /\ ~(Stored(j) /\ job[j].enabled /\ job[j].runOnce)

DeliveryInv == \A j \in Jobs : Accounted(j)

(* A row loses its claim with the row. *)
ClaimsAreStored == \A j \in Jobs : job[j].claimed => Stored(j)

(* What every step of schedulers, workers and users preserves together:     *)
(* exclusive holders, their claims, and the account of deliveries.          *)
CronInv == HolderInv /\ HeldJobsAreClaimed /\ DeliveryInv

------------------------------------------------------------------------------
(* Liveness properties, under Fairness *)

(* The plugins the host registers return: pre-processors and deliveries     *)
(* have no timeout of their own in the scheduler.                           *)
PluginsReturn == \A w \in Workers : WF_vars(PluginStep(w))

(* Every tick from now on finds all permits taken.                          *)
Saturated(s) == [](batch[s] = {} => ~PermitFree(s))

(* A due job is driven, however many jobs are claimed with it and however   *)
(* often its claim is released for want of a permit: a tick that finds one  *)
(* gives it to the most overdue job.  The exception is a scheduler whose    *)
(* ticks find none any more: a permit freed while a batch is dispatched     *)
(* goes to the job at hand, past those released before it, and that may     *)
(* happen each time (claim_due, tick_once, spawn_or_release_job).           *)
DueJobsAreDriven ==
  PluginsReturn => \A j \in Jobs, s \in Schedulers :
    (j \in due /\ job[j].enabled /\ phase[s] = "ticking") ~>
      (Driving(j) # {} \/ j \notin due \/ ~job[j].enabled \/ cancelled[s] \/ Saturated(s))

(* A cancelled scheduler stops, hung plugins or not (drain_jobs,            *)
(* abort_jobs_after_grace).                                                 *)
CancelledLoopStops ==
  \A s \in Schedulers : cancelled[s] ~> phase[s] \in {"stopped", "down"}
==============================================================================
