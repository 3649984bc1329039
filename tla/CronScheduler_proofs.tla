------------------------ MODULE CronScheduler_proofs ------------------------
(***************************************************************************)
(* Types and safety of CronScheduler, and that it implements JobLease, for  *)
(* every number of jobs, schedulers, workers and permits.                   *)
(***************************************************************************)
EXTENDS CronScheduler, FiniteSetTheorems, TLAPS

------------------------------------------------------------------------------
(* Types *)

(* A free slot is a worker state. *)
LEMMA FreeWorkerType == FreeWorker \in WorkerState
  BY DEF FreeWorker, WorkerState, WorkerPhases

(* Moving a worker on, and freeing workers, leaves worker states. *)
LEMMA WorkerTypes ==
  ASSUME worker \in [Workers -> WorkerState]
  PROVE  /\ \A w \in Workers, p \in WorkerPhases, ok \in BOOLEAN :
              Becomes(w, p, ok) => worker' \in [Workers -> WorkerState]
         /\ \A S \in SUBSET Workers : Drop(S) => worker' \in [Workers -> WorkerState]
  <1>1. ASSUME NEW w \in Workers, NEW p \in WorkerPhases, NEW ok \in BOOLEAN, Becomes(w, p, ok)
        PROVE  worker' \in [Workers -> WorkerState]
    <2>1. [worker[w] EXCEPT !.phase = p, !.ok = ok] \in WorkerState
      BY DEF WorkerState
    <2>2. worker' = [worker EXCEPT ![w] = [worker[w] EXCEPT !.phase = p, !.ok = ok]]
      BY <1>1 DEF Becomes
    <2>3. QED BY <2>1, <2>2
  <1>2. ASSUME NEW S \in SUBSET Workers, Drop(S)
        PROVE  worker' \in [Workers -> WorkerState]
    BY <1>2, FreeWorkerType DEF Drop
  <1>3. QED BY <1>1, <1>2

(* Counting lost deliveries. *)
LEMMA DropTypes ==
  ASSUME TypeOK, NEW S \in SUBSET Workers, Drop(S)
  PROVE  worker' \in [Workers -> WorkerState] /\ lost' \in [Jobs -> Nat]
  <1>1. worker' \in [Workers -> WorkerState]
    BY WorkerTypes DEF TypeOK
  <1>2. lost' \in [Jobs -> Nat]
    BY DEF TypeOK, Drop
  <1>3. QED BY <1>1, <1>2

(* Freeing claims leaves rows. *)
LEMMA UnclaimedType ==
  ASSUME job \in [Jobs -> JobRow], NEW S \in SUBSET Jobs
  PROVE  Unclaimed(S) \in [Jobs -> JobRow]
  <1>1. \A x \in JobRow : [x EXCEPT !.claimed = FALSE] \in JobRow
    BY DEF JobRow
  <1>2. QED BY <1>1 DEF Unclaimed

(* Finishing a claim leaves a row. *)
LEMMA FinishedRowType ==
  ASSUME NEW x \in JobRow, NEW disable
  PROVE  FinishedRow(x, disable) \in JobRow
  <1> DEFINE e == IF disable /\ x.runOnce THEN FALSE ELSE x.enabled
  <1>1. e \in BOOLEAN
    BY DEF JobRow
  <1>2. FinishedRow(x, disable) \in {x, [x EXCEPT !.claimed = FALSE, !.enabled = e]}
    BY DEF FinishedRow
  <1> HIDE DEF e
  <1>3. QED BY <1>1, <1>2 DEF JobRow

(* A job that leaves the due set. *)
LEMMA NotDueTypes ==
  ASSUME TypeOK, NEW j \in Jobs, NotDue(j)
  PROVE  due' \in SUBSET Jobs /\ earlier' \in SUBSET (Jobs \X Jobs)
  BY DEF TypeOK, NotDue

(* The cron tool and the clock. *)
LEMMA ToolTypes ==
  ASSUME TypeOK, NEW j \in Jobs, NEW enabled \in BOOLEAN, NEW once \in BOOLEAN,
         NEW reschedule \in BOOLEAN,
         \/ Create(j, enabled, once)
         \/ Update(j, enabled, once, reschedule)
         \/ Delete(j)
         \/ BecomesDue(j)
  PROVE  TypeOK'
  <1> USE DEF TypeOK, loop, bounds, ghost
  <1>1. CASE Create(j, enabled, once)
    <2>1. job' \in [Jobs -> JobRow]
      BY <1>1 DEF Create, JobRow
    <2>2. QED BY <1>1, <2>1 DEF Create
  <1>2. CASE Update(j, enabled, once, reschedule)
    <2>1. job' \in [Jobs -> JobRow]
      <3>1. [job[j] EXCEPT !.enabled = enabled, !.runOnce = once] \in JobRow
        BY DEF JobRow
      <3>2. job' = [job EXCEPT ![j] = [job[j] EXCEPT !.enabled = enabled, !.runOnce = once]]
        BY <1>2 DEF Update
      <3>3. QED BY <3>1, <3>2
    <2>2. due' \in SUBSET Jobs /\ earlier' \in SUBSET (Jobs \X Jobs)
      BY <1>2, NotDueTypes DEF Update
    <2>3. fired' \in [Jobs -> Nat] /\ lost' \in [Jobs -> Nat] /\ edits' \in Nat
      BY <1>2 DEF Update
    <2>4. QED BY <1>2, <2>1, <2>2, <2>3 DEF Update
  <1>3. CASE Delete(j)
    <2>1. job' \in [Jobs -> JobRow]
      BY <1>3 DEF Delete, JobRow
    <2>2. due' \in SUBSET Jobs /\ earlier' \in SUBSET (Jobs \X Jobs)
      BY <1>3, NotDueTypes DEF Delete
    <2>3. QED BY <1>3, <2>1, <2>2 DEF Delete
  <1>4. CASE BecomesDue(j)
    BY <1>4 DEF BecomesDue
  <1>5. QED BY <1>1, <1>2, <1>3, <1>4

(* The run loop. *)
LEMMA LoopTypes ==
  ASSUME TypeOK, NEW s \in Schedulers,
         \/ \E stuck \in SUBSET Jobs : Start(s, stuck)
         \/ Tick(s)
         \/ \E w \in Workers : SpawnJob(s, w)
         \/ ReleaseUnclaimed(s)
         \/ ReleaseFails(s)
         \/ StopLoop(s)
         \/ Shutdown(s)
         \/ DrainDone(s)
  PROVE  TypeOK'
  <1> USE DEF TypeOK, rows, loop, bounds, ghost
  <1>1. ASSUME NEW stuck \in SUBSET Jobs, Start(s, stuck) PROVE TypeOK'
    BY <1>1, UnclaimedType DEF Start
  <1>2. CASE Tick(s)
    <2>1. PICK T \in SUBSET Jobs :
            /\ batch' = [batch EXCEPT ![s] = {[job |-> j, runOnce |-> job[j].runOnce] : j \in T}]
            /\ job' = [j \in Jobs |-> IF j \in T THEN [job[j] EXCEPT !.claimed = TRUE] ELSE job[j]]
      BY <1>2 DEF Tick, MostOverdue, Eligible
    <2>2. \A x \in JobRow : [x EXCEPT !.claimed = TRUE] \in JobRow /\ x.runOnce \in BOOLEAN
      BY DEF JobRow
    <2>3. job' \in [Jobs -> JobRow]
      BY <2>1, <2>2
    <2>4. {[job |-> j, runOnce |-> job[j].runOnce] : j \in T} \in SUBSET Snapshot
      <3>1. \A j \in T : [job |-> j, runOnce |-> job[j].runOnce] \in Snapshot
        BY <2>2 DEF Snapshot
      <3>2. QED BY <3>1
    <2>5. batch' \in [Schedulers -> SUBSET Snapshot]
      BY <2>1, <2>4
    <2>6. QED BY <1>2, <2>3, <2>5 DEF Tick
  <1>3. ASSUME NEW w \in Workers, SpawnJob(s, w) PROVE TypeOK'
    <2>1. PICK c \in batch[s] :
            /\ batch' = [batch EXCEPT ![s] = @ \ {c}]
            /\ worker' = [worker EXCEPT ![w] = [sched |-> s, job |-> c.job, runOnce |-> c.runOnce,
                                                phase |-> "pre", ok |-> FALSE]]
      BY <1>3 DEF SpawnJob, NextInBatch
    <2>2. worker' \in [Workers -> WorkerState]
      BY <2>1 DEF WorkerState, WorkerPhases, Snapshot
    <2>3. QED BY <1>3, <2>1, <2>2 DEF SpawnJob
  <1>4. CASE ReleaseUnclaimed(s)
    <2>1. PICK c \in batch[s] : batch' = [batch EXCEPT ![s] = @ \ {c}] /\ job' = Unclaimed({c.job})
      BY <1>4 DEF ReleaseUnclaimed, NextInBatch
    <2>2. {c.job} \in SUBSET Jobs
      BY <2>1 DEF Snapshot
    <2>3. QED BY <1>4, <2>1, <2>2, UnclaimedType DEF ReleaseUnclaimed
  <1>5. CASE ReleaseFails(s)
    <2>1. PICK c \in batch[s] : batch' = [batch EXCEPT ![s] = @ \ {c}]
      BY <1>5 DEF ReleaseFails, NextInBatch
    <2>2. QED BY <1>5, <2>1 DEF ReleaseFails, Fault
  <1>6. CASE StopLoop(s) \/ Shutdown(s) \/ DrainDone(s)
    BY <1>6 DEF StopLoop, Shutdown, DrainDone
  <1>7. QED BY <1>1, <1>2, <1>3, <1>4, <1>5, <1>6

(* A worker's steps. *)
LEMMA DriveTypes ==
  ASSUME TypeOK, WorkersHaveJobs, NEW w \in Workers,
         ExecutorStep(w) \/ PluginStep(w) \/ EndStep(w) \/ FinishFails(w)
  PROVE  TypeOK'
  <1> USE DEF TypeOK, rows, loop, bounds, ghost
  <1>1. worker[w].ok \in BOOLEAN
    BY DEF WorkerState
  <1>2. worker[w].phase # "free" => worker[w].job \in Jobs
    BY DEF WorkersHaveJobs
  <1>3. CASE ExecutorStep(w)
    BY <1>3, WorkerTypes
       DEF ExecutorStep, ExecutorReturns, ExecutorTimesOut, ExecutorCancelled, GraceEnds, WorkerPhases
  <1>4. CASE PreProcess(w) \/ DeliveryRejected(w)
    BY <1>4, WorkerTypes DEF PreProcess, DeliveryRejected, WorkerPhases
  <1>5. CASE Deliver(w)
    <2>1. worker' \in [Workers -> WorkerState]
      BY <1>5, WorkerTypes DEF Deliver, WorkerPhases
    <2>2. fired' \in [Jobs -> Nat]
      BY <1>2, <1>5 DEF Deliver
    <2>3. QED BY <1>5, <2>1, <2>2 DEF Deliver
  <1>6. CASE FinishClaim(w)
    <2> DEFINE j == worker[w].job
    <2>1. j \in Jobs
      BY <1>2, <1>6 DEF FinishClaim
    <2>2. worker' \in [Workers -> WorkerState]
      BY <1>1, <1>6, WorkerTypes DEF FinishClaim, WorkerPhases
    <2>3. job' = [job EXCEPT ![j] = FinishedRow(job[j], Disables(w))]
      BY <1>6 DEF FinishClaim
    <2>4. job' \in [Jobs -> JobRow]
      BY <2>1, <2>3, FinishedRowType
    <2>5. due' \in SUBSET Jobs /\ earlier' \in SUBSET (Jobs \X Jobs)
      BY <1>6, <2>1, NotDueTypes DEF FinishClaim
    <2>6. QED BY <1>6, <2>2, <2>4, <2>5 DEF FinishClaim
  <1>7. CASE Retire(w)
    BY <1>7, FreeWorkerType DEF Retire
  <1>8. CASE FinishFails(w)
    <2>1. worker' \in [Workers -> WorkerState]
      BY <1>1, <1>8, WorkerTypes DEF FinishFails, WorkerPhases
    <2>2. lost' \in [Jobs -> Nat] /\ faults' \in Nat
      BY <1>2, <1>8 DEF FinishFails, Fault
    <2>3. QED BY <1>8, <2>1, <2>2 DEF FinishFails
  <1>9. QED BY <1>3, <1>4, <1>5, <1>6, <1>7, <1>8 DEF PluginStep, EndStep

(* A worker that panics. *)
LEMMA PanicTypes ==
  ASSUME TypeOK, NEW w \in Workers, WorkerPanics(w)
  PROVE  TypeOK'
  <1>1. Drop({w}) /\ faults' \in Nat
    BY DEF WorkerPanics, Fault, TypeOK
  <1>2. QED BY <1>1, DropTypes DEF WorkerPanics, TypeOK, rows, loop

(* The workers of a scheduler that stops or dies. *)
LEMMA StopTypes ==
  ASSUME TypeOK, NEW s \in Schedulers, AbortJobs(s) \/ ProcessEnds(s)
  PROVE  TypeOK'
  <1>1. Live(s) \in SUBSET Workers
    BY DEF Live
  <1>2. worker' \in [Workers -> WorkerState] /\ lost' \in [Jobs -> Nat]
    BY <1>1, DropTypes DEF AbortJobs, ProcessEnds
  <1>3. QED BY <1>2, ZenonT(60) DEF AbortJobs, ProcessEnds, TypeOK, rows, bounds

(* Every busy worker has a job. *)
LEMMA StepWorkersHaveJobs ==
  ASSUME TypeOK, WorkersHaveJobs, [Next]_vars
  PROVE  WorkersHaveJobs'
  <1> USE DEF WorkersHaveJobs, FreeWorker
  <1>1. ASSUME NEW S \in SUBSET Workers, Drop(S) PROVE WorkersHaveJobs'
    BY <1>1 DEF Drop
  <1>2. ASSUME NEW w \in Workers, NEW p, NEW ok, worker[w].phase # "free", Becomes(w, p, ok)
        PROVE  WorkersHaveJobs'
    BY <1>2 DEF Becomes, TypeOK, WorkerState
  <1>3. ASSUME NEW s \in Schedulers, NEW w \in Workers, SpawnJob(s, w) PROVE WorkersHaveJobs'
    BY <1>3 DEF SpawnJob, NextInBatch, TypeOK, Snapshot
  <1>4. ASSUME NEW w \in Workers, ExecutorStep(w) \/ PluginStep(w) \/ FinishClaim(w) \/ FinishFails(w)
        PROVE  WorkersHaveJobs'
    BY <1>2, <1>4 DEF ExecutorStep, ExecutorReturns, ExecutorTimesOut, ExecutorCancelled, GraceEnds,
       PluginStep, PreProcess, Deliver, DeliveryRejected, FinishClaim, FinishFails
  <1>5. ASSUME NEW w \in Workers, Retire(w) PROVE WorkersHaveJobs'
    BY <1>5 DEF Retire, TypeOK
  <1>6. ASSUME NEW s \in Schedulers, AbortJobs(s) \/ ProcessEnds(s) PROVE WorkersHaveJobs'
    BY <1>1, <1>6 DEF AbortJobs, ProcessEnds, Live
  <1>7. ASSUME NEW w \in Workers, WorkerPanics(w) PROVE WorkersHaveJobs'
    BY <1>1, <1>7 DEF WorkerPanics
  <1>8. CASE UNCHANGED worker
    BY <1>8
  <1>9. QED
    BY <1>3, <1>4, <1>5, <1>6, <1>7, <1>8
       DEF Next, LoopStep, EndStep, Environment, vars, Create, Update, Delete, BecomesDue, Start, Tick,
       ReleaseUnclaimed, ReleaseFails, StopLoop, Shutdown, DrainDone

(* The first start. *)
LEMMA InitTypes == Init => TypeOK /\ WorkersHaveJobs
  BY FreeWorkerType DEF Init, TypeOK, JobRow, WorkersHaveJobs, FreeWorker

(* Every action, and stuttering. *)
LEMMA StepTypes == TypeOK /\ WorkersHaveJobs /\ [Next]_vars => TypeOK'
  <1> SUFFICES ASSUME TypeOK, WorkersHaveJobs, [Next]_vars PROVE TypeOK'
    OBVIOUS
  <1>1. CASE UNCHANGED vars
    BY <1>1 DEF TypeOK, vars, rows, loop, bounds, ghost
  <1>2. ASSUME NEW s \in Schedulers, LoopStep(s) PROVE TypeOK'
    BY <1>2, LoopTypes, StopTypes DEF LoopStep
  <1>3. ASSUME NEW w \in Workers, ExecutorStep(w) \/ PluginStep(w) \/ EndStep(w) PROVE TypeOK'
    BY <1>3, DriveTypes
  <1>4. CASE Environment
    <2>1. ASSUME NEW j \in Jobs, NEW enabled \in BOOLEAN, NEW once \in BOOLEAN,
                 Create(j, enabled, once)
          PROVE  TypeOK'
      BY <2>1, ToolTypes
    <2>2. ASSUME NEW j \in Jobs, NEW enabled \in BOOLEAN, NEW once \in BOOLEAN,
                 NEW reschedule \in BOOLEAN, Update(j, enabled, once, reschedule)
          PROVE  TypeOK'
      BY <2>2, ToolTypes
    <2>3. ASSUME NEW j \in Jobs, Delete(j) \/ BecomesDue(j) PROVE TypeOK'
      BY <2>3, ToolTypes
    <2>4. ASSUME NEW s \in Schedulers,
                 \/ \E stuck \in SUBSET Jobs : Start(s, stuck)
                 \/ StopLoop(s) \/ Shutdown(s) \/ ProcessEnds(s) \/ ReleaseFails(s)
          PROVE  TypeOK'
      BY <2>4, LoopTypes, StopTypes
    <2>5. ASSUME NEW w \in Workers, FinishFails(w) \/ WorkerPanics(w) PROVE TypeOK'
      BY <2>5, DriveTypes, PanicTypes
    <2>6. QED BY <1>4, <2>1, <2>2, <2>3, <2>4, <2>5 DEF Environment
  <1>5. QED BY <1>1, <1>2, <1>3, <1>4 DEF Next

(* Rows, claims, batches and workers keep their types through every tick,   *)
(* edit, worker step, fault, stop and restart.                              *)
THEOREM TypesHold == Spec => []TypeOK
  <1>1. TypeOK /\ WorkersHaveJobs /\ [Next]_vars => (TypeOK /\ WorkersHaveJobs)'
    BY StepTypes, StepWorkersHaveJobs
  <1>2. QED BY <1>1, InitTypes, PTL DEF Spec
------------------------------------------------------------------------------
(* Exclusive holders and the account of deliveries *)

(* Workers and batches only let go of jobs, and the rows of the jobs still  *)
(* held stay claimed: the holders stay exclusive.                           *)
LEMMA HoldersShrink ==
  ASSUME HolderInv, WorkersHaveJobs',
         \A s \in Schedulers : batch'[s] \subseteq batch[s],
         \A w \in Workers : worker'[w].phase \in DrivePhases =>
           /\ worker[w].phase \in DrivePhases
           /\ worker'[w].job = worker[w].job
           /\ worker'[w].runOnce = worker[w].runOnce,
         \A j \in Jobs : Held(j)' =>
           job'[j].status # "absent" /\ (job'[j].status = "stored" => job'[j].claimed)
  PROVE  /\ HolderInv' /\ HeldJobsAreClaimed'
         /\ \A j \in Jobs : OnceHeld(j)' => OnceHeld(j)
  <1>1. HolderInv'
    BY DEF HolderInv
  <1>2. HeldJobsAreClaimed'
    BY DEF HeldJobsAreClaimed, Stored
  <1>3. \A j \in Jobs : OnceHeld(j)' => OnceHeld(j)
    BY DEF OnceHeld, Driving
  <1>4. QED BY <1>1, <1>2, <1>3

(* Held jobs are held by what held them before. *)
LEMMA HeldShrinks ==
  ASSUME \A s \in Schedulers : batch'[s] \subseteq batch[s],
         \A w \in Workers : worker'[w].phase \in DrivePhases =>
           worker[w].phase \in DrivePhases /\ worker'[w].job = worker[w].job
  PROVE  \A j \in Jobs : Held(j)' => Held(j)
  BY DEF Held, InBatch, Driving

(* A job whose counters stand still keeps its account if no run that has    *)
(* delivered is lost and nothing claims it as run_once anew.                *)
LEMMA AccountKept ==
  ASSUME NEW j \in Jobs, Accounted(j),
         fired'[j] = fired[j], lost'[j] = lost[j],
         job'[j].status = "absent" => job[j].status = "absent",
         \A w \in Driving(j) : Delivered(w) => w \in Driving(j)' /\ Delivered(w)',
         OnceHeld(j)' => OnceHeld(j),
         job'[j].status = "stored" /\ job'[j].enabled /\ job'[j].runOnce =>
           job[j].status = "stored" /\ job[j].enabled /\ job[j].runOnce
  PROVE  Accounted(j)'
  <1>1. fired[j] <= lost[j] => (fired[j] <= lost[j])'
    OBVIOUS
  <1>2. fired[j] <= lost[j] + 1 => (fired[j] <= lost[j] + 1)'
    OBVIOUS
  <1>3. (\E w \in Driving(j) : Delivered(w)) => (\E w \in Driving(j) : Delivered(w))'
    OBVIOUS
  <1>4. ~(Stored(j) /\ job[j].enabled /\ job[j].runOnce) =>
          ~(Stored(j) /\ job[j].enabled /\ job[j].runOnce)'
    BY DEF Stored
  <1>5. QED BY <1>1, <1>2, <1>3, <1>4 DEF Accounted

(* A job with nothing outstanding is accounted for. *)
LEMMA Settled ==
  ASSUME NEW j \in Jobs, fired'[j] <= lost'[j]
  PROVE  Accounted(j)'
  BY DEF Accounted

(* Steps that leave rows, batches and counters alone and move one worker on *)
(* without losing what it delivered.                                        *)
LEMMA QuietStep ==
  ASSUME CronInv, WorkersHaveJobs', UNCHANGED <<job, batch, fired, lost>>,
         \A w \in Workers : worker'[w].phase \in DrivePhases =>
           /\ worker[w].phase \in DrivePhases
           /\ worker'[w].job = worker[w].job
           /\ worker'[w].runOnce = worker[w].runOnce,
         \A w \in Workers : Delivered(w) => worker'[w] = worker[w]
  PROVE  CronInv'
  <1>1. \A j \in Jobs : Held(j)' => Held(j)
    BY HeldShrinks
  <1>2. \A j \in Jobs : Held(j)' =>
          job'[j].status # "absent" /\ (job'[j].status = "stored" => job'[j].claimed)
    BY <1>1 DEF CronInv, HolderInv, HeldJobsAreClaimed, Stored
  <1>3. HolderInv' /\ HeldJobsAreClaimed' /\ \A j \in Jobs : OnceHeld(j)' => OnceHeld(j)
    BY <1>2, HoldersShrink DEF CronInv
  <1>4. ASSUME NEW j \in Jobs PROVE Accounted(j)'
    <2>1. \A w \in Driving(j) : Delivered(w) => w \in Driving(j)' /\ Delivered(w)'
      BY DEF Driving, Delivered
    <2>2. QED BY <1>3, <2>1, AccountKept DEF CronInv, DeliveryInv
  <1>5. QED BY <1>3, <1>4 DEF CronInv, DeliveryInv

(* The steps of a worker that write nothing. *)
LEMMA WorkerQuiet ==
  ASSUME TypeOK, CronInv, WorkersHaveJobs', NEW w \in Workers,
         \/ ExecutorStep(w) \/ PreProcess(w) \/ DeliveryRejected(w) \/ Retire(w)
  PROVE  CronInv'
  <1>1. worker \in [Workers -> WorkerState]
    BY DEF TypeOK
  <1>2. CASE Retire(w)
    <2>1. worker' = [worker EXCEPT ![w] = FreeWorker] /\ worker[w].phase = "ending"
      BY <1>2 DEF Retire
    <2>2. \A v \in Workers : worker'[v].phase \in DrivePhases => worker'[v] = worker[v]
      BY <1>1, <2>1 DEF FreeWorker, DrivePhases
    <2>3. \A v \in Workers : Delivered(v) => worker'[v] = worker[v]
      BY <1>1, <2>1 DEF Delivered
    <2>4. UNCHANGED <<job, batch, fired, lost>>
      BY <1>2 DEF Retire, rows, loop, ghost
    <2>5. QED BY <2>2, <2>3, <2>4, QuietStep
  <1>3. CASE ExecutorStep(w) \/ PreProcess(w) \/ DeliveryRejected(w)
    <2>1. /\ worker[w].phase \in {"pre", "exec", "grace", "deliver"}
          /\ \E p \in DrivePhases, ok \in BOOLEAN : Becomes(w, p, ok)
          /\ UNCHANGED <<job, batch, fired, lost>>
      BY <1>3 DEF ExecutorStep, ExecutorReturns, ExecutorTimesOut, ExecutorCancelled, GraceEnds,
         PreProcess, DeliveryRejected, rows, loop, ghost, DrivePhases
    <2>2. PICK p \in DrivePhases, ok \in BOOLEAN :
            worker' = [worker EXCEPT ![w] = [worker[w] EXCEPT !.phase = p, !.ok = ok]]
      BY <2>1 DEF Becomes
    <2>3. /\ worker'[w].job = worker[w].job
          /\ worker'[w].runOnce = worker[w].runOnce
          /\ worker[w].phase \in DrivePhases
          /\ \A v \in Workers \ {w} : worker'[v] = worker[v]
      BY <1>1, <2>1, <2>2 DEF WorkerState, DrivePhases
    <2>4. \A v \in Workers : Delivered(v) => worker'[v] = worker[v]
      BY <2>1, <2>3 DEF Delivered
    <2>5. QED BY <2>1, <2>3, <2>4, QuietStep
  <1>4. QED BY <1>2, <1>3

(* Steps that only let go of jobs, told job by job. *)
LEMMA ShrinkStep ==
  ASSUME CronInv, WorkersHaveJobs',
         \A s \in Schedulers : batch'[s] \subseteq batch[s],
         \A w \in Workers : worker'[w].phase \in DrivePhases =>
           /\ worker[w].phase \in DrivePhases
           /\ worker'[w].job = worker[w].job
           /\ worker'[w].runOnce = worker[w].runOnce,
         \A j \in Jobs : Held(j)' =>
           job'[j].status # "absent" /\ (job'[j].status = "stored" => job'[j].claimed),
         \A j \in Jobs : (OnceHeld(j)' => OnceHeld(j)) => Accounted(j)'
  PROVE  CronInv'
  <1>1. HolderInv' /\ HeldJobsAreClaimed' /\ \A j \in Jobs : OnceHeld(j)' => OnceHeld(j)
    BY HoldersShrink DEF CronInv
  <1>2. QED BY <1>1 DEF CronInv, DeliveryInv

(* Nobody holds a job that does not exist yet; the counters of an edited    *)
(* job start again.                                                         *)
LEMMA ToolSafe ==
  ASSUME TypeOK, CronInv, WorkersHaveJobs', NEW j \in Jobs, NEW enabled \in BOOLEAN,
         NEW once \in BOOLEAN, NEW reschedule \in BOOLEAN,
         \/ Create(j, enabled, once)
         \/ Update(j, enabled, once, reschedule)
         \/ Delete(j)
  PROVE  CronInv'
  <1>1. worker' = worker /\ batch' = batch
    BY DEF Create, Update, Delete, loop
  <1>2. \A k \in Jobs : Held(k)' => Held(k)
    BY <1>1, HeldShrinks
  <1>3. \A k \in Jobs : Held(k) =>
          job[k].status # "absent" /\ (job[k].status = "stored" => job[k].claimed)
    BY DEF CronInv, HolderInv, HeldJobsAreClaimed, Stored
  <1>4. \A k \in Jobs : Accounted(k)
    BY DEF CronInv, DeliveryInv
  <1>5. \A k \in Jobs : \A w \in Driving(k) : Delivered(w) => w \in Driving(k)' /\ Delivered(w)'
    BY <1>1 DEF Driving, Delivered
  <1>6. job \in [Jobs -> JobRow] /\ fired \in [Jobs -> Nat] /\ lost \in [Jobs -> Nat]
    BY DEF TypeOK
  <1>7. CASE Create(j, enabled, once)
    <2>1. /\ \A k \in Jobs \ {j} : job'[k] = job[k]
          /\ job[j].status = "absent" /\ fired' = fired /\ lost' = lost
      BY <1>6, <1>7 DEF Create, ghost
    <2>2. \A k \in Jobs : Held(k)' =>
            job'[k].status # "absent" /\ (job'[k].status = "stored" => job'[k].claimed)
      BY <1>2, <1>3, <2>1
    <2>3. ASSUME NEW k \in Jobs, OnceHeld(k)' => OnceHeld(k) PROVE Accounted(k)'
      <3>1. CASE k = j
        BY <1>4, <2>1, <3>1, Settled DEF Accounted
      <3>2. CASE k # j
        <4>1. job'[k] = job[k]
          BY <2>1, <3>2
        <4>2. QED BY <1>4, <1>5, <2>1, <2>3, <4>1, AccountKept
      <3>3. QED BY <3>1, <3>2
    <2>4. QED BY <1>1, <2>2, <2>3, ShrinkStep
  <1>8. CASE Update(j, enabled, once, reschedule)
    <2>1. /\ \A k \in Jobs \ {j} : job'[k] = job[k] /\ fired'[k] = fired[k] /\ lost'[k] = lost[k]
          /\ fired'[j] = 0 /\ lost'[j] = 0
          /\ job'[j].status = job[j].status /\ job'[j].claimed = job[j].claimed
      BY <1>6, <1>8 DEF Update, JobRow
    <2>2. \A k \in Jobs : Held(k)' =>
            job'[k].status # "absent" /\ (job'[k].status = "stored" => job'[k].claimed)
      BY <1>2, <1>3, <2>1
    <2>3. ASSUME NEW k \in Jobs, OnceHeld(k)' => OnceHeld(k) PROVE Accounted(k)'
      <3>1. CASE k = j
        BY <2>1, <3>1, Settled
      <3>2. CASE k # j
        <4>1. job'[k] = job[k] /\ fired'[k] = fired[k] /\ lost'[k] = lost[k]
          BY <2>1, <3>2
        <4>2. QED BY <1>4, <1>5, <2>3, <4>1, AccountKept
      <3>3. QED BY <3>1, <3>2
    <2>4. QED BY <1>1, <2>2, <2>3, ShrinkStep
  <1>9. CASE Delete(j)
    <2>1. /\ \A k \in Jobs \ {j} : job'[k] = job[k]
          /\ job'[j].status = "deleted" /\ fired' = fired /\ lost' = lost
      BY <1>6, <1>9 DEF Delete, ghost, JobRow
    <2>2. \A k \in Jobs : Held(k)' =>
            job'[k].status # "absent" /\ (job'[k].status = "stored" => job'[k].claimed)
      BY <1>2, <1>3, <2>1
    <2>3. ASSUME NEW k \in Jobs, OnceHeld(k)' => OnceHeld(k) PROVE Accounted(k)'
      <3>1. job'[k].status = "deleted" \/ job'[k] = job[k]
        BY <2>1
      <3>2. QED BY <1>4, <1>5, <2>1, <2>3, <3>1, AccountKept
    <2>4. QED BY <1>1, <2>2, <2>3, ShrinkStep
  <1>10. QED BY <1>7, <1>8, <1>9

(* Steps of the loop and the clock that touch neither rows nor holders. *)
LEMMA LoopQuiet ==
  ASSUME CronInv, WorkersHaveJobs', UNCHANGED <<job, batch, worker, fired, lost>>
  PROVE  CronInv'
  BY QuietStep

(* Freeing the claims of jobs nobody holds any more, with or without        *)
(* dropping a batch entry.                                                  *)
LEMMA UnclaimSafe ==
  ASSUME TypeOK, CronInv, WorkersHaveJobs', NEW S \in SUBSET Jobs,
         job' = Unclaimed(S) \/ job' = job, UNCHANGED <<worker, fired, lost>>,
         \A s \in Schedulers : batch'[s] \subseteq batch[s],
         \A j \in S : ~Held(j)'
  PROVE  CronInv'
  <1>1. \A j \in Jobs : Held(j)' => Held(j)
    BY HeldShrinks
  <1>2. job \in [Jobs -> JobRow]
    BY DEF TypeOK
  <1>3. \A j \in Jobs : /\ job'[j].status = job[j].status
                        /\ job'[j].enabled = job[j].enabled
                        /\ job'[j].runOnce = job[j].runOnce
                        /\ j \notin S => job'[j] = job[j]
    BY <1>2 DEF Unclaimed, JobRow
  <1>4. \A j \in Jobs : Held(j)' =>
          job'[j].status # "absent" /\ (job'[j].status = "stored" => job'[j].claimed)
    BY <1>1, <1>3 DEF CronInv, HolderInv, HeldJobsAreClaimed, Stored
  <1>5. ASSUME NEW j \in Jobs, OnceHeld(j)' => OnceHeld(j) PROVE Accounted(j)'
    <2>1. \A w \in Driving(j) : Delivered(w) => w \in Driving(j)' /\ Delivered(w)'
      BY DEF Driving, Delivered
    <2>2. Accounted(j)
      BY DEF CronInv, DeliveryInv
    <2>3. QED BY <1>3, <1>5, <2>1, <2>2, AccountKept
  <1>6. QED BY <1>4, <1>5, ShrinkStep

(* Recovery frees claims nobody holds, as no run outlasts the threshold. *)
LEMMA StartSafe ==
  ASSUME TypeOK, CronInv, WorkersHaveJobs', ~LongRuns,
         NEW s \in Schedulers, NEW stuck \in SUBSET Jobs, Start(s, stuck)
  PROVE  CronInv'
  <1>1. \A j \in Jobs : Held(j)' => Held(j)
    BY HeldShrinks DEF Start
  <1>2. \A j \in stuck : ~Held(j)'
    BY <1>1 DEF Start
  <1>3. QED BY <1>2, UnclaimSafe DEF Start, ghost

(* The tick gives back a job that only its batch holds. *)
LEMMA ReleaseSafe ==
  ASSUME TypeOK, CronInv, WorkersHaveJobs', NEW s \in Schedulers,
         ReleaseUnclaimed(s) \/ ReleaseFails(s)
  PROVE  CronInv'
  <1>1. batch \in [Schedulers -> SUBSET Snapshot]
    BY DEF TypeOK
  <1>2. PICK c \in batch[s] :
          /\ batch' = [batch EXCEPT ![s] = @ \ {c}]
          /\ job' = Unclaimed({c.job}) \/ job' = job
    BY DEF ReleaseUnclaimed, ReleaseFails, NextInBatch, rows
  <1>3. UNCHANGED <<worker, fired, lost>>
    BY DEF ReleaseUnclaimed, ReleaseFails, ghost
  <1>4. \A t \in Schedulers : batch'[t] = batch[t] \ (IF t = s THEN {c} ELSE {})
    BY <1>1, <1>2
  <1>5. c.job \in Jobs
    BY <1>1, <1>2 DEF Snapshot
  <1>6. ~Held(c.job)'
    <2>1. \A t \in Schedulers : \A d \in batch[t] : d.job = c.job => t = s /\ d = c
      BY DEF CronInv, HolderInv
    <2>2. ~InBatch(c.job)'
      BY <1>4, <2>1 DEF InBatch
    <2>3. Driving(c.job)' = {}
      BY <1>3 DEF CronInv, HolderInv, Driving
    <2>4. QED BY <2>2, <2>3 DEF Held
  <1>7. QED
    <2>1. {c.job} \in SUBSET Jobs /\ \A j \in {c.job} : ~Held(j)'
      BY <1>5, <1>6
    <2>2. \A t \in Schedulers : batch'[t] \subseteq batch[t]
      BY <1>4
    <2>3. QED BY <1>2, <1>3, <2>1, <2>2, UnclaimSafe

(* claim_due takes unclaimed rows only: nobody holds them, and if one is a  *)
(* run_once job its deliveries are paid for.                                *)
LEMMA TickSafe ==
  ASSUME TypeOK, CronInv, WorkersHaveJobs', NEW s \in Schedulers, Tick(s)
  PROVE  CronInv'
  <1>1. job \in [Jobs -> JobRow] /\ batch \in [Schedulers -> SUBSET Snapshot]
    BY DEF TypeOK
  <1>2. PICK T \in SUBSET Eligible :
          /\ batch' = [batch EXCEPT ![s] = {[job |-> j, runOnce |-> job[j].runOnce] : j \in T}]
          /\ job' = [j \in Jobs |-> IF j \in T THEN [job[j] EXCEPT !.claimed = TRUE] ELSE job[j]]
    BY DEF Tick, MostOverdue
  <1>3. batch[s] = {} /\ UNCHANGED <<worker, fired, lost>>
    BY DEF Tick, ghost
  <1>4. \A j \in T : /\ j \in Jobs
                     /\ job[j].status = "stored"
                     /\ job[j].enabled
                     /\ ~job[j].claimed
    BY <1>2 DEF Eligible, Stored, TypeOK
  <1>5. \A j \in T : ~Held(j)
    BY <1>4 DEF CronInv, HeldJobsAreClaimed, Stored
  <1>6. /\ \A t \in Schedulers \ {s} : batch'[t] = batch[t]
        /\ \A c \in batch'[s] : c.job \in T /\ c = [job |-> c.job, runOnce |-> job[c.job].runOnce]
    BY <1>1, <1>2
  <1>7. \A j \in Jobs : /\ job'[j].status = job[j].status
                        /\ job'[j].enabled = job[j].enabled
                        /\ job'[j].runOnce = job[j].runOnce
                        /\ j \in T => job'[j].claimed
                        /\ j \notin T => job'[j] = job[j]
    BY <1>1, <1>2 DEF JobRow
  <1>8. \A t \in Schedulers \ {s} : \A c \in batch[t] : c.job \notin T
    BY <1>5 DEF Held, InBatch
  <1>9. \A w \in Workers : worker[w].phase \in DrivePhases => worker[w].job \notin T
    BY <1>5 DEF Held, Driving
  <1>10. \A j \in Jobs : Held(j)' => j \in T \/ Held(j)
    BY <1>3, <1>6 DEF Held, InBatch, Driving
  <1>11. HolderInv'
    <2>1. \A t, u \in Schedulers : \A c \in batch'[t], d \in batch'[u] :
            c.job = d.job => t = u /\ c = d
      BY <1>6, <1>8 DEF CronInv, HolderInv
    <2>2. \A t \in Schedulers, w \in Workers : \A c \in batch'[t] :
            worker'[w].phase \in DrivePhases => c.job # worker'[w].job
      BY <1>3, <1>6, <1>9 DEF CronInv, HolderInv
    <2>3. \A j \in Jobs : Held(j)' => job'[j].status # "absent"
      BY <1>4, <1>7, <1>10 DEF CronInv, HolderInv
    <2>4. \A v, w \in Workers :
            /\ worker'[v].phase \in DrivePhases
            /\ worker'[w].phase \in DrivePhases
            /\ worker'[v].job = worker'[w].job
            => v = w
      BY <1>3 DEF CronInv, HolderInv
    <2>5. QED BY <2>1, <2>2, <2>3, <2>4 DEF HolderInv
  <1>12. HeldJobsAreClaimed'
    BY <1>7, <1>10 DEF CronInv, HeldJobsAreClaimed, Stored
  <1>13. ASSUME NEW j \in Jobs PROVE Accounted(j)'
    <2>1. Accounted(j)
      BY DEF CronInv, DeliveryInv
    <2>2. \A w \in Driving(j) : Delivered(w) => w \in Driving(j)' /\ Delivered(w)'
      BY <1>3 DEF Driving, Delivered
    <2>3. CASE j \in T /\ job[j].runOnce
      <3>1. Driving(j) = {}
        BY <1>5, <2>3 DEF Held
      <3>2. Stored(j) /\ job[j].enabled /\ job[j].runOnce
        BY <1>4, <2>3 DEF Stored
      <3>3. fired[j] <= lost[j]
        BY <2>1, <3>1, <3>2 DEF Accounted
      <3>4. QED BY <1>3, <3>3, Settled
    <2>4. CASE ~(j \in T /\ job[j].runOnce)
      <3>1. \A t \in Schedulers : \A c \in batch'[t] :
              c.job = j /\ c.runOnce => t \in Schedulers \ {s} /\ c \in batch[t]
        BY <1>6, <2>4
      <3>2. OnceHeld(j)' => OnceHeld(j)
        BY <1>3, <3>1 DEF OnceHeld, Driving
      <3>3. QED BY <1>3, <1>7, <2>1, <2>2, <3>2, AccountKept
    <2>5. QED BY <2>3, <2>4
  <1>14. QED BY <1>11, <1>12, <1>13 DEF CronInv, DeliveryInv

(* A batch entry becomes a worker: the job changes hands. *)
LEMMA SpawnSafe ==
  ASSUME TypeOK, CronInv, WorkersHaveJobs', NEW s \in Schedulers, NEW w \in Workers,
         SpawnJob(s, w)
  PROVE  CronInv'
  <1>1. /\ batch \in [Schedulers -> SUBSET Snapshot]
        /\ worker \in [Workers -> WorkerState]
    BY DEF TypeOK
  <1>2. PICK c \in batch[s] :
          /\ batch' = [batch EXCEPT ![s] = @ \ {c}]
          /\ worker' = [worker EXCEPT ![w] = [sched |-> s, job |-> c.job, runOnce |-> c.runOnce,
                                              phase |-> "pre", ok |-> FALSE]]
    BY DEF SpawnJob, NextInBatch
  <1>3. worker[w].phase = "free" /\ UNCHANGED <<job, fired, lost>>
    BY DEF SpawnJob, rows, ghost
  <1>4. /\ \A t \in Schedulers : batch'[t] = batch[t] \ (IF t = s THEN {c} ELSE {})
        /\ \A v \in Workers \ {w} : worker'[v] = worker[v]
        /\ worker'[w].job = c.job /\ worker'[w].runOnce = c.runOnce
    BY <1>1, <1>2
  <1>5. \A t \in Schedulers : \A d \in batch[t] : d.job = c.job => t = s /\ d = c
    BY DEF CronInv, HolderInv
  <1>6. \A v \in Workers : worker[v].phase \in DrivePhases => worker[v].job # c.job
    BY DEF CronInv, HolderInv
  <1>7. \A j \in Jobs : Held(j)' => Held(j)
    BY <1>2, <1>4 DEF Held, InBatch, Driving
  <1>8. HolderInv'
    <2>1. \A t, u \in Schedulers : \A d \in batch'[t], e \in batch'[u] :
            d.job = e.job => t = u /\ d = e
      BY <1>4 DEF CronInv, HolderInv
    <2>2. \A t \in Schedulers, v \in Workers : \A d \in batch'[t] :
            worker'[v].phase \in DrivePhases => d.job # worker'[v].job
      BY <1>4, <1>5 DEF CronInv, HolderInv
    <2>3. \A j \in Jobs : Held(j)' => job'[j].status # "absent"
      BY <1>3, <1>7 DEF CronInv, HolderInv
    <2>4. \A u, v \in Workers :
            /\ worker'[u].phase \in DrivePhases
            /\ worker'[v].phase \in DrivePhases
            /\ worker'[u].job = worker'[v].job
            => u = v
      BY <1>4, <1>6 DEF CronInv, HolderInv
    <2>5. QED BY <2>1, <2>2, <2>3, <2>4 DEF HolderInv
  <1>9. HeldJobsAreClaimed'
    BY <1>3, <1>7 DEF CronInv, HeldJobsAreClaimed, Stored
  <1>10. ASSUME NEW j \in Jobs PROVE Accounted(j)'
    <2>1. Accounted(j)
      BY DEF CronInv, DeliveryInv
    <2>2. \A v \in Driving(j) : Delivered(v) => v \in Driving(j)' /\ Delivered(v)'
      BY <1>3, <1>4 DEF Driving, Delivered
    <2>3. OnceHeld(j)' => OnceHeld(j)
      BY <1>2, <1>4 DEF OnceHeld, Driving
    <2>4. QED BY <1>3, <2>1, <2>2, <2>3, AccountKept
  <1>11. QED BY <1>8, <1>9, <1>10 DEF CronInv, DeliveryInv

(* The one driver of a job moves on: every other worker stands still. *)
LEMMA OneMoves ==
  ASSUME TypeOK, CronInv, NEW w \in Workers, worker[w].phase \in DrivePhases,
         NEW p, NEW ok, Becomes(w, p, ok)
  PROVE  /\ worker[w].job \in Jobs
         /\ worker'[w].phase = p /\ worker'[w].ok = ok
         /\ worker'[w].job = worker[w].job /\ worker'[w].runOnce = worker[w].runOnce
         /\ \A v \in Workers \ {w} : worker'[v] = worker[v]
         /\ \A v \in Driving(worker[w].job) : v = w
         /\ ~InBatch(worker[w].job)
         /\ job[worker[w].job].status # "absent"
         /\ Held(worker[w].job)
  <1>1. worker \in [Workers -> WorkerState]
    BY DEF TypeOK
  <1>2. worker' = [worker EXCEPT ![w] = [worker[w] EXCEPT !.phase = p, !.ok = ok]]
    BY DEF Becomes
  <1>3. /\ worker'[w].phase = p /\ worker'[w].ok = ok
        /\ worker'[w].job = worker[w].job /\ worker'[w].runOnce = worker[w].runOnce
        /\ \A v \in Workers \ {w} : worker'[v] = worker[v]
    BY <1>1, <1>2 DEF WorkerState
  <1>4. worker[w].job \in Jobs
    BY DEF CronInv, HolderInv, WorkersHaveJobs, DrivePhases
  <1>5. \A v \in Driving(worker[w].job) : v = w
    BY DEF CronInv, HolderInv, Driving
  <1>6. ~InBatch(worker[w].job)
    BY DEF CronInv, HolderInv, InBatch
  <1>7. Held(worker[w].job)
    BY DEF Held, Driving
  <1>8. job[worker[w].job].status # "absent"
    BY <1>4, <1>7 DEF CronInv, HolderInv
  <1>9. QED BY <1>3, <1>4, <1>5, <1>6, <1>7, <1>8

(* A delivery by a run_once run: nothing was outstanding before. *)
LEMMA DeliverSafe ==
  ASSUME TypeOK, CronInv, WorkersHaveJobs', NEW w \in Workers, Deliver(w)
  PROVE  CronInv'
  <1>0. PICK j \in Jobs : j = worker[w].job
    BY DEF Deliver, CronInv, HolderInv, WorkersHaveJobs
  <1>1. /\ worker[w].phase = "deliver" /\ worker[w].phase \in DrivePhases
        /\ Becomes(w, "finish", TRUE) /\ UNCHANGED <<job, batch, lost>>
        /\ fired' = IF worker[w].runOnce THEN [fired EXCEPT ![j] = @ + 1] ELSE fired
    BY <1>0 DEF Deliver, rows, loop, DrivePhases
  <1>2. /\ j \in Jobs
        /\ worker'[w].phase = "finish" /\ worker'[w].ok = TRUE
        /\ worker'[w].job = j /\ worker'[w].runOnce = worker[w].runOnce
        /\ \A v \in Workers \ {w} : worker'[v] = worker[v]
        /\ \A v \in Driving(j) : v = w
        /\ job[j].status # "absent"
    BY <1>0, <1>1, OneMoves
  <1>3. \A v \in Workers : worker'[v].phase \in DrivePhases =>
          /\ worker[v].phase \in DrivePhases
          /\ worker'[v].job = worker[v].job
          /\ worker'[v].runOnce = worker[v].runOnce
    BY <1>0, <1>1, <1>2
  <1>4. \A k \in Jobs : Held(k)' => Held(k)
    BY <1>1, <1>3, HeldShrinks
  <1>5. \A k \in Jobs : Held(k)' =>
          job'[k].status # "absent" /\ (job'[k].status = "stored" => job'[k].claimed)
    BY <1>1, <1>4 DEF CronInv, HolderInv, HeldJobsAreClaimed, Stored
  <1>6. ASSUME NEW k \in Jobs, OnceHeld(k)' => OnceHeld(k) PROVE Accounted(k)'
    <2>1. Accounted(k) /\ fired \in [Jobs -> Nat] /\ lost \in [Jobs -> Nat]
      BY DEF CronInv, DeliveryInv, TypeOK
    <2>2. CASE k = j /\ worker[w].runOnce
      <3>1. w \in Driving(j) /\ OnceHeld(j)
        BY <1>0, <1>1, <2>2 DEF OnceHeld, Driving
      <3>2. ~ \E v \in Driving(j) : Delivered(v)
        BY <1>1, <1>2 DEF Delivered
      <3>3. fired[j] <= lost[j]
        BY <2>1, <2>2, <3>1, <3>2 DEF Accounted
      <3>4. fired'[j] <= lost'[j] + 1
        BY <1>1, <1>2, <2>1, <2>2, <3>3
      <3>5. w \in Driving(j)' /\ Delivered(w)'
        BY <1>2, <2>2 DEF Driving, Delivered, DrivePhases
      <3>6. job'[j].status # "absent"
        BY <1>1, <1>2
      <3>7. QED BY <2>2, <3>4, <3>5, <3>6 DEF Accounted
    <2>3. CASE ~(k = j /\ worker[w].runOnce)
      <3>1. fired'[k] = fired[k]
        BY <1>1, <1>2, <2>1, <2>3
      <3>2. \A v \in Driving(k) : Delivered(v) => v \in Driving(k)' /\ Delivered(v)'
        BY <1>1, <1>2 DEF Driving, Delivered
      <3>3. QED BY <1>1, <1>6, <2>1, <3>1, <3>2, AccountKept
    <2>4. QED BY <2>2, <2>3
  <1>7. QED BY <1>1, <1>3, <1>5, <1>6, ShrinkStep

(* The driver writes the row and lets go: a run_once job that delivered is  *)
(* spent, whatever was edited meanwhile.                                    *)
LEMMA FinishClaimSafe ==
  ASSUME TypeOK, CronInv, WorkersHaveJobs', NEW w \in Workers, FinishClaim(w)
  PROVE  CronInv'
  <1>0. PICK j \in Jobs : j = worker[w].job
    BY DEF FinishClaim, CronInv, HolderInv, WorkersHaveJobs
  <1>1. /\ worker[w].phase = "finish" /\ worker[w].phase \in DrivePhases
        /\ Becomes(w, "ending", worker[w].ok) /\ UNCHANGED <<batch, fired, lost>>
        /\ job' = [job EXCEPT ![j] = FinishedRow(job[j], Disables(w))]
    BY <1>0 DEF FinishClaim, loop, ghost, DrivePhases
  <1>2. /\ j \in Jobs
        /\ worker'[w].phase = "ending"
        /\ \A v \in Workers \ {w} : worker'[v] = worker[v]
        /\ \A v \in Driving(j) : v = w
        /\ ~InBatch(j)
        /\ job[j].status # "absent"
    BY <1>0, <1>1, OneMoves
  <1>3. \A v \in Workers : worker'[v].phase \in DrivePhases => v # w /\ worker'[v] = worker[v]
    BY <1>2 DEF DrivePhases
  <1>4. \A k \in Jobs : Held(k)' => Held(k)
    BY <1>1, <1>3, HeldShrinks
  <1>5. ~Held(j)'
    BY <1>1, <1>2, <1>3 DEF Held, InBatch, Driving
  <1>6. /\ job \in [Jobs -> JobRow] /\ fired \in [Jobs -> Nat] /\ lost \in [Jobs -> Nat]
        /\ \A k \in Jobs \ {j} : job'[k] = job[k]
        /\ job'[j] = FinishedRow(job[j], Disables(w))
    BY <1>1, <1>2 DEF TypeOK
  <1>7. \A k \in Jobs : Held(k)' =>
          job'[k].status # "absent" /\ (job'[k].status = "stored" => job'[k].claimed)
    BY <1>4, <1>5, <1>6 DEF CronInv, HolderInv, HeldJobsAreClaimed, Stored
  <1>8. ASSUME NEW k \in Jobs, OnceHeld(k)' => OnceHeld(k) PROVE Accounted(k)'
    <2>1. Accounted(k)
      BY DEF CronInv, DeliveryInv
    <2>2. CASE k # j
      <3>1. job'[k] = job[k]
        BY <1>6, <2>2
      <3>2. \A v \in Driving(k) : Delivered(v) => v \in Driving(k)' /\ Delivered(v)'
        BY <1>0, <1>2, <2>2 DEF Driving, Delivered
      <3>3. QED BY <1>1, <1>8, <2>1, <3>1, <3>2, AccountKept
    <2>3. CASE k = j
      <3>1. job[j] \in JobRow
        BY <1>2, <1>6
      <3>2. /\ job'[j].status = job[j].status
            /\ job'[j].runOnce = job[j].runOnce
            /\ job'[j].status = "stored" /\ job'[j].enabled => job[j].enabled
            /\ Disables(w) /\ job'[j].status = "stored" /\ job'[j].runOnce => ~job'[j].enabled
        BY <1>6, <3>1 DEF FinishedRow, JobRow
      <3>3. CASE fired[j] <= lost[j]
        BY <1>1, <2>3, <3>3, Settled
      <3>4. CASE \E v \in Driving(j) : Delivered(v)
        <4>1. Disables(w)
          BY <1>2, <3>4 DEF Delivered, Disables
        <4>2. ~(Stored(j) /\ job[j].enabled /\ job[j].runOnce)'
          BY <3>2, <4>1 DEF Stored
        <4>3. ~OnceHeld(j)'
          BY <1>5 DEF Held, InBatch, OnceHeld
        <4>4. fired'[j] <= lost'[j] + 1
          BY <1>1, <1>2, <1>6, <2>1, <2>3 DEF Accounted
        <4>5. job'[j].status # "absent"
          BY <1>2, <3>2
        <4>6. QED BY <2>3, <4>2, <4>3, <4>4, <4>5 DEF Accounted
      <3>5. CASE ~ \E v \in Driving(j) : Delivered(v)
        <4>1. \A v \in Driving(k) : Delivered(v) => v \in Driving(k)' /\ Delivered(v)'
          BY <2>3, <3>5
        <4>2. QED BY <1>1, <1>8, <2>1, <2>3, <3>2, <4>1, AccountKept
      <3>6. QED BY <3>4, <3>5
    <2>4. QED BY <2>2, <2>3
  <1>9. QED BY <1>1, <1>3, <1>7, <1>8, ShrinkStep

(* The driver lets go without writing: a delivery it had made is lost. *)
LEMMA FinishFailsSafe ==
  ASSUME TypeOK, CronInv, WorkersHaveJobs', NEW w \in Workers, FinishFails(w)
  PROVE  CronInv'
  <1>0. PICK j \in Jobs : j = worker[w].job
    BY DEF FinishFails, CronInv, HolderInv, WorkersHaveJobs
  <1>1. /\ worker[w].phase = "finish" /\ worker[w].phase \in DrivePhases
        /\ Becomes(w, "ending", worker[w].ok) /\ UNCHANGED <<job, batch, fired>>
        /\ lost' = IF Delivered(w) THEN [lost EXCEPT ![j] = @ + 1] ELSE lost
    BY <1>0 DEF FinishFails, rows, loop, DrivePhases
  <1>2. /\ worker'[w].phase = "ending"
        /\ \A v \in Workers \ {w} : worker'[v] = worker[v]
        /\ \A v \in Driving(j) : v = w
    BY <1>0, <1>1, OneMoves
  <1>3. \A v \in Workers : worker'[v].phase \in DrivePhases => v # w /\ worker'[v] = worker[v]
    BY <1>2 DEF DrivePhases
  <1>4. \A k \in Jobs : Held(k)' => Held(k)
    BY <1>1, <1>3, HeldShrinks
  <1>5. \A k \in Jobs : Held(k)' =>
          job'[k].status # "absent" /\ (job'[k].status = "stored" => job'[k].claimed)
    BY <1>1, <1>4 DEF CronInv, HolderInv, HeldJobsAreClaimed, Stored
  <1>6. ASSUME NEW k \in Jobs, OnceHeld(k)' => OnceHeld(k) PROVE Accounted(k)'
    <2>1. Accounted(k) /\ fired \in [Jobs -> Nat] /\ lost \in [Jobs -> Nat]
      BY DEF CronInv, DeliveryInv, TypeOK
    <2>2. CASE k = j /\ Delivered(w)
      <3>1. fired[k] <= lost[k] + 1
        BY <2>1 DEF Accounted
      <3>2. lost'[k] = lost[k] + 1 /\ fired'[k] = fired[k]
        BY <1>1, <2>1, <2>2
      <3>3. QED BY <3>1, <3>2, Settled
    <2>3. CASE ~(k = j /\ Delivered(w))
      <3>1. lost'[k] = lost[k] /\ fired'[k] = fired[k]
        BY <1>1, <2>1, <2>3
      <3>2. \A v \in Driving(k) : Delivered(v) => v # w
        BY <1>0, <2>3 DEF Driving
      <3>3. \A v \in Driving(k) : Delivered(v) => v \in Driving(k)' /\ Delivered(v)'
        BY <1>2, <3>2 DEF Driving, Delivered
      <3>4. QED BY <1>1, <1>6, <2>1, <3>1, <3>3, AccountKept
    <2>4. QED BY <2>2, <2>3
  <1>7. QED BY <1>1, <1>3, <1>5, <1>6, ShrinkStep

(* Workers vanish, with the batch of their scheduler or without it: what    *)
(* they had delivered is lost, at most one run's worth per job.             *)
LEMMA DropSafe ==
  ASSUME TypeOK, CronInv, WorkersHaveJobs', NEW S \in SUBSET Workers, Drop(S),
         UNCHANGED <<job, fired>>, \A s \in Schedulers : batch'[s] \subseteq batch[s]
  PROVE  CronInv'
  <1>1. /\ \A w \in S : worker'[w].phase = "free"
        /\ \A w \in Workers \ S : worker'[w] = worker[w]
        /\ \A j \in Jobs : lost'[j] = IF \E w \in S : worker[w].job = j /\ Delivered(w)
                                      THEN lost[j] + 1 ELSE lost[j]
    BY DEF Drop, FreeWorker
  <1>2. \A w \in Workers : worker'[w].phase \in DrivePhases => w \notin S /\ worker'[w] = worker[w]
    BY <1>1 DEF DrivePhases
  <1>3. \A j \in Jobs : Held(j)' => Held(j)
    BY <1>2, HeldShrinks
  <1>4. \A j \in Jobs : Held(j)' =>
          job'[j].status # "absent" /\ (job'[j].status = "stored" => job'[j].claimed)
    BY <1>3 DEF CronInv, HolderInv, HeldJobsAreClaimed, Stored
  <1>5. ASSUME NEW j \in Jobs, OnceHeld(j)' => OnceHeld(j) PROVE Accounted(j)'
    <2>1. Accounted(j) /\ fired \in [Jobs -> Nat] /\ lost \in [Jobs -> Nat]
      BY DEF CronInv, DeliveryInv, TypeOK
    <2>2. CASE \E w \in S : worker[w].job = j /\ Delivered(w)
      <3>1. fired[j] <= lost[j] + 1
        BY <2>1 DEF Accounted
      <3>2. lost'[j] = lost[j] + 1
        BY <1>1, <2>2
      <3>3. QED BY <3>1, <3>2, Settled
    <2>3. CASE ~ \E w \in S : worker[w].job = j /\ Delivered(w)
      <3>1. lost'[j] = lost[j]
        BY <1>1, <2>3
      <3>2. \A w \in Driving(j) : Delivered(w) => w \in Driving(j)' /\ Delivered(w)'
        BY <1>1, <2>3 DEF Driving, Delivered
      <3>3. QED BY <1>5, <2>1, <3>1, <3>2, AccountKept
    <2>4. QED BY <2>2, <2>3
  <1>6. QED BY <1>2, <1>4, <1>5, ShrinkStep

(* A panic, the abort at the end of the shutdown grace, the end of a        *)
(* process.                                                                 *)
LEMMA VanishSafe ==
  ASSUME TypeOK, CronInv, WorkersHaveJobs',
         \/ \E w \in Workers : WorkerPanics(w)
         \/ \E s \in Schedulers : AbortJobs(s) \/ ProcessEnds(s)
  PROVE  CronInv'
  <1>1. batch \in [Schedulers -> SUBSET Snapshot]
    BY DEF TypeOK
  <1>2. ASSUME NEW w \in Workers, WorkerPanics(w) PROVE CronInv'
    <2>1. Drop({w}) /\ UNCHANGED <<job, batch, fired>>
      BY <1>2 DEF WorkerPanics, rows, loop
    <2>2. QED BY <2>1, DropSafe
  <1>3. ASSUME NEW s \in Schedulers, AbortJobs(s) \/ ProcessEnds(s) PROVE CronInv'
    <2>1. /\ Drop(Live(s)) /\ UNCHANGED <<job, fired>>
          /\ \A t \in Schedulers : batch'[t] \subseteq batch[t]
      BY <1>1, <1>3 DEF AbortJobs, ProcessEnds, rows
    <2>2. Live(s) \in SUBSET Workers
      BY DEF Live
    <2>3. QED BY <2>1, <2>2, DropSafe
  <1>4. QED BY <1>2, <1>3

(* Nothing is stored, held or delivered at first. *)
LEMMA InitCron == Init => CronInv
  <1> SUFFICES ASSUME Init PROVE CronInv
    OBVIOUS
  <1>1. \A j \in Jobs : ~Held(j)
    BY DEF Init, Held, InBatch, Driving, FreeWorker, DrivePhases
  <1>2. HolderInv
    BY <1>1 DEF Init, HolderInv, WorkersHaveJobs, FreeWorker, DrivePhases
  <1>3. HeldJobsAreClaimed
    BY <1>1 DEF HeldJobsAreClaimed
  <1>4. DeliveryInv
    BY DEF Init, DeliveryInv, Accounted
  <1>5. QED BY <1>2, <1>3, <1>4 DEF CronInv

(* Every action, and stuttering. *)
LEMMA StepCron ==
  ASSUME ~LongRuns, TypeOK, CronInv, WorkersHaveJobs', [Next]_vars
  PROVE  CronInv'
  <1>1. CASE UNCHANGED vars
    BY <1>1, LoopQuiet DEF vars, rows, loop, ghost
  <1>2. ASSUME NEW s \in Schedulers, LoopStep(s) PROVE CronInv'
    <2>1. CASE DrainDone(s)
      BY <2>1, LoopQuiet DEF DrainDone, rows, ghost
    <2>2. QED BY <1>2, <2>1, TickSafe, SpawnSafe, ReleaseSafe, VanishSafe DEF LoopStep
  <1>3. ASSUME NEW w \in Workers, ExecutorStep(w) \/ PluginStep(w) \/ EndStep(w) PROVE CronInv'
    BY <1>3, WorkerQuiet, DeliverSafe, FinishClaimSafe DEF PluginStep, EndStep
  <1>4. CASE Environment
    <2>1. ASSUME NEW j \in Jobs, NEW enabled \in BOOLEAN, NEW once \in BOOLEAN,
                 Create(j, enabled, once)
          PROVE  CronInv'
      BY <2>1, ToolSafe
    <2>2. ASSUME NEW j \in Jobs, NEW enabled \in BOOLEAN, NEW once \in BOOLEAN,
                 NEW reschedule \in BOOLEAN, Update(j, enabled, once, reschedule)
          PROVE  CronInv'
      BY <2>2, ToolSafe
    <2>3. ASSUME NEW j \in Jobs, Delete(j) PROVE CronInv'
      BY <2>3, ToolSafe
    <2>4. ASSUME NEW j \in Jobs, BecomesDue(j) PROVE CronInv'
      BY <2>4, LoopQuiet DEF BecomesDue, loop, ghost
    <2>5. ASSUME NEW s \in Schedulers, NEW stuck \in SUBSET Jobs, Start(s, stuck) PROVE CronInv'
      BY <2>5, StartSafe
    <2>6. ASSUME NEW s \in Schedulers, StopLoop(s) \/ Shutdown(s) PROVE CronInv'
      BY <2>6, LoopQuiet DEF StopLoop, Shutdown, rows, ghost
    <2>7. ASSUME NEW s \in Schedulers, ProcessEnds(s) \/ ReleaseFails(s) PROVE CronInv'
      BY <2>7, VanishSafe, ReleaseSafe
    <2>8. ASSUME NEW w \in Workers, FinishFails(w) \/ WorkerPanics(w) PROVE CronInv'
      BY <2>8, FinishFailsSafe, VanishSafe
    <2>9. QED BY <1>4, <2>1, <2>2, <2>3, <2>4, <2>5, <2>6, <2>7, <2>8 DEF Environment
  <1>5. QED BY <1>1, <1>2, <1>3, <1>4 DEF Next

(* The inductive invariant holds as long as no run outlasts the threshold. *)
LEMMA CronInvariant == ~LongRuns /\ Spec => [](TypeOK /\ CronInv)
  <1>1. ~LongRuns /\ TypeOK /\ CronInv /\ [Next]_vars => (TypeOK /\ CronInv)'
    <2> SUFFICES ASSUME ~LongRuns, TypeOK, CronInv, [Next]_vars PROVE (TypeOK /\ CronInv)'
      OBVIOUS
    <2>1. WorkersHaveJobs
      BY DEF CronInv, HolderInv
    <2>2. QED BY <2>1, StepTypes, StepWorkersHaveJobs, StepCron
  <1>2. ~LongRuns /\ [Next]_vars => (~LongRuns)'
    OBVIOUS
  <1>3. QED BY <1>1, <1>2, InitTypes, InitCron, PTL DEF Spec

(* claim_due hands a job to one worker only, however many schedulers share  *)
(* the store and however they crash, stop, fail and restart, provided that  *)
(* no run outlasts stuck_recover_secs.                                      *)
THEOREM OneWorkerPerJobHolds == ~LongRuns /\ Spec => []OneWorkerPerJob
  <1>1. CronInv => OneWorkerPerJob
    <2> SUFFICES ASSUME CronInv, NEW j \in Jobs PROVE Cardinality(Driving(j)) <= 1
      BY DEF OneWorkerPerJob
    <2>1. CASE Driving(j) = {}
      BY <2>1, FS_EmptySet
    <2>2. CASE Driving(j) # {}
      <3>1. PICK w \in Driving(j) : TRUE
        BY <2>2
      <3>2. Driving(j) = {w}
        BY <3>1 DEF CronInv, HolderInv, Driving
      <3>3. QED BY <3>2, FS_Singleton
    <2>3. QED BY <2>1, <2>2
  <1>2. QED BY <1>1, CronInvariant, PTL

(* A batch or worker that holds a job owns its claim to the last write: no  *)
(* release, recovery, edit or finish of anybody else frees it.              *)
THEOREM HeldJobsAreClaimedHolds == ~LongRuns /\ Spec => []HeldJobsAreClaimed
  <1>1. CronInv => HeldJobsAreClaimed
    BY DEF CronInv
  <1>2. QED BY <1>1, CronInvariant, PTL

(* A run_once job delivers once per request, and once more only for each    *)
(* run that delivered and could not write finish_claim.                     *)
THEOREM RunOnceDeliversOnceHolds == ~LongRuns /\ Spec => []RunOnceDeliversOnce
  <1>1. TypeOK /\ CronInv => RunOnceDeliversOnce
    BY DEF TypeOK, CronInv, DeliveryInv, Accounted, RunOnceDeliversOnce
  <1>2. QED BY <1>1, CronInvariant, PTL
------------------------------------------------------------------------------
(* A claim is a lease: JobLease is implemented *)

(* What JobLease sees of the store. *)
Claims == {j \in Jobs : job[j].claimed}
Deleted == {j \in Jobs : job[j].status = "deleted"}

LeaseStep == [Lease!Next]_(Lease!vars)

(* The jobs of S change hands, and no other job does. *)
Handed(S, H) == \A j \in Jobs : Holder(j)' = IF j \in S THEN H ELSE Holder(j)

(* A change of hands, as JobLease writes it. *)
LEMMA HandsAreHanded ==
  ASSUME NEW S, NEW H, Handed(S, H)
  PROVE  Lease!Hands(S, H)
  BY DEF Handed, Lease!Hands

(* A scheduler claims jobs that nobody has. *)
LEMMA GrantStep ==
  ASSUME NEW S \in SUBSET Jobs, NEW h \in Schedulers \cup Workers,
         S \cap (Claims \cup Deleted) = {}, \A j \in S : Holder(j) = {},
         Claims' = Claims \cup S, Deleted' = Deleted, Handed(S, {h})
  PROVE  LeaseStep
  <1>1. Lease!Hands(S, {h})
    BY HandsAreHanded
  <1>2. Lease!Grant(S, h)
    BY <1>1 DEF Lease!Grant, Claims, Deleted
  <1>3. QED BY <1>2 DEF LeaseStep, Lease!Next

(* A batch hands a job to a worker. *)
LEMMA PassStep ==
  ASSUME NEW j \in Jobs, NEW h \in Schedulers \cup Workers, Holder(j) # {},
         Claims' = Claims, Deleted' = Deleted, Handed({j}, {h})
  PROVE  LeaseStep
  <1>1. Lease!Hands({j}, {h})
    BY HandsAreHanded
  <1>2. Lease!Pass(j, h)
    BY <1>1 DEF Lease!Pass, Claims, Deleted
  <1>3. QED BY <1>2 DEF LeaseStep, Lease!Next

(* A claim is freed by the one who has it. *)
LEMMA ReturnStep ==
  ASSUME NEW j \in Jobs, Holder(j) # {},
         Claims' = Claims \ {j}, Deleted' = Deleted, Handed({j}, {})
  PROVE  LeaseStep
  <1>1. Lease!Hands({j}, {})
    BY HandsAreHanded
  <1>2. Lease!Return(j)
    BY <1>1 DEF Lease!Return, Claims, Deleted
  <1>3. QED BY <1>2 DEF LeaseStep, Lease!Next

(* Startup frees claims that nobody is behind. *)
LEMMA ReclaimStep ==
  ASSUME NEW S \in SUBSET Jobs, \A j \in S : Holder(j) = {},
         Claims' = Claims \ S, Deleted' = Deleted, \A j \in Jobs : Holder(j)' = Holder(j)
  PROVE  LeaseStep
  <1>1. Lease!Reclaim(S)
    BY DEF Lease!Reclaim, Claims, Deleted
  <1>2. QED BY <1>1 DEF LeaseStep, Lease!Next

(* A job is deleted. *)
LEMMA WithdrawStep ==
  ASSUME NEW j \in Jobs,
         Claims' = Claims \ {j}, Deleted' = Deleted \cup {j},
         \A k \in Jobs : Holder(k)' = Holder(k)
  PROVE  LeaseStep
  <1>1. Lease!Withdraw(j)
    BY DEF Lease!Withdraw, Claims, Deleted
  <1>2. QED BY <1>1 DEF LeaseStep, Lease!Next

(* A job is in one pair of hands. *)
LEMMA OneHolder ==
  ASSUME CronInv, NEW j \in Jobs
  PROVE  \A g, h \in Holder(j) : g = h
  <1>1. ASSUME NEW s \in Schedulers, NEW c \in batch[s], c.job = j
        PROVE  Holder(j) = {s}
    BY <1>1 DEF CronInv, HolderInv, Holder, Driving
  <1>2. ASSUME \A s \in Schedulers : \A c \in batch[s] : c.job # j
        PROVE  \A g, h \in Holder(j) : g = h
    BY <1>2 DEF CronInv, HolderInv, Holder, Driving
  <1>3. QED BY <1>1, <1>2

(* Hands that only let go abandon their jobs, or nothing changes. *)
LEMMA AbandonStep ==
  ASSUME CronInv, Claims' = Claims, Deleted' = Deleted,
         \A j \in Jobs : Holder(j)' \subseteq Holder(j)
  PROVE  LeaseStep
  <1> DEFINE S == {j \in Jobs : Holder(j)' = {}}
  <1>1. \A j \in Jobs : Holder(j)' = {} \/ Holder(j)' = Holder(j)
    BY OneHolder
  <1>2. Handed(S, {})
    BY <1>1 DEF Handed
  <1>3. Lease!Hands(S, {})
    BY <1>2, HandsAreHanded
  <1>4. Lease!Abandon(S)
    BY <1>3 DEF Lease!Abandon, Claims, Deleted
  <1>5. S \in SUBSET Jobs
    OBVIOUS
  <1>6. QED BY <1>4, <1>5 DEF LeaseStep, Lease!Next

(* Nobody holds a job that is in nobody's hands. *)
LEMMA InNoHands ==
  ASSUME NEW j \in Jobs
  PROVE  /\ Held(j) <=> Holder(j) # {}
         /\ Held(j)' <=> Holder(j)' # {}
  BY DEF Held, InBatch, Holder

(* Batches and workers that only let go. *)
LEMMA HandsShrink ==
  ASSUME \A s \in Schedulers : batch'[s] \subseteq batch[s],
         \A w \in Workers : worker'[w].phase \in DrivePhases =>
           worker[w].phase \in DrivePhases /\ worker'[w].job = worker[w].job
  PROVE  \A j \in Jobs : Holder(j)' \subseteq Holder(j)
  BY DEF Holder, Driving

(* The rows keep their claims and stay where they are. *)
LEMMA RowsRest ==
  ASSUME UNCHANGED job
  PROVE  Claims' = Claims /\ Deleted' = Deleted
  BY DEF Claims, Deleted

(* Freeing claims touches nothing else. *)
LEMMA UnclaimedRows ==
  ASSUME TypeOK, NEW S \in SUBSET Jobs, job' = Unclaimed(S)
  PROVE  Claims' = Claims \ S /\ Deleted' = Deleted
  <1>1. job \in [Jobs -> JobRow]
    BY DEF TypeOK
  <1>2. \A j \in Jobs : /\ job'[j].status = job[j].status
                        /\ j \in S => ~job'[j].claimed
                        /\ j \notin S => job'[j] = job[j]
    BY <1>1 DEF Unclaimed, JobRow
  <1>3. QED BY <1>2 DEF Claims, Deleted

(* The steps of a worker that do not write its row. *)
LEMMA WorkerLease ==
  ASSUME TypeOK, CronInv, NEW w \in Workers,
         \/ ExecutorStep(w) \/ PluginStep(w) \/ Retire(w) \/ FinishFails(w)
  PROVE  LeaseStep
  <1>1. worker \in [Workers -> WorkerState]
    BY DEF TypeOK
  <1>2. UNCHANGED <<job, batch>>
    BY DEF ExecutorStep, ExecutorReturns, ExecutorTimesOut, ExecutorCancelled, GraceEnds, PluginStep,
       PreProcess, Deliver, DeliveryRejected, Retire, FinishFails, rows, loop
  <1>3. \A v \in Workers : worker'[v].phase \in DrivePhases =>
          worker[v].phase \in DrivePhases /\ worker'[v].job = worker[v].job
    <2>1. CASE Retire(w)
      BY <1>1, <2>1 DEF Retire, FreeWorker, DrivePhases
    <2>2. CASE FinishFails(w)
      BY <1>1, <2>2 DEF FinishFails, Becomes, WorkerState, DrivePhases
    <2>3. CASE ExecutorStep(w) \/ PluginStep(w)
      <3>1. /\ worker[w].phase \in DrivePhases
            /\ \E p, ok : Becomes(w, p, ok)
        BY <2>3 DEF ExecutorStep, ExecutorReturns, ExecutorTimesOut, ExecutorCancelled, GraceEnds,
           PluginStep, PreProcess, Deliver, DeliveryRejected, DrivePhases
      <3>2. PICK p, ok : worker' = [worker EXCEPT ![w] = [worker[w] EXCEPT !.phase = p, !.ok = ok]]
        BY <3>1 DEF Becomes
      <3>3. QED BY <1>1, <3>1, <3>2 DEF WorkerState
    <2>4. QED BY <2>1, <2>2, <2>3
  <1>4. \A j \in Jobs : Holder(j)' \subseteq Holder(j)
    BY <1>2, <1>3, HandsShrink
  <1>5. QED BY <1>2, <1>4, RowsRest, AbandonStep

(* finish_claim: the driver returns the claim, if the row is still there. *)
LEMMA FinishLease ==
  ASSUME TypeOK, CronInv, ClaimsAreStored, NEW w \in Workers, FinishClaim(w)
  PROVE  LeaseStep
  <1>0. PICK j \in Jobs : j = worker[w].job
    BY DEF FinishClaim, CronInv, HolderInv, WorkersHaveJobs
  <1>1. /\ worker[w].phase = "finish" /\ worker[w].phase \in DrivePhases
        /\ Becomes(w, "ending", worker[w].ok) /\ UNCHANGED batch
        /\ job' = [job EXCEPT ![j] = FinishedRow(job[j], Disables(w))]
    BY <1>0 DEF FinishClaim, loop, DrivePhases
  <1>2. /\ worker'[w].phase = "ending"
        /\ \A v \in Workers \ {w} : worker'[v] = worker[v]
        /\ \A v \in Driving(j) : v = w
        /\ ~InBatch(j)
        /\ Held(j)
    BY <1>0, <1>1, OneMoves
  <1>3. Handed({j}, {})
    <2>1. \A v \in Workers : worker'[v].phase \in DrivePhases => v # w /\ worker'[v] = worker[v]
      BY <1>2 DEF DrivePhases
    <2>2. Holder(j)' = {}
      BY <1>1, <1>2, <2>1 DEF Holder, InBatch, Driving
    <2>3. ASSUME NEW k \in Jobs, k # j PROVE Holder(k)' = Holder(k)
      BY <1>0, <1>1, <1>2, <2>1, <2>3 DEF Holder, Driving
    <2>4. QED BY <2>2, <2>3 DEF Handed
  <1>4. job \in [Jobs -> JobRow]
    BY DEF TypeOK
  <1>5. Claims' = Claims \ {j} /\ Deleted' = Deleted
    <2>1. \A k \in Jobs \ {j} : job'[k] = job[k]
      BY <1>1, <1>4
    <2>2. job'[j] = FinishedRow(job[j], Disables(w)) /\ job[j] \in JobRow
      BY <1>1, <1>4
    <2>3. job'[j].status = job[j].status /\ ~job'[j].claimed
      BY <2>2 DEF FinishedRow, JobRow, ClaimsAreStored, Stored
    <2>4. QED BY <2>1, <2>3 DEF Claims, Deleted
  <1>6. Holder(j) # {}
    BY <1>2, InNoHands
  <1>7. QED BY <1>3, <1>5, <1>6, ReturnStep

(* A batch entry becomes a worker. *)
LEMMA SpawnLease ==
  ASSUME TypeOK, CronInv, NEW s \in Schedulers, NEW w \in Workers, SpawnJob(s, w)
  PROVE  LeaseStep
  <1>1. /\ batch \in [Schedulers -> SUBSET Snapshot]
        /\ worker \in [Workers -> WorkerState]
    BY DEF TypeOK
  <1>2. PICK c \in batch[s] :
          /\ batch' = [batch EXCEPT ![s] = @ \ {c}]
          /\ worker' = [worker EXCEPT ![w] = [sched |-> s, job |-> c.job, runOnce |-> c.runOnce,
                                              phase |-> "pre", ok |-> FALSE]]
    BY DEF SpawnJob, NextInBatch
  <1>3. worker[w].phase = "free" /\ UNCHANGED job
    BY DEF SpawnJob, rows
  <1>4. /\ \A t \in Schedulers : batch'[t] = batch[t] \ (IF t = s THEN {c} ELSE {})
        /\ \A v \in Workers \ {w} : worker'[v] = worker[v]
        /\ worker'[w].job = c.job /\ worker'[w].phase = "pre"
    BY <1>1, <1>2
  <1>5. \A t \in Schedulers : \A d \in batch[t] : d.job = c.job => t = s /\ d = c
    BY DEF CronInv, HolderInv
  <1>6. \A v \in Workers : worker[v].phase \in DrivePhases => worker[v].job # c.job
    BY DEF CronInv, HolderInv
  <1>7. c.job \in Jobs
    BY <1>1, <1>2 DEF Snapshot
  <1>8. Handed({c.job}, {w})
    <2>1. Driving(c.job)' = {w}
      BY <1>4, <1>6 DEF Driving, DrivePhases
    <2>2. \A t \in Schedulers : \A d \in batch'[t] : d.job # c.job
      BY <1>4, <1>5
    <2>3. Holder(c.job)' = {w}
      BY <2>1, <2>2 DEF Holder
    <2>4. ASSUME NEW k \in Jobs, k # c.job PROVE Holder(k)' = Holder(k)
      <3>1. Driving(k)' = Driving(k)
        BY <1>3, <1>4, <2>4 DEF Driving, DrivePhases
      <3>2. \A t \in Schedulers :
              (\E d \in batch'[t] : d.job = k) <=> (\E d \in batch[t] : d.job = k)
        BY <1>4, <2>4
      <3>3. QED BY <3>1, <3>2 DEF Holder
    <2>5. QED BY <2>3, <2>4 DEF Handed
  <1>9. Holder(c.job) # {}
    BY <1>2 DEF Holder
  <1>10. w \in Schedulers \cup Workers
    OBVIOUS
  <1>11. QED BY <1>3, <1>7, <1>8, <1>9, <1>10, RowsRest, PassStep

(* The tick gives a job back, or fails to and forgets it. *)
LEMMA ReleaseLease ==
  ASSUME TypeOK, CronInv, NEW s \in Schedulers, ReleaseUnclaimed(s) \/ ReleaseFails(s)
  PROVE  LeaseStep
  <1>1. batch \in [Schedulers -> SUBSET Snapshot] /\ UNCHANGED worker
    BY DEF TypeOK, ReleaseUnclaimed, ReleaseFails
  <1>2. PICK c \in batch[s] :
          /\ batch' = [batch EXCEPT ![s] = @ \ {c}]
          /\ job' = Unclaimed({c.job}) \/ job' = job
    BY DEF ReleaseUnclaimed, ReleaseFails, NextInBatch, rows
  <1>3. \A t \in Schedulers : batch'[t] = batch[t] \ (IF t = s THEN {c} ELSE {})
    BY <1>1, <1>2
  <1>4. c.job \in Jobs
    BY <1>1, <1>2 DEF Snapshot
  <1>5. CASE job' = job
    <2>1. \A j \in Jobs : Holder(j)' \subseteq Holder(j)
      BY <1>1, <1>3, HandsShrink
    <2>2. QED BY <1>5, <2>1, RowsRest, AbandonStep
  <1>6. CASE job' = Unclaimed({c.job})
    <2>1. \A t \in Schedulers : \A d \in batch[t] : d.job = c.job => t = s /\ d = c
      BY DEF CronInv, HolderInv
    <2>2. Driving(c.job) = {}
      BY DEF CronInv, HolderInv, Driving
    <2>3. Holder(c.job)' = {}
      BY <1>1, <1>3, <2>1, <2>2 DEF Holder, Driving
    <2>4. ASSUME NEW k \in Jobs, k # c.job PROVE Holder(k)' = Holder(k)
      <3>1. \A t \in Schedulers :
              (\E d \in batch'[t] : d.job = k) <=> (\E d \in batch[t] : d.job = k)
        BY <1>3, <2>4
      <3>2. QED BY <1>1, <3>1 DEF Holder, Driving
    <2>5. Handed({c.job}, {})
      BY <2>3, <2>4 DEF Handed
    <2>6. Holder(c.job) # {}
      BY <1>2 DEF Holder
    <2>7. Claims' = Claims \ {c.job} /\ Deleted' = Deleted
      BY <1>4, <1>6, UnclaimedRows
    <2>8. QED BY <1>4, <2>5, <2>6, <2>7, ReturnStep
  <1>7. QED BY <1>2, <1>5, <1>6

(* claim_due grants the jobs it takes. *)
LEMMA TickLease ==
  ASSUME TypeOK, CronInv, NEW s \in Schedulers, Tick(s)
  PROVE  LeaseStep
  <1>1. job \in [Jobs -> JobRow] /\ batch \in [Schedulers -> SUBSET Snapshot]
    BY DEF TypeOK
  <1>2. PICK T \in SUBSET Eligible :
          /\ batch' = [batch EXCEPT ![s] = {[job |-> j, runOnce |-> job[j].runOnce] : j \in T}]
          /\ job' = [j \in Jobs |-> IF j \in T THEN [job[j] EXCEPT !.claimed = TRUE] ELSE job[j]]
    BY DEF Tick, MostOverdue
  <1>3. batch[s] = {} /\ UNCHANGED worker
    BY DEF Tick
  <1>4. \A j \in T : j \in Jobs /\ job[j].status = "stored" /\ ~job[j].claimed
    BY <1>2 DEF Eligible, Stored, TypeOK
  <1>5. \A j \in T : Holder(j) = {}
    BY <1>4, InNoHands DEF CronInv, HeldJobsAreClaimed, Stored
  <1>6. \A t \in Schedulers :
          batch'[t] = IF t = s THEN {[job |-> j, runOnce |-> job[j].runOnce] : j \in T}
                      ELSE batch[t]
    BY <1>1, <1>2
  <1>7. Handed(T, {s})
    <2>1. ASSUME NEW j \in Jobs, j \in T PROVE Holder(j)' = {s}
      <3>1. [job |-> j, runOnce |-> job[j].runOnce] \in batch'[s]
        BY <1>6, <2>1
      <3>2. \A t \in Schedulers \ {s} : \A c \in batch'[t] : c.job # j
        BY <1>5, <1>6, <2>1 DEF Holder
      <3>3. Driving(j)' = {}
        BY <1>3, <1>5, <2>1 DEF Holder, Driving
      <3>4. \A t \in Schedulers : (\E c \in batch'[t] : c.job = j) <=> t = s
        BY <3>1, <3>2
      <3>5. QED BY <3>3, <3>4 DEF Holder
    <2>2. ASSUME NEW j \in Jobs, j \notin T PROVE Holder(j)' = Holder(j)
      <3>1. \A c \in batch'[s] : c.job # j
        <4>1. batch'[s] = {[job |-> i, runOnce |-> job[i].runOnce] : i \in T}
          BY <1>6
        <4>2. ASSUME NEW c \in batch'[s] PROVE c.job # j
          <5>1. PICK i \in T : c = [job |-> i, runOnce |-> job[i].runOnce]
            BY <4>1
          <5>2. QED BY <2>2, <5>1
        <4>3. QED BY <4>2
      <3>2. \A t \in Schedulers :
              (\E c \in batch'[t] : c.job = j) <=> (\E c \in batch[t] : c.job = j)
        BY <1>3, <1>6, <3>1
      <3>3. QED BY <1>3, <3>2 DEF Holder, Driving
    <2>3. QED BY <2>1, <2>2 DEF Handed
  <1>8. Claims' = Claims \cup T /\ Deleted' = Deleted
    <2>1. \A j \in Jobs : /\ job'[j].status = job[j].status
                          /\ j \in T => job'[j].claimed
                          /\ j \notin T => job'[j] = job[j]
      BY <1>1, <1>2 DEF JobRow
    <2>2. QED BY <1>4, <2>1 DEF Claims, Deleted
  <1>9. T \in SUBSET Jobs /\ T \cap (Claims \cup Deleted) = {}
    BY <1>4 DEF Claims, Deleted
  <1>10. s \in Schedulers \cup Workers
    OBVIOUS
  <1>11. QED BY <1>5, <1>7, <1>8, <1>9, <1>10, GrantStep

(* Recovery reclaims what nobody is at, as no run outlasts the threshold. *)
LEMMA StartLease ==
  ASSUME TypeOK, ~LongRuns, NEW s \in Schedulers, NEW stuck \in SUBSET Jobs, Start(s, stuck)
  PROVE  LeaseStep
  <1>1. job' = Unclaimed(stuck) /\ UNCHANGED <<batch, worker>>
    BY DEF Start
  <1>2. \A j \in stuck : Holder(j) = {}
    BY InNoHands DEF Start
  <1>3. \A j \in Jobs : Holder(j)' = Holder(j)
    BY <1>1 DEF Holder, Driving
  <1>4. QED BY <1>1, <1>2, <1>3, UnclaimedRows, ReclaimStep

(* Users take jobs out, and touch no claim otherwise. *)
LEMMA ToolLease ==
  ASSUME TypeOK, CronInv, ClaimsAreStored, NEW j \in Jobs, NEW enabled \in BOOLEAN,
         NEW once \in BOOLEAN, NEW reschedule \in BOOLEAN,
         \/ Create(j, enabled, once)
         \/ Update(j, enabled, once, reschedule)
         \/ Delete(j)
  PROVE  LeaseStep
  <1>1. worker' = worker /\ batch' = batch
    BY DEF Create, Update, Delete, loop
  <1>2. \A k \in Jobs : Holder(k)' = Holder(k)
    BY <1>1 DEF Holder, Driving
  <1>3. job \in [Jobs -> JobRow]
    BY DEF TypeOK
  <1>4. CASE Create(j, enabled, once) \/ Update(j, enabled, once, reschedule)
    <2>1. /\ \A k \in Jobs \ {j} : job'[k] = job[k]
          /\ job'[j].claimed = job[j].claimed
          /\ job'[j].status # "deleted" /\ job[j].status # "deleted"
      <3>1. CASE Create(j, enabled, once)
        BY <1>3, <3>1 DEF Create, JobRow, ClaimsAreStored, Stored
      <3>2. CASE Update(j, enabled, once, reschedule)
        BY <1>3, <3>2 DEF Update, JobRow, Stored
      <3>3. QED BY <1>4, <3>1, <3>2
    <2>2. Claims' = Claims /\ Deleted' = Deleted
      BY <2>1 DEF Claims, Deleted
    <2>3. QED BY <1>2, <2>2, AbandonStep
  <1>5. CASE Delete(j)
    <2>1. /\ \A k \in Jobs \ {j} : job'[k] = job[k]
          /\ job'[j].status = "deleted" /\ ~job'[j].claimed
      BY <1>3, <1>5 DEF Delete, JobRow
    <2>2. Claims' = Claims \ {j} /\ Deleted' = Deleted \cup {j}
      BY <2>1 DEF Claims, Deleted
    <2>3. QED BY <1>2, <2>2, WithdrawStep
  <1>6. QED BY <1>4, <1>5

(* Workers that vanish, with the batch of their scheduler or without it. *)
LEMMA VanishLease ==
  ASSUME TypeOK, CronInv,
         \/ \E w \in Workers : WorkerPanics(w)
         \/ \E s \in Schedulers : AbortJobs(s) \/ ProcessEnds(s)
  PROVE  LeaseStep
  <1>1. batch \in [Schedulers -> SUBSET Snapshot]
    BY DEF TypeOK
  <1>2. PICK S \in SUBSET Workers : Drop(S)
    <2>1. \A s \in Schedulers : Live(s) \in SUBSET Workers
      BY DEF Live
    <2>2. QED BY <2>1 DEF WorkerPanics, AbortJobs, ProcessEnds
  <1>3. UNCHANGED job /\ \A t \in Schedulers : batch'[t] \subseteq batch[t]
    BY <1>1 DEF WorkerPanics, AbortJobs, ProcessEnds, rows, loop
  <1>4. \A w \in Workers : worker'[w].phase \in DrivePhases => worker'[w] = worker[w]
    BY <1>2 DEF Drop, FreeWorker, DrivePhases
  <1>5. \A j \in Jobs : Holder(j)' \subseteq Holder(j)
    BY <1>3, <1>4, HandsShrink
  <1>6. QED BY <1>3, <1>5, RowsRest, AbandonStep

(* Steps of the loop and the clock that touch neither rows nor holders. *)
LEMMA QuietLease ==
  ASSUME CronInv, UNCHANGED <<job, batch, worker>>
  PROVE  LeaseStep
  <1>1. \A j \in Jobs : Holder(j)' = Holder(j)
    BY DEF Holder, Driving
  <1>2. QED BY <1>1, RowsRest, AbandonStep

(* Every step is a step of the lease, or leaves it alone. *)
LEMMA StepLease ==
  ASSUME ~LongRuns, TypeOK, CronInv, ClaimsAreStored, [Next]_vars
  PROVE  LeaseStep
  <1>1. CASE UNCHANGED vars
    BY <1>1, QuietLease DEF vars, rows, loop
  <1>2. ASSUME NEW s \in Schedulers, LoopStep(s) PROVE LeaseStep
    <2>1. CASE DrainDone(s)
      BY <2>1, QuietLease DEF DrainDone, rows
    <2>2. QED BY <1>2, <2>1, TickLease, SpawnLease, ReleaseLease, VanishLease DEF LoopStep
  <1>3. ASSUME NEW w \in Workers, ExecutorStep(w) \/ PluginStep(w) \/ EndStep(w) PROVE LeaseStep
    BY <1>3, WorkerLease, FinishLease DEF EndStep
  <1>4. CASE Environment
    <2>1. ASSUME NEW j \in Jobs, NEW enabled \in BOOLEAN, NEW once \in BOOLEAN,
                 Create(j, enabled, once)
          PROVE  LeaseStep
      BY <2>1, ToolLease
    <2>2. ASSUME NEW j \in Jobs, NEW enabled \in BOOLEAN, NEW once \in BOOLEAN,
                 NEW reschedule \in BOOLEAN, Update(j, enabled, once, reschedule)
          PROVE  LeaseStep
      BY <2>2, ToolLease
    <2>3. ASSUME NEW j \in Jobs, Delete(j) PROVE LeaseStep
      BY <2>3, ToolLease
    <2>4. ASSUME NEW j \in Jobs, BecomesDue(j) PROVE LeaseStep
      BY <2>4, QuietLease DEF BecomesDue, loop
    <2>5. ASSUME NEW s \in Schedulers, NEW stuck \in SUBSET Jobs, Start(s, stuck) PROVE LeaseStep
      BY <2>5, StartLease
    <2>6. ASSUME NEW s \in Schedulers, StopLoop(s) \/ Shutdown(s) PROVE LeaseStep
      BY <2>6, QuietLease DEF StopLoop, Shutdown, rows
    <2>7. ASSUME NEW s \in Schedulers, ProcessEnds(s) \/ ReleaseFails(s) PROVE LeaseStep
      BY <2>7, VanishLease, ReleaseLease
    <2>8. ASSUME NEW w \in Workers, FinishFails(w) \/ WorkerPanics(w) PROVE LeaseStep
      BY <2>8, WorkerLease, VanishLease
    <2>9. QED BY <1>4, <2>1, <2>2, <2>3, <2>4, <2>5, <2>6, <2>7, <2>8 DEF Environment
  <1>5. QED BY <1>1, <1>2, <1>3, <1>4 DEF Next

(* Claims come with claim_due, on stored rows, and go with the row. *)
LEMMA StepClaims ==
  ASSUME TypeOK, CronInv, ClaimsAreStored, [Next]_vars
  PROVE  ClaimsAreStored'
  <1>1. job \in [Jobs -> JobRow]
    BY DEF TypeOK
  <1>2. UNCHANGED job => ClaimsAreStored'
    BY DEF ClaimsAreStored, Stored
  <1>3. ASSUME NEW S \in SUBSET Jobs, job' = Unclaimed(S) PROVE ClaimsAreStored'
    BY <1>1, <1>3 DEF Unclaimed, JobRow, ClaimsAreStored, Stored
  <1>4. ASSUME NEW s \in Schedulers, NEW stuck \in SUBSET Jobs, Start(s, stuck)
        PROVE  ClaimsAreStored'
    BY <1>3, <1>4 DEF Start
  <1>5. ASSUME NEW s \in Schedulers, ReleaseUnclaimed(s) PROVE ClaimsAreStored'
    <2>1. PICK c \in batch[s] : job' = Unclaimed({c.job})
      BY <1>5 DEF ReleaseUnclaimed, NextInBatch
    <2>2. {c.job} \in SUBSET Jobs
      BY <2>1 DEF TypeOK, Snapshot
    <2>3. QED BY <1>3, <2>1, <2>2
  <1>6. ASSUME NEW s \in Schedulers, Tick(s) PROVE ClaimsAreStored'
    <2>1. PICK T \in SUBSET Eligible :
            job' = [j \in Jobs |-> IF j \in T THEN [job[j] EXCEPT !.claimed = TRUE] ELSE job[j]]
      BY <1>6 DEF Tick, MostOverdue
    <2>2. \A j \in T : job[j].status = "stored"
      BY <2>1 DEF Eligible, Stored
    <2>3. QED BY <1>1, <2>1, <2>2 DEF JobRow, ClaimsAreStored, Stored
  <1>7. ASSUME NEW w \in Workers, FinishClaim(w) PROVE ClaimsAreStored'
    <2>1. PICK j \in Jobs : job' = [job EXCEPT ![j] = FinishedRow(job[j], Disables(w))]
      BY <1>7 DEF FinishClaim, CronInv, HolderInv, WorkersHaveJobs
    <2>2. job[j] \in JobRow /\ \A k \in Jobs \ {j} : job'[k] = job[k]
      BY <1>1, <2>1
    <2>3. job'[j].claimed => job'[j] = job[j]
      BY <1>1, <2>1, <2>2 DEF FinishedRow, JobRow
    <2>4. QED BY <2>2, <2>3 DEF ClaimsAreStored, Stored
  <1>8. ASSUME NEW j \in Jobs, NEW enabled \in BOOLEAN, NEW once \in BOOLEAN,
               Create(j, enabled, once)
        PROVE  ClaimsAreStored'
    BY <1>1, <1>8 DEF Create, ClaimsAreStored, Stored
  <1>9. ASSUME NEW j \in Jobs, NEW enabled \in BOOLEAN, NEW once \in BOOLEAN,
               NEW reschedule \in BOOLEAN, Update(j, enabled, once, reschedule)
        PROVE  ClaimsAreStored'
    BY <1>1, <1>9 DEF Update, JobRow, ClaimsAreStored, Stored
  <1>10. ASSUME NEW j \in Jobs, Delete(j) PROVE ClaimsAreStored'
    BY <1>1, <1>10 DEF Delete, JobRow, ClaimsAreStored, Stored
  <1>11. ASSUME NEW w \in Workers, ExecutorStep(w) \/ PluginStep(w) \/ Retire(w)
         PROVE  ClaimsAreStored'
    BY <1>2, <1>11 DEF ExecutorStep, ExecutorReturns, ExecutorTimesOut, ExecutorCancelled,
       GraceEnds, PluginStep, PreProcess, Deliver, DeliveryRejected, Retire, rows
  <1>12. QED
    BY <1>2, <1>4, <1>5, <1>6, <1>7, <1>8, <1>9, <1>10, <1>11
       DEF Next, LoopStep, EndStep, Environment, vars, rows, SpawnJob, DrainDone, AbortJobs,
           BecomesDue, StopLoop, Shutdown, ProcessEnds, ReleaseFails, FinishFails, WorkerPanics

(* Nothing is claimed. *)
LEMMA InitLease == Init => Lease!Init /\ ClaimsAreStored
  <1> SUFFICES ASSUME Init PROVE Lease!Init /\ ClaimsAreStored
    OBVIOUS
  <1>1. \A j \in Jobs : Holder(j) = {}
    BY DEF Init, Holder, Driving, FreeWorker, DrivePhases
  <1>2. \A j \in Jobs : ~job[j].claimed /\ job[j].status = "absent"
    BY DEF Init
  <1>3. QED BY <1>1, <1>2 DEF Lease!Init, ClaimsAreStored

(* Schedulers, workers, users, faults and crashes together implement the    *)
(* lease: a claim is granted, passed on, returned, abandoned and reclaimed  *)
(* so that nobody loses a job they are at to somebody else, provided that   *)
(* no run outlasts stuck_recover_secs.                                      *)
THEOREM SchedulersImplementLease == ~LongRuns /\ Spec => ImplementsLease
  <1>1. Init => Lease!Init /\ ClaimsAreStored
    BY InitLease
  <1>2. ~LongRuns /\ TypeOK /\ CronInv /\ ClaimsAreStored /\ [Next]_vars
          => ClaimsAreStored' /\ [Lease!Next]_(Lease!vars)
    BY StepClaims, StepLease DEF LeaseStep
  <1>3. ~LongRuns /\ [Next]_vars => (~LongRuns)'
    OBVIOUS
  <1>4. QED BY <1>1, <1>2, <1>3, CronInvariant, PTL DEF Spec, ImplementsLease, Lease!Spec
==============================================================================
