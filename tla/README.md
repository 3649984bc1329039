# A TLA+ verification of crabgent

crabgent is an agent framework in Rust: a kernel that drives an LLM with tools,
and around it the long-lived services of a host process: background tasks, cron
jobs, chat channels and their adapters, sessions. This project models the
services in which several futures share state across awaits, process restarts
and shutdowns, checks them with TLC on small instances and proves their main
safety properties with TLAPS for every instance.

Paths below are relative to `src/crabgent/` unless they start with `app/`.

## Inventory

| Component | State | Operations | What makes it hard | What makes it correct |
|---|---|---|---|---|
| Task executor (`crabgent-task`, `crabgent-tool-task`) | task rows in the store; per executor a semaphore, a JoinSet, cancel handles, a pause root and a cancel root | spawn, spawn_blocking, cancel, shutdown, resume_paused; the drive of one task | every await may be dropped, cancel and shutdown race for one OnceLock, crashes between row writes, parents that hold a permit while they wait for a child | one run per task; rows agree with runs; a user's cancel is final; the resume cap counts crashes only; everyone returns |
| Task store (`crabgent-store`) | rows: status, pause cause, error, resume count | insert, finish, pause, claim_for_resume, pause_orphans, recover_stuck | conditional writes decide races | a finished row stays finished |
| Cron scheduler (`crabgent-cron`) | cron rows with a claim; per process a loop, permits, workers | tick, claim, release, drive, deliver, finish_claim, shutdown, startup recovery | several processes over one store, aborts and crashes between delivery and finish_claim, edits during a run | claims are exclusive; run_once delivers once; due jobs are not starved; a cancelled loop stops |
| Channel inbox (`crabgent-channel/src/inbox*`, `crabgent-hook-inject`) | active runs per conversation, injection queues, permits, a JoinSet | receive, receive_reaction, stop messages, injection, release, shutdown | a lookup before an await and its use after it, stopped runs beside their successors, a drain that holds a lock | a conversation has one run that was not stopped; claims are released; injected messages are read; shutdown leaves no run |
| Kernel run loop (`crabgent-core/src/run`) | per run a message log, the calls of the response being streamed, the provider attempt; a driver in a JoinSet | start, replay of the history, turns, tool calls, model fallbacks, pause points, cancellation, on_stop | cancellation at any await, a consumer that goes away, an error half way through a response | a request has no call without its result; a response is not mixed from two attempts; a run that was cancelled ends |
| Kernel shutdown (`crabgent-core/src/kernel`) | shutdown and pause tokens, the JoinSet of drivers | request_pause, shutdown, shutdown_with_pause | runs started meanwhile, drivers that hang | no driver outlives it, it returns |
| Session persistence (`crabgent-session`) | the stored session; per run the cached messages and the last safe snapshot | load, write after input, on_stop by outcome, fan-out of sent messages to other sessions | the log is written in prefixes while it is replayed; other writers of one session; failing writes | what was accepted stays stored; what a completed run did stays stored; a stored log can be sent to a provider |
| Compaction (`crabgent-hook-compact`) | archive of a session, runs that gave up | plan of a cut, archive, summary, replacement of the log, /compact | the cut, the store and the snapshot are changed one after the other | nothing is cut that is not archived; calls and results stay together |
| Commands (`crabgent-command`) | none | dispatch beside a run, recording of the exchange | a read and a write of a session around other writers | a recorded exchange stays recorded |
| Telegram adapter (`crabgent-channel-telegram`), pairing (`crabgent-channel/src/pairing`) | offset, the batch at hand; paired users in memory and in a file | poll, dispatch, back off; pair | confirmation by the next request, failure half way through a batch or an update, a crash between file and reply | no update is confirmed before it was served; who was told to be paired is paired |
| Slack adapter (`crabgent-channel-slack`) | connections, a dedup window they share, repeated acknowledgements | acknowledge, dedup, dispatch, reconnect | every connection gets every envelope, doubtful acknowledgements | an envelope is dispatched once per window and not lost |
| Hook chain, policy; goal runtime; Matrix adapter; live turn, recording | - | - | - | not modelled, see below |
| MCP client and server, providers, SQL stores, memory, tool output cache, voice, calendar, examples, front ends of the app | - | - | I/O, text, floating point, wire formats | not modelled, see below |

How they interact: an adapter calls the inbox once per message, through the
pairing, command and speech inboxes of the app; the inbox starts a kernel run or
queues the message for the run that owns the conversation. A run loads and
writes the session of its conversation through hooks, and calls tools, among them
the task tool (spawn, spawn_blocking, cancel on the task executor, whose tasks
are kernel runs again) and the cron tool (rows of the cron store). The cron
scheduler claims rows and runs jobs through an executor plugin. At startup the
app builds the agents, starts their pollers, then resumes paused tasks, then
starts cron (`app/src/runtime.rs:60-102`); at shutdown it cancels the pollers,
drains cron, then shuts each agent's inbox, task executor and kernel down
(`app/src/runtime.rs:821-862`).

## Modules

| Module | Models |
|---|---|
| `TaskStore` | a task row and its transitions, as operators on rows |
| `TaskExecutor` | the executors of one process over one store: callers, runs, cancels, shutdown calls, the resume scan, restarts |
| `TaskLifecycle` | the abstract promise per task: started, stopped, settled, adopted, given up on; `TaskExecutor` implements it through `Lifecycle == INSTANCE ... WITH status, active` |
| `TaskExecutorSafety` | the inductive invariants `SafetyInv` and, on top of it, `SettleInv`; `OrderInv` for the order of a resume scan |
| `CronScheduler` | schedulers, cron rows, batches, workers, users of the cron tool, restarts; its inductive invariants `CronInv` and `ClaimsAreStored` |
| `JobLease` | the abstract promise per job: its claim is a lease with one holder, granted, passed on, returned, abandoned, reclaimed, withdrawn; `CronScheduler` implements it through `Lease == INSTANCE ... WITH claimed, holder, withdrawn` |
| `ChannelInbox` | receive calls, active runs, injection queues, run and driver tasks, shutdown; its inductive invariant `InboxInv` |
| `Transcript` | the messages of a log and the functions that cut, repair, compact, splice and project it |
| `SessionRuns` | kernel runs over stored sessions: the run loop, its hooks, commands, kernel shutdown, crash and restart; extends `Transcript` |
| `SessionSurvival` | the inductive invariant `SurvivalInv` of `SessionRuns`: what is owed is kept, what was sent arrives |
| `SessionHistory` | the inductive invariants `HistoryInv` and, for the contract of a run, `ContractInv` of `SessionRuns` |
| `AgentRun` | the abstract promise per run to whoever starts it: calls done once and none begun after a cancel or a pause, one outcome, an end no later than the kernel's; `SessionRuns` implements it through `Contract == INSTANCE ... WITH status, did, pausing, gate` |
| `TelegramPoller` | the poller, the pairing inbox with its file, what the inner inboxes answer |
| `SlackSocket` | Socket Mode connections, dedup, listeners |
| `ChannelIngress` | both adapters in one process that may crash |
| `*_proofs` | the theorems |
| `MC*` | constants of the small instances |

The modules split the system where one part relies on a promise of the other:
`ChannelInbox` keeps of a run its turns and its end, `SessionRuns` opens these up
and relies on the inbox for one run per conversation (`RunsOwnTheirConv`), what the
inbox and the task executor may assume of a run is `AgentRun`,
`TelegramPoller` relies on the inbox for `receive` to return (`HandlersReturn`), and
`TaskExecutor` takes a kernel run as a stream that ends or does not.

### TaskExecutor

A run slot `run[r]` is one `do_spawn_with_completion` or `resume_one` with the
future it launches. Its phases are the points between awaits that others can
observe: permit taken (`spawning`, `claiming`), row written (`stored`), cancel
handle registered (`handled`), in the JoinSet and draining the kernel's stream
(`drain`), cancelled and inside the cancel grace (`cancelling`), outcome
classified (`decided`), row written (`persisted`). `caller[t]` is the future that
called spawn or spawn_blocking; inside a parent's tool call it is dropped with
the parent's run (`CallerAbandoned`). `shut[e][c]` is one call of `shutdown()`:
fire the pause root, take the JoinSet, drain, fire the cancel root and stamp
reasons, abort. `boot`, `selected`, `pending`, `current` are `resume_paused`.
`Restart` ends a process, with or without a finished shutdown, and starts the
next one on the same rows. A run that times out is classified at once, although
the code goes on draining the kernel for `shutdown_grace`: nothing the drain yields
changes the outcome, and the delay is that of `Persist`. So "executing" in the
safety properties means that the outcome is still open.

Constants that describe the host: `BootFirst` (spawns are accepted only after
`resume_paused` returned), `Executors` (one per agent over one store),
`CallersMayDrop`, `CrashAllowed`, `Sweeper` (`recover_stuck` is scheduled),
`Legacy` (rows written by a version without resume specs).

### CronScheduler

`job[j]` is a row; of `next_run` the model keeps whether it has passed (`due`)
and which due job comes first (`earlier`). A scheduler's loop is `down`,
`ticking`, `draining` or `stopped`; a batch is what `claim_due` returned and the
tick has not dispatched. A worker goes through pre-processors, executor (with
timeout, cancel and grace), deliveries, `finish_claim`. The snapshot taken at the
claim is what a worker works from, as in the code. `LongRuns` lets a start
recover claims of jobs that are still driven: the default threshold is 600 s and
the app allows jobs of an hour.

### ChannelInbox

The run a message starts carries the message's name, since every `receive` makes
a run id of its own. `handler[m]` is the receive call (`policy`, `inject`, `permit`,
`spawn`, then an end), `run[m]` the run task with the kernel's driver: `turn`, `llm`
(request sent), `stopping` (before on_stop), `stopped` (last item sent),
`releasing` (permit dropped), `reporting` (conversation released), `dropped` (the
run task is gone, the driver still winds down), `ended`. A turn of the kernel is
abstracted to: drain and call, then call tools, finish, fail or be cancelled.

### Transcript and SessionRuns

A message of `Transcript` is its variant with the identity of what it holds: the
run whose prompt it is, the calls of an assistant message, the call a result
answers. `safe_prefix`, `repaired_paused_log`, `longest_safe_prefix` (session
hook), `PlanStart`, `PlanEnd`, `CompactedLog` (compaction), `Splice` (injection)
and `project_conversation` (projection) are those functions on sequences of
messages, with the positions of the code.

`pc[r]` is where the driver of run `r` stands, with a phase for every await at
which cancellation can drop it: `start` (session hooks), `replay` and the other
appending phases `answer` and `resolve`, `turn`, `summarize`, `request`, `llm`,
`tool`, `execute`; then `stop`, `fan`, `fanwrite`, `send`, which run outside the
cancellable future and only an abort stops. `loop[r]` holds the locals of
`drive_inner`: log, messages about to be appended, calls not dispatched yet, turn,
attempt, calls streamed so far. `AppendMessage` appends one message with
everything `on_message` does for it, the write of the session included, since a
run can be cancelled between two of them. `opened`, `cached`, `snapshot` are the
entry of a run in `SessionPersistHook`, `muted` the runs that gave up compacting,
`pending` the injection queues. `outcome[r]` decides what `OnStop` stores: the
log, the repaired log, or the longer of snapshot and safe prefix. `fan` and `copy`
are the fan-out, which reads and writes the sessions of other conversations while
their runs go on. `command[s]` is a slash command of a conversation, a read and a
later write of its session. `kernel`, `paused`, `cancelled`, `dropped` are the
tokens and the progress of `shutdown_with_pause`. A token counts as fired when the
biased `select!` of the driver would see it at its next poll; what a poll in
progress still does comes before it.

`history`, `ready`, `executed`, `recorded`, `arrived`, `tainted` record what happened and
guard nothing. `tainted` names the sessions where a write failed or two writers
overlapped: `save_messages` replaces the whole session and a failure is only
logged, so nothing can be promised of these; the survival properties are about
the others. Their second premise, that a run which loaded a history has replayed
it (`Calm`), is the place of the finding `session_history`.

### TelegramPoller, SlackSocket, ChannelIngress

`feed` and `confirmed` are Telegram's side: `getUpdates` confirms what lies before
its offset and returns the rest. `poller` is where `tick_once` stands, `batch` and
`todo` what it still has to hand over; a reaction update makes two events, in the
order of a hash set. `paired` and `pair_file` are the two copies of the pairing
store. `TickFails` is every error path: back off, then fetch from the last offset.

On Slack's side `published` and `acked` decide what is delivered again. `conn` is
where a connection's loop stands, `order` the dedup window, `reacks` the
acknowledgements repeated in the background, `excused` the envelopes whose
acknowledgement was in doubt, whose payload could not be read or that were hit by
a crash between acknowledgement and dispatch: the code acknowledges first, so
these may be lost.

`ChannelIngress` puts both into a process that ends at any point; Telegram's
offset, the dedup and all connections are gone then, the file stays.

### What the data abstraction leaves out

Time (a timer may fire whenever it is armed), texts, token counts (a log is
compacted when it has too many messages), task output and its buffer, observers
and notifiers, logging, request planning, acknowledgement messages, listing
operations, a failed `claim_due` (it changes nothing), the concrete schedule of a
job, the contents of updates and envelopes. Reasons and causes that decide a
branch are kept.

## Runs

| Run | Shows | States |
|---|---|---|
| `restarts` | a task and a row of an older deploy, four process starts, resume cap 1, the sweeper, two store faults, crashes, shutdowns, cancels and timeouts in every order: rows and runs stay in step, only involuntary interruptions spend the cap | 351 k |
| `family` | a parent blocked on its child, dropped callers, a store fault, a restart; also that the executor implements `TaskLifecycle` | 867 k |
| `live` | one permit held by a blocking task that blocks on its own child, a failed write, a crash and a restart, after which two paused tasks may want the one permit: callers, shutdown and resume return, launched runs settle their rows | 228 k |
| `adoption` | (violation) the second executor's adoption folds tasks the first has just resumed | |
| `cancel_pause` | (violation) an accepted cancel ends Paused | |
| `cron_safety` | two processes, one permit each, two jobs per claim, an edit, a fault, restarts: claims are exclusive up to the last write, a repeated delivery is paid for by a lost claim; also that the schedulers implement `JobLease` | 1.9 M |
| `cron_live` | three jobs, two claims per tick, one permit: no job starves while ticks find permits, a cancelled loop stops | 270 k |
| `inbox` | two messages and a stop message of one conversation, one permit, two turns, one fault, shutdown at any point: claims, injection and the end of calls, stopped runs and shutdown | 52 k |
| `inbox_lost` | (violation) an accepted follow-up is never read | |
| `session_runs` | two of three runs over two sessions with tool batches, attachments, notifications, fallbacks, compaction, injection, cancels, dropped streams, pause, shutdown, crash and failing writes: what is stored, what is sent, and that cancelled runs and the shutdown end although everything they wait for hangs; also that the runs implement `AgentRun` | 412 k |
| `session_history` | (violation) a run cancelled while it replays the stored history leaves only what it has replayed | |
| `ingress` | up to three updates of every kind from two users, or three envelopes over two connections and a window of two, with every failure the code handles and a crash: nothing is lost, let in unpaired or dispatched twice | 630 k |

### Bounds, and why they are enough

`MaxBoots`, `MaxStarts`, `MaxEdits`, `MaxFaults`, `MaxTurns`, `MaxUpdates` and the budgets
of `SessionRuns` and `ChannelIngress` only bound how often the environment acts.
Two tasks are enough for a parent and a child and for one task to compete with
another for a permit; two starts give a crash, the adoption of what it left and a
second interruption; a cap of 1 is reached and exceeded. In `live` the one fault
makes the resume scan wait for a permit: the parent times out, its last write
fails and leaves the row Running, its child gets the permit, and the restart finds
both rows to resume with one permit. Two schedulers with one
permit each make claims collide and permits run out. In `cron_live` two of three
jobs are claimed per tick for the one permit, so a job is released while another
of its batch is still to be dispatched, and a third competes for the next tick.
Two messages and a stop of
one conversation give a run, its successor after the stop, and a follow-up that
may reach either.

A behaviour of `session_runs` starts two of three runs and has one kind of
disturbance (`Scenarios`): that gives a run and its successor on one session, or a
run and another one whose session it sends to. Logs of more than four messages
are compacted down to the last one, or the last group of a call and its results,
which a second run reaches; two turns and two calls per
response give a call that is dangling while another is resolved; two attempts
give a response that fails half way. One scenario combines two disturbances: a
message injected after a tool of a batch has handed back an attachment; another
gives commands to a process that shuts down. Other
combinations are left to the proofs, which bound none of it.

`ingress` gives one adapter traffic at a time, as they share only the crash. Three
updates give one before and one after a failing one; a window of two is full after
two envelopes, so a third evicts the first.

Tasks' run slots, worker slots, jobs and schedulers are interchangeable, so the
safety runs of the task executor and of cron use symmetry; runs with liveness
properties do not. Deadlock is not checked: a process with nothing to do, or with its bounds
used up, may stop, and what must happen is stated as liveness.

### Fairness

Weak fairness on a step of a future means that the runtime polls every future it
owns, locks are granted and timers fire. Strong fairness is assumed in two places
where tokio gives it: the semaphore of the inbox queues waiters in order, so a
message that waits while permits come and go is served; and the fired token of the
cron loop stays ready while `select!` picks other branches. The task executor
needs neither: it has weak fairness per caller, per run, per resume scan and per
shutdown call, whatever step each of them may take, and nothing is said of who
gets a permit, since each task asks for one once in a process and each run gives
its own back. Nothing is assumed of users, faults, crashes or providers:
a kernel run may never end by itself. Where the code has no timeout of its own
the assumption is a premise of the property: `PluginsReturn` (cron pre-processors
and deliveries), `SinksAnswer` and `ProviderAnswers` (inbox). `StoppedRunsEnd`
needs no answer of the provider, `InboxShutdownReturns` none at all.

`SessionRuns` has weak fairness on five things only: a driver whose token fired is
polled (`ObserveCancel`), the watchdog of a dropped stream and the watcher of the
shutdown token wake up, and the shutdown sequence goes on. Nothing is assumed of
providers, tools, hooks or the store, so `HungRunsEnd` and `KernelShutdownReturns`
hold for runs that hang anywhere.

`ChannelIngress` has weak fairness on a step of the poller. That a step exists
while `receive` is awaited says that `receive` returns, which is `HandlersReturn`
of the inbox, under its own premises. Faults are finite in number, so
`UpdatesSettle` says nothing of an update that fails for ever: the poller fetches
it again each time and reads nothing behind it.

### Findings

* `adoption`: `pause_orphans` judges a Running row by its age, so with one
  executor per agent over one store the second `resume_paused_with` folds tasks
  the first has just resumed. The doc calls the pass agent-neutral and a second
  one a no-op.
* `cancel_pause`: if the shutdown stamped its reason first, `cancel()` returns
  true and the task is stored Paused, to run again at the next boot.
* `inbox_lost`: a message queued for a run in its last LLM call, or between
  `on_stop` and `release_conv`, is accepted and never read. The terminal front end
  carries such messages over to a follow-up run (`app/src/tui_ws.rs`); the inbox
  does not.
* `session_history`: the replay of the stored history goes through
  `MessageLog::append`, so `on_message` writes every prefix that ends in user or
  system input over the stored session and over the safe snapshot. A run that is
  cancelled in the middle of the replay leaves the prefix; the rest of the history
  is gone. The comment at `safe_prefix` takes the latest log for a superset of
  earlier snapshots, which it is not during the replay.

Limits that are constants of the models rather than findings: with
`BootFirst = FALSE`, which is how the app is wired (pollers start before the resume
scan), `OneRunPerTask` fails; with `LongRuns = TRUE` so do the claims of cron jobs;
with two overlapping `shutdown()` calls the second fires the cancel root at once; a cron
worker that uses its whole cancel grace is aborted by the shutdown grace of the
same length before `finish_claim`, and its claim waits for the next start.

Starvation of a cron job is stated with an exception the code has. A job that
finds no permit is released, and a later job of the same batch takes a permit that
becomes free a moment after; if that happens at every tick, the ticks find no
permit and the most overdue job waits for ever. `DueJobsAreDriven` excuses a
scheduler in that state (`Saturated`) and no other: without the exception TLC finds
that behaviour, with it a tick that finds a permit gives it to the most overdue
job. The order within a batch is that of the memory store; `UPDATE ... RETURNING` of
the SQL store promises none.

Two properties of the sessions are stated with an exception the code has:

* A tool of a batch that hands back an attachment, or sends a message, puts it
  into the log before the results of the tools behind it. The unresolved tail that
  `before_llm` looks for starts behind it, so an injected message can come
  between a call of the batch and its result (`RequestsAreWellFormed`;
  `before_llm_splices_after_user_inside_toolchain` in
  `crabgent-hook-inject/src/tests.rs` expects it). A history cut there keeps calls
  whose results are lost (`NoDanglingHistory`); `drop_orphan_tool_pairs` takes them
  out of every request.
* A completed run fans out the messages its log still holds. One that a compaction
  has cut from the log before the run ended is never copied to the conversation it
  was sent to (`NotifiesArriveOnce` speaks of the messages in the stored session).

Behaviour the models contain and no property is about: an injected message is
part of one request and neither of later ones nor of the stored session; a
command recorded while a run goes on is overwritten by that run, or overwrites
what it has written (`tainted`).

## Theorems

Every theorem is for all values of the constants under the named assumptions
(`ExecutorAssumption`, `CronAssumption`, `InboxAssumption`, `SessionAssumption`,
`IngressAssumption`, which say that the constants have their types) and the
premises given here.

* `TaskExecutor_proofs`: `TypesHold`.
* `TaskExecutorSafety_proofs`, for a host with one executor that resumes first
  (`SingleHost`): `OneRunPerTaskHolds`, `PausedRowsAreIdleHolds`,
  `TerminalRowsAreIdleHolds` (without the sweeper), `StampedCancelIsFinalHolds`,
  `OnlyInvoluntaryPausesCountHolds`, `LimitFailsPoisonTasksOnlyHolds`. The
  properties are not inductive. One run per task needs that a task whose caller
  has no permit is absent (`CallerInv`), that nothing runs before adoption
  (`BootInv`) and that the scan works on a task once (`ScanInv`). That a paused row
  is idle needs that an executed row is Running (`RowInv`). That a stamped cancel
  is final needs that a stamped run keeps its reason and is not decided as paused
  (`StampInv`). The cap needs that a pause which counts is owed by an interruption
  of its own (`HitsInv`).

  A second invariant, `SettleInv`, is proved on top of it and gives
  `BlockingAnswersAreSettledHolds`, `RunningRowsAreBackedHolds` and
  `ExecutorImplementsLifecycle`. A blocking caller reads a row that has settled
  because it waits for the run it launched and only that run may settle the row
  (`WaiterInv`), because a run that has decided still finds its row Running
  (`VerdictInv`), and because a resumed task was never waited for in this process
  (`FreshInv`, `ResumeInv`). A Running row has a run behind it because whoever
  writes Running goes on to launch (`BackedInv`). That holds only where nobody
  drops a spawn call: a future dropped between its insert and the spawn of its run
  leaves a Running row until the next boot adopts it, so the premise of
  `RunningRowsAreBackedHolds` is `Undroppable` for every task: callers wait and
  no task is spawned from inside another. The refinement maps every step to a
  start, a stop, a verdict, an adoption, a row given up on or condemned, or to a
  stutter; one lemma per abstract action states when it is taken, one per action
  of the executor which of them it is.

  `ChildrenResumeFirstHolds` needs neither `SingleHost` nor these invariants: any
  number of executors may scan and restart. A scan orders rows by `depth`, a walk
  along parent links of at most `MaxDepthWalk` rows, which the model writes as a
  recursive function. Where such a walk leads is proved by taking the least step at
  which the claim would fail, so no induction theorem is needed; a child then
  is one level deeper than its parent, so a scan that takes a deepest row first
  takes it first (`OrderInv`, checked on `family`). The premise
  `NestingIsBounded` says that every row's links end, and within the walk's limit:
  `ensure_depth_allowed` (`crabgent-tool-task/src/depth.rs`) refuses a task whose
  chain of ancestors has a cycle or more than 16 members.
* `CronScheduler_proofs`: `TypesHold`, and for runs shorter than the recovery
  threshold (`~LongRuns`) `OneWorkerPerJobHolds`, `HeldJobsAreClaimedHolds`,
  `RunOnceDeliversOnceHolds`. `HolderInv` gives each job one holder, a batch or a
  worker, across processes; `DeliveryInv` says of a delivery that is not paid for
  that its run is about to finish the claim or that the request is spent.

  `SchedulersImplementLease`, under the same premise, maps every step to a grant, a
  hand-over, a return, a withdrawal, claims abandoned or reclaimed, or a stutter.
  It rests on `HeldJobsAreClaimed`: a job is granted only while the store shows it
  free, and that nobody is at it then is exactly that invariant. With `LongRuns` a
  start reclaims jobs somebody still holds, and the refinement fails.
* `ChannelInbox_proofs`: `TypesHold`, `RunsOwnTheirConvHolds`,
  `ClaimsHaveOwnersHolds`, `NextTurnSeesInjectedHolds`, `ShutdownLeavesNoRunHolds`.
  A run owns its conversation because its receive call did while it waited for a
  permit; `release_conv` spares the successor because an entry names one run; a
  message is seen by the next call because until then it is queued
  (`PendingMessagesAreQueued`).
* `Transcript_proofs`: what the log functions keep, for every log:
  `SafePrefixKeepsInput`, `PausedLogIsRepaired`, `CompactionKeepsSafePrefix` (what
  a compaction takes out of a log, and out of its safe prefix, is in the messages
  it archives).
* `SessionRuns_proofs`: `TypesHold`, `ResponsesAreWhole` (no response mixes the
  calls of two attempts, because a fallback resets what was streamed and
  everything streamed carries the attempt at hand), `ShutdownIsComplete`.

  On `HistoryInv` rest `HistoriesAreWhole`, `RequestsWellFormed` and
  `NotifiesAreSingle`. A log is sound when no call, result or sent message is in
  it twice, results follow their calls, and nothing but results and calls comes
  between a call and its answer, where an attachment of the same response counts
  as one (`Unique`, `Ordered`, `Settled`). Soundness is chosen so that the three
  things that happen to a log keep it: a message is appended, the log is cut to a
  prefix that ends in input, a front part is replaced by a summary (`PrefixSound`,
  `CompactedSound`). A log with nothing open (`Whole`) may be stored or sent. An
  appended call is new because the calls of a run are numbered by its turn
  (`Numbered`), and because a run is mentioned nowhere, in no store, log, snapshot
  or copy, before its first turn (`Known`, `Unmentioned`).

  `RunsImplementAgentRun` has no premise. That a returned call was not done before
  needs that everything done lies behind the run: in an earlier turn, or in this
  one and no longer in its batch, whose calls are distinct by `Numbered`. That a
  cancel is final for a run, and that only cancelled runs are aborted, needs that
  tokens belong to live runs and a dropped stream has fired its token. `ContractInv`
  says both. There is one lemma per action of `AgentRun` and one per action of the
  drivers, consumers, commands and the shutdown.
* `SessionSurvival_proofs`: `SurvivalInvHolds`, `InputSurvives`, `WorkSurvives`,
  `NotifiesArrive`. What a session owes (`Owed`: prompts of runs that got to their
  first turn, recorded commands, results of completed or paused runs, messages a
  fan-out has written to it) is in the store or the
  archive; to be inductive that has to be said of everything a run holding the
  session may write over it next: the history it is replaying (`ReplayKeeps`), its
  log, its cached messages and their safe prefix, and the snapshot
  (`CacheKeeps`, `ResultsKept`). One run holds a session (`SoleHolderInv`), because
  a second entry taints it; a compaction archives before it cuts. Steps of other
  runs and other sessions are covered by one frame lemma (`DriverFrame`).

  That a sent message arrives rests on two parts of the same invariant. What a
  session shows of messages sent to it from elsewhere, in its store or in what a
  run holding it may write, was brought by a fan-out (`BroughtInv`): so a run that
  finds the message in the target and skips it skips one that has arrived. And
  every message a completed run has sent, of those its session shows, has arrived
  or is still ahead of its fan-out (`FanInv`). A step can break the two only by
  showing a new record of a message sent (`ArrivalStep`), which the run that sent
  it does before it completes. Arrived, the message is owed, and stays.
* `ChannelIngress_proofs`: `IngressInvHolds`, `UpdatesAreServed`, `PairingLasts`,
  `EnvelopesAreDispatchedOnce`. A batch is gapless from the offset on, so the
  offset never passes an update that was not served; memory and file of the
  pairing store differ at most in the user being added; the dedup holds exactly
  the last envelopes that were accepted.

The proofs have one lemma or step per action and one step per conjunct that the
action can disturb.

Only model-checked: liveness under fairness, which is out of the prover's reach, as
is ENABLED. Every safety property of a passing run is proved.

## Not modelled

* Matrix adapter: the SDK keeps the sync token and delivers events; an error of
  `receive` is logged and the event skipped, so there is no retry or order of the
  adapter's own to model. The reaction tracker is a bounded map.
* Hook chain and policy: a sequential composition of decisions without state;
  what a denial does to a run is `Fail` in `SessionRuns` and `PolicyDenies` in
  `ChannelInbox`.
* Goal runtime: status, budgets and steering of turns; the next candidate.
* Live turn delivery, recording, startup cutoff: rendering of a run's events into
  edits of a message.
* MCP client: reconnects and pending requests, a candidate; MCP server: request
  and response translation.
* SQL stores: the semantics of rows is modelled from the memory stores and from
  the statements the models depend on.
* Providers and transport, channel senders: wire formats. The models take a
  provider as something that answers, fails or hangs.
* Memory and consolidation, prosody, voice, divergence: scores over floating-point
  numbers and text. Tool output cache: text filters. Calendar: a library's date
  arithmetic.
* The application's own web, terminal and voice front ends, configuration and
  login: a fifth of the code, nearly all of it I/O, parsing and layout. Its
  startup and shutdown order are constraints of the task and cron models, its
  carry-over of unread messages is mentioned under the findings.

The modules stand for the parts of the code in which state is shared across
awaits, tasks or restarts. They are a small share of its lines: most of the
126 000 lines are wire formats, rendering, SQL text, schemas of tools and front
ends, which have no steps of their own to check. What is left of the kind
modelled here is the goal runtime, the MCP client and the live turn.

Five hazards are listed without a property: the output buffer of a failing
`append_output`, the equal graces of cron, an edit overwritten by `finish_claim`,
injected messages that are not kept, and an update that keeps the poller from
reading the ones behind it. Of some others a premise leaves out a part: a row
whose caller was dropped stays Running until the next boot, a cron job that runs
longer than the recovery threshold, a panic of an inbox run, two writers of one
session. Each says so and why in its note in `PROJECT.json`.

## Plan

1. `ChannelInbox` and `TaskExecutor` over `AgentRun` instead of the runs they keep
   themselves.
2. Goal runtime over `SessionRuns`; MCP client; live turn delivery.

## Running

`tlc -config <run>.cfg <MC module>` for a run of `PROJECT.json`, `tlapm <module>` for
a `_proofs` module.
