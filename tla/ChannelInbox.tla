----------------------------- MODULE ChannelInbox -----------------------------
(***************************************************************************)
(* crabgent-channel: KernelChannelInbox, its InboxLifecycle and the         *)
(* InjectionRegistry it shares with the kernel's InjectHook.                *)
(*                                                                          *)
(* Adapters call receive() concurrently, once per inbound message.  The     *)
(* first message of an idle conversation claims it, waits for a permit and  *)
(* spawns a kernel run; a message that finds the conversation claimed is    *)
(* queued for the run that owns it, which drains its queue before each LLM  *)
(* call and drops what is left when it stops.  A stop message frees the     *)
(* conversation at once and cancels the run, which winds down beside its    *)
(* successor.  Shutdown cancels all runs, drains them under the JoinSet's   *)
(* lock, and aborts the ones that outlast the grace.                        *)
(*                                                                          *)
(* The run a message starts carries the message's name: every receive()     *)
(* makes a run id of its own.  Texts, labels, acknowledgements and the live *)
(* rendering of a turn are left out.                                        *)
(***************************************************************************)
EXTENDS Naturals, FiniteSets

CONSTANTS
  Messages,       \* inbound messages and reactions
  Convs,          \* (channel, conversation) keys
  ConvOf,         \* the conversation of each message
  Stops,          \* the messages that match the stop pattern
  None,           \* no run
  MaxConcurrent,  \* max_concurrent, at least 1
  MaxTurns,       \* max_turns of a run
  MaxFaults       \* bound: panics, and receive() futures dropped by an adapter

ASSUME InboxAssumption ==
  /\ ConvOf \in [Messages -> Convs]
  /\ Stops \subseteq Messages
  /\ None \notin Messages
  /\ MaxConcurrent \in Nat \ {0}
  /\ {MaxTurns, MaxFaults} \subseteq Nat

VARIABLES
  handler,  \* where the receive() call of each message stands
  target,   \* the run try_claim_conv told a message to join
  active,   \* active_runs: the run that owns each conversation
  queue,    \* InjectionRegistry: the messages pending for each run
  run,      \* where the run of each message stands
  turns,    \* LLM calls each run has made
  fired,    \* runs whose own cancel token fired
  shut,     \* progress of shutdown_with_grace
  faults

(* Observability variables: they record history and guard no action. *)
VARIABLES
  seen,     \* messages that were part of an LLM request
  at,       \* turns of the target when a message was queued for it
  outcome   \* how each run ended

inflow  == <<handler, target, at>>
control == <<shut, faults>>
vars    == <<inflow, active, queue, run, turns, fired, control, seen, outcome>>

------------------------------------------------------------------------------
(* State *)

HandlerEnds == {"launched", "injected", "stopped", "refused"}

(* A run task is in the JoinSet until it ends; it owns its conversation     *)
(* until it has released it.  In "dropped" it is gone and the kernel's      *)
(* driver task still winds down.                                            *)
DriverPhases == {"turn", "llm", "stopping"}
OwningPhases == DriverPhases \cup {"stopped", "releasing"}
JoinedPhases == OwningPhases \cup {"reporting"}
RunPhases    == JoinedPhases \cup {"none", "dropped", "ended"}

TypeOK ==
  /\ handler \in [Messages -> {"new", "policy", "inject", "permit", "spawn"} \cup HandlerEnds]
  /\ target \in [Messages -> Messages \cup {None}]
  /\ active \in [Convs -> Messages \cup {None}]
  /\ queue \in [Messages -> SUBSET Messages]
  /\ run \in [Messages -> RunPhases]
  /\ turns \in [Messages -> Nat]
  /\ fired \in SUBSET Messages
  /\ shut \in {"up", "cancelled", "draining", "returned"}
  /\ faults \in Nat
  /\ seen \in SUBSET Messages
  /\ at \in [Messages -> Nat]
  /\ outcome \in [Messages -> {"none", "completed", "failed", "cancelled"}]

Init ==
  /\ handler = [m \in Messages |-> "new"]
  /\ target = [m \in Messages |-> None]
  /\ active = [c \in Convs |-> None]
  /\ queue = [m \in Messages |-> {}]
  /\ run = [m \in Messages |-> "none"]
  /\ turns = [m \in Messages |-> 0]
  /\ fired = {}
  /\ shut = "up"
  /\ faults = 0
  /\ seen = {}
  /\ at = [m \in Messages |-> 0]
  /\ outcome = [m \in Messages |-> "none"]

------------------------------------------------------------------------------
(* Derived state *)

IsShutdown == shut # "up"

(* The child token of a run: fired itself, or through the lifecycle's. *)
IsCancelled(m) == m \in fired \/ IsShutdown

Joined == {m \in Messages : run[m] \in JoinedPhases}

(* Mutant: a run that fails does not give its permit back. *)
Permits_LostOnFailure ==
  {m \in Messages :
     \/ handler[m] = "spawn"
     \/ run[m] \in DriverPhases \cup {"stopped"}
     \/ run[m] = "ended" /\ outcome[m] = "failed"}

Permits == {m \in Messages : handler[m] = "spawn" \/ run[m] \in DriverPhases \cup {"stopped"}}

PermitFree == Cardinality(Permits) < MaxConcurrent

Handled(m, h) == handler' = [handler EXCEPT ![m] = h]

Moves(m, p) == run' = [run EXCEPT ![m] = p]

Fault ==
  /\ faults < MaxFaults
  /\ faults' = faults + 1
  /\ UNCHANGED shut

------------------------------------------------------------------------------
(* receive() *)

(* cancel_conv: the entry goes first, then the token fires. *)
ReceiveStop(m) ==
  /\ handler[m] = "new"
  /\ m \in Stops
  /\ active' = [active EXCEPT ![ConvOf[m]] = None]
  /\ fired' = fired \cup ({active[ConvOf[m]]} \ {None})
  /\ Handled(m, "stopped")
  /\ UNCHANGED <<target, at, queue, run, turns, control, seen, outcome>>

(* dispatch_request up to the policy's answer. *)
Receive(m) ==
  /\ handler[m] = "new"
  /\ m \notin Stops
  /\ Handled(m, IF IsShutdown THEN "refused" ELSE "policy")
  /\ UNCHANGED <<target, at, active, queue, run, turns, fired, control, seen, outcome>>

PolicyDenies(m) ==
  /\ handler[m] = "policy"
  /\ Handled(m, "refused")
  /\ UNCHANGED <<target, at, active, queue, run, turns, fired, control, seen, outcome>>

(* try_claim_conv, under the lock of active_runs. *)
TryClaim(m) ==
  LET c == ConvOf[m] IN
  /\ handler[m] = "policy"
  /\ \/ /\ active[c] = None
        /\ active' = [active EXCEPT ![c] = m]
        /\ Handled(m, "permit")
        /\ UNCHANGED target
     \/ /\ active[c] # None
        /\ target' = [target EXCEPT ![m] = active[c]]
        /\ Handled(m, "inject")
        /\ UNCHANGED active
  /\ UNCHANGED <<at, queue, run, turns, fired, control, seen, outcome>>

(* submit: the run looked up before the await, whatever became of it. *)
Submit(m) ==
  /\ handler[m] = "inject"
  /\ queue' = [queue EXCEPT ![target[m]] = @ \cup {m}]
  /\ at' = [at EXCEPT ![m] = turns[target[m]]]
  /\ Handled(m, "injected")
  /\ UNCHANGED <<target, active, run, turns, fired, control, seen, outcome>>

AcquirePermit(m) ==
  /\ handler[m] = "permit"
  /\ ~IsShutdown
  /\ PermitFree
  /\ Handled(m, "spawn")
  /\ UNCHANGED <<target, at, active, queue, run, turns, fired, control, seen, outcome>>

(* The error returns through `?`: the claim stays. *)
RejectPermit(m) ==
  /\ handler[m] = "permit"
  /\ IsShutdown
  /\ Handled(m, "refused")
  /\ UNCHANGED <<target, at, active, queue, run, turns, fired, control, seen, outcome>>

(* Mutant: the shutdown is not checked again under the JoinSet's lock. *)
SpawnRun_Unchecked(m) ==
  /\ handler[m] = "spawn"
  /\ shut # "draining"
  /\ Handled(m, "launched")
  /\ Moves(m, "turn")
  /\ UNCHANGED <<target, at, active, queue, turns, fired, control, seen, outcome>>

(* spawn_run waits for the JoinSet's lock, which a drain holds to its end.  *)
SpawnRun(m) ==
  /\ handler[m] = "spawn"
  /\ shut # "draining"
  /\ Handled(m, IF IsShutdown THEN "refused" ELSE "launched")
  /\ IF IsShutdown THEN UNCHANGED run ELSE Moves(m, "turn")
  /\ UNCHANGED <<target, at, active, queue, turns, fired, control, seen, outcome>>

(* An adapter that is cancelled drops the call it awaits. *)
DropHandler(m) ==
  /\ handler[m] \in {"policy", "inject", "permit", "spawn"}
  /\ Fault
  /\ Handled(m, "refused")
  /\ UNCHANGED <<target, at, active, queue, run, turns, fired, seen, outcome>>

------------------------------------------------------------------------------
(* A run: the kernel's driver task and the run task that consumes its stream *)

(* Mutant: only the first LLM call drains the queue. *)
BeforeLlm_FirstTurn(m) ==
  /\ run[m] = "turn"
  /\ turns[m] < MaxTurns
  /\ turns' = [turns EXCEPT ![m] = @ + 1]
  /\ seen' = IF turns[m] = 0 THEN seen \cup {m} \cup queue[m] ELSE seen
  /\ queue' = IF turns[m] = 0 THEN [queue EXCEPT ![m] = {}] ELSE queue
  /\ Moves(m, "llm")
  /\ UNCHANGED <<inflow, active, fired, control, outcome>>

(* A turn starts: InjectHook::before_llm drains the run's queue. *)
BeforeLlm(m) ==
  /\ run[m] = "turn"
  /\ turns[m] < MaxTurns
  /\ turns' = [turns EXCEPT ![m] = @ + 1]
  /\ seen' = seen \cup {m} \cup queue[m]
  /\ queue' = [queue EXCEPT ![m] = {}]
  /\ Moves(m, "llm")
  /\ UNCHANGED <<inflow, active, fired, control, outcome>>

(* The answer asks for tools, they ran, and the loop comes round. *)
LlmCallsTools(m) ==
  /\ run[m] = "llm"
  /\ Moves(m, "turn")
  /\ UNCHANGED <<inflow, active, queue, turns, fired, control, seen, outcome>>

Ends(m, o) ==
  /\ Moves(m, "stopping")
  /\ outcome' = [outcome EXCEPT ![m] = o]
  /\ UNCHANGED <<inflow, active, queue, turns, fired, control, seen>>

LlmFinishes(m) ==
  /\ run[m] = "llm"
  /\ Ends(m, "completed")

TurnsExhausted(m) ==
  /\ run[m] = "turn"
  /\ turns[m] = MaxTurns
  /\ Ends(m, "failed")

(* A policy, hook, provider or stream error. *)
TurnFails(m) ==
  /\ run[m] \in {"turn", "llm"}
  /\ Ends(m, "failed")

(* Mutant: the token is only looked at between turns. *)
CancelRun_BetweenTurns(m) ==
  /\ run[m] = "turn"
  /\ IsCancelled(m)
  /\ Ends(m, "cancelled")

(* drive_stream selects on the token: any await of a turn ends. *)
CancelRun(m) ==
  /\ run[m] \in {"turn", "llm"}
  /\ IsCancelled(m)
  /\ Ends(m, "cancelled")

(* InjectHook::on_stop clears the queue, before the stream's last item. *)
OnStop(m) ==
  /\ run[m] = "stopping"
  /\ Moves(m, "stopped")
  /\ queue' = [queue EXCEPT ![m] = {}]
  /\ UNCHANGED <<inflow, active, turns, fired, control, seen, outcome>>

(* The driver panics: the stream ends without a last item, on_stop is lost. *)
DriverPanics(m) ==
  /\ run[m] \in DriverPhases
  /\ Fault
  /\ Moves(m, "stopped")
  /\ outcome' = [outcome EXCEPT ![m] = "failed"]
  /\ UNCHANGED <<inflow, active, queue, turns, fired, seen>>

(* The run task has consumed the stream and delivered; run_kernel drops the *)
(* permit as it returns.                                                    *)
Deliver(m) ==
  /\ run[m] = "stopped"
  /\ Moves(m, "releasing")
  /\ UNCHANGED <<inflow, active, queue, turns, fired, control, seen, outcome>>

(* Mutant: the entry goes, whoever owns it by now. *)
ReleaseConv_AnyOwner(m) ==
  /\ run[m] = "releasing"
  /\ Moves(m, "reporting")
  /\ active' = [active EXCEPT ![ConvOf[m]] = None]
  /\ UNCHANGED <<inflow, queue, turns, fired, control, seen, outcome>>

(* Mutant: a run that failed keeps its conversation. *)
ReleaseConv_OnSuccess(m) ==
  /\ run[m] = "releasing"
  /\ Moves(m, "reporting")
  /\ active' = IF active[ConvOf[m]] = m /\ outcome[m] = "completed"
               THEN [active EXCEPT ![ConvOf[m]] = None] ELSE active
  /\ UNCHANGED <<inflow, queue, turns, fired, control, seen, outcome>>

(* release_conv removes the entry only if the run still owns it. *)
ReleaseConv(m) ==
  /\ run[m] = "releasing"
  /\ Moves(m, "reporting")
  /\ active' = IF active[ConvOf[m]] = m THEN [active EXCEPT ![ConvOf[m]] = None] ELSE active
  /\ UNCHANGED <<inflow, queue, turns, fired, control, seen, outcome>>

(* finish_error renders a failure, if there is one; then the task is over. *)
Report(m) ==
  /\ run[m] = "reporting"
  /\ Moves(m, "ended")
  /\ UNCHANGED <<inflow, active, queue, turns, fired, control, seen, outcome>>

(* The run tasks of S are gone; a driver that still works is cancelled. *)
Gone(S) ==
  run' = [m \in Messages |-> IF m \notin S THEN run[m]
                             ELSE IF run[m] \in DriverPhases THEN "dropped" ELSE "ended"]

(* The run task panics in a live delivery: release_conv is never reached. *)
RunPanics(m) ==
  /\ m \in Joined
  /\ Fault
  /\ Gone({m})
  /\ UNCHANGED <<inflow, active, queue, turns, fired, seen, outcome>>

(* The orphaned driver runs its on_stop hooks, or the watchdog aborts it. *)
DriverStops(m) ==
  /\ run[m] = "dropped"
  /\ Moves(m, "ended")
  /\ \/ queue' = [queue EXCEPT ![m] = {}]
     \/ UNCHANGED queue
  /\ UNCHANGED <<inflow, active, turns, fired, control, seen, outcome>>

------------------------------------------------------------------------------
(* shutdown_with_grace *)

Shut(from, to) ==
  /\ shut = from
  /\ shut' = to
  /\ UNCHANGED <<inflow, active, queue, turns, fired, faults, seen, outcome>>

ShutdownCancels == Shut("up", "cancelled") /\ UNCHANGED run

ShutdownLocks ==
  /\ Shut("cancelled", IF Joined = {} THEN "returned" ELSE "draining")
  /\ UNCHANGED run

ShutdownDrained ==
  /\ Joined = {}
  /\ Shut("draining", "returned")
  /\ UNCHANGED run

(* Mutant: the drain has no deadline. *)
ShutdownAborts_Never == FALSE /\ UNCHANGED vars

(* The grace elapses: abort_all, then join. *)
ShutdownAborts ==
  /\ Joined # {}
  /\ Shut("draining", "returned")
  /\ Gone(Joined)

------------------------------------------------------------------------------
(* Specification *)

HandlerStep(m) ==
  \/ TryClaim(m)
  \/ Submit(m)
  \/ RejectPermit(m)
  \/ SpawnRun(m)

LlmAnswers(m) == LlmCallsTools(m) \/ LlmFinishes(m)

SinkStep(m) == Deliver(m) \/ Report(m)

RunStep(m) ==
  \/ BeforeLlm(m)
  \/ TurnsExhausted(m)
  \/ CancelRun(m)
  \/ OnStop(m)
  \/ ReleaseConv(m)
  \/ DriverStops(m)

ShutdownStep == ShutdownLocks \/ ShutdownDrained \/ ShutdownAborts

(* What users, policies, hosts and the environment do, when they like. *)
Environment ==
  \/ \E m \in Messages :
       \/ ReceiveStop(m)
       \/ Receive(m)
       \/ PolicyDenies(m)
       \/ TurnFails(m)
       \/ DropHandler(m)
       \/ DriverPanics(m)
       \/ RunPanics(m)
  \/ ShutdownCancels

Next ==
  \/ \E m \in Messages :
       HandlerStep(m) \/ AcquirePermit(m) \/ RunStep(m) \/ LlmAnswers(m) \/ SinkStep(m)
  \/ ShutdownStep
  \/ Environment

Spec == Init /\ [][Next]_vars

(* Fairness: the runtime polls every future, locks are granted, the grace   *)
(* elapses, policies answer.  The semaphore grants permits in order, so a   *)
(* caller that waits while permits keep being released gets one (strong     *)
(* fairness).  The driver's select sees a fired token (CancelRun) even when *)
(* the provider never answers.                                              *)
Fairness ==
  /\ \A m \in Messages :
       /\ WF_vars(HandlerStep(m))
       /\ SF_vars(AcquirePermit(m))
       /\ WF_vars(RunStep(m))
       /\ WF_vars(CancelRun(m))
  /\ WF_vars(ShutdownStep)

FairSpec == Spec /\ Fairness

------------------------------------------------------------------------------
(* Safety properties *)

OwningRuns == {m \in Messages : run[m] \in OwningPhases}

(* A run that nobody stopped owns its conversation until it releases it,    *)
(* also while a stopped predecessor winds down beside it: no follow-up ever *)
(* starts a second run next to it (try_claim_conv, release_conv,            *)
(* cancel_conv).                                                            *)
RunsOwnTheirConv ==
  \A m \in OwningRuns \ fired : active[ConvOf[m]] = m

(* A claimed conversation has somebody who will release it, as long as the  *)
(* inbox is up and nothing panicked or was dropped: no exit of              *)
(* dispatch_request or of a run leaves the entry behind.                    *)
ClaimsHaveOwners ==
  \A c \in Convs :
    (active[c] # None /\ shut = "up" /\ faults = 0) =>
      handler[active[c]] \in {"permit", "spawn"} \/ active[c] \in OwningRuns

(* An injected message is part of the target's next LLM request, however    *)
(* many were queued: only a run that makes no further request misses it     *)
(* (submit, drain, before_llm).                                             *)
NextTurnSeesInjected ==
  \A m \in Messages :
    (handler[m] = "injected" /\ turns[target[m]] > at[m]) => m \in seen

(* Once shutdown has returned no run task is left and none is started: a    *)
(* receive() that already had its permit is refused (spawn_run checks the   *)
(* token under the lock the drain held).                                    *)
ShutdownLeavesNoRun == shut = "returned" => Joined = {}

(* The parts of the inductive invariant that make the four properties above *)
(* preserved by every step.                                                 *)
RunsAreLaunched == \A m \in Messages : run[m] # "none" => handler[m] = "launched"

ClaimsAreLocal == \A c \in Convs : active[c] # None => ConvOf[active[c]] = c

CandidatesOwnTheirConv ==
  \A m \in Messages \ fired : handler[m] \in {"permit", "spawn"} => active[ConvOf[m]] = m

TargetsAreRuns ==
  \A m \in Messages : handler[m] \in {"inject", "injected"} => target[m] \in Messages

(* Runs that may still make an LLM request. *)
MayCall == {m \in Messages : run[m] \in {"none", "turn", "llm"}}

PendingMessagesAreQueued ==
  \A m \in Messages \ seen :
    handler[m] = "injected" =>
      /\ at[m] = turns[target[m]]
      /\ target[m] \in MayCall => m \in queue[target[m]]

(* The inductive invariant: besides the properties, every run was launched  *)
(* by its own receive(), an entry of active_runs belongs to its             *)
(* conversation, whoever waits for a permit owns the entry already, and a   *)
(* message nobody has seen is still queued if its target can call again.    *)
InboxInv ==
  /\ TypeOK
  /\ RunsAreLaunched
  /\ ClaimsAreLocal
  /\ CandidatesOwnTheirConv
  /\ RunsOwnTheirConv
  /\ ClaimsHaveOwners
  /\ TargetsAreRuns
  /\ PendingMessagesAreQueued
  /\ ShutdownLeavesNoRun

(* A message accepted into a running conversation is picked up by that run, *)
(* if the run completes: "the in-flight run will pick it up at its next     *)
(* before_llm hook call" (dispatch_request, InjectHook::on_stop).           *)
InjectedMessagesAreSeen ==
  \A m \in Messages :
    /\ handler[m] = "injected"
    /\ run[target[m]] = "ended"
    /\ outcome[target[m]] = "completed"
    => m \in seen

------------------------------------------------------------------------------
(* Liveness properties, under Fairness *)

(* Sinks take the messages the run tasks send them. *)
SinksAnswer == \A m \in Messages : WF_vars(SinkStep(m))

(* The provider answers; the kernel sets no deadline of its own. *)
ProviderAnswers == \A m \in Messages : WF_vars(LlmAnswers(m))

(* Every receive() returns, also with all permits taken and during a drain. *)
HandlersReturn ==
  (SinksAnswer /\ ProviderAnswers) =>
    \A m \in Messages : handler[m] # "new" ~> handler[m] \in HandlerEnds

(* A claimed conversation is free again, whether its run completes, fails   *)
(* or uses its turns up (run_kernel_with_release).                          *)
ConversationsAreFreed ==
  (SinksAnswer /\ ProviderAnswers) =>
    \A m \in Messages :
      active[ConvOf[m]] = m ~> (active[ConvOf[m]] # m \/ faults > 0 \/ IsShutdown)

(* A stopped run ends, provider hung or not (drive_stream). *)
StoppedRunsEnd ==
  SinksAnswer => \A m \in Messages : (m \in fired /\ run[m] # "none") ~> run[m] = "ended"

(* shutdown() returns, hung providers and sinks or not. *)
InboxShutdownReturns == shut = "cancelled" ~> shut = "returned"
==============================================================================
