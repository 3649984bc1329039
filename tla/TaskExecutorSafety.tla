-------------------------- MODULE TaskExecutorSafety --------------------------
(***************************************************************************)
(* The inductive invariant behind the safety properties of TaskExecutor.    *)
(* It holds for a host with one executor that resumes before it accepts     *)
(* the first spawn; with two executors over one store, or with spawns       *)
(* before resume_paused has returned, the properties themselves fail.       *)
(***************************************************************************)
EXTENDS TaskExecutor

(* One executor, and a host that awaits resume_paused before it spawns. *)
SingleHost == BootFirst /\ \E e \in Executors : Executors = {e}

RunsOf(t) == {r \in Runs : run[r].phase # "free" /\ run[r].task = t}

(* A task has one run per process, whatever started it. *)
RunsInv ==
  /\ \A r \in Runs : run[r].phase # "free" => run[r].task \in Tasks
  /\ \A q, r \in Runs :
       /\ run[q].phase # "free"
       /\ run[r].phase # "free"
       /\ run[q].task = run[r].task
       => q = r
  /\ \A r \in Runs : run[r].set # "live" => run[r].phase \in JoinedPhases
  /\ \A r \in Runs :
       /\ run[r].verdict.status = "paused" => run[r].verdict.cause \in {"shutdown", "forced"}
       /\ run[r].verdict.error # "resume_limit"

(* Nothing runs until adoption and scan are over, and only resumed tasks do *)
(* until the scan has processed them all.                                   *)
BootInv ==
  \A e \in Executors :
    /\ boot[e] \in {"idle", "adopted"} =>
         stamped = {} /\ \A r \in Runs : run[r].phase = "free"
    /\ boot[e] # "resuming" => current[e] = NoTask /\ pending[e] = {}
    /\ boot[e] # "done" =>
         /\ \A t \in Tasks : caller[t] \in {"idle", "gone"}
         /\ \A r \in Runs : run[r].phase # "free" => run[r].origin = "resume"

(* A task whose caller has no permit yet is not in the store. *)
CallerInv ==
  \A t \in Tasks :
    /\ caller[t] \in {"idle", "queued"} =>
         row[t].status = "absent" /\ RunsOf(t) = {} /\ t \notin stamped
    /\ caller[t] \in {"waiting", "expired", "polling", "overdue"} => t \in Blocking
    /\ t \in Legacy => row[t].status # "absent" /\ RunsOf(t) = {}

(* The scan works on a task once, and through one run. *)
ScanInv ==
  \A e \in Executors, t \in Tasks :
    /\ t \in pending[e] =>
         /\ row[t].status # "absent"
         /\ t # current[e]
         /\ t \notin stamped
         /\ RunsOf(t) = {}
    /\ t = current[e] =>
         /\ row[t].status # "absent"
         /\ \A r \in RunsOf(t) : run[r].origin = "resume"
                                 /\ run[r].phase \in {"claiming", "stored", "handled"}
         /\ t \in stamped => \E r \in RunsOf(t) : run[r].phase = "handled"

(* A registered handle is the handle of a launched run of that task. *)
HandleInv ==
  \A t \in Tasks :
    handles[t] \in Runs =>
      /\ run[handles[t]].task = t
      /\ run[handles[t]].phase \in {"handled"} \cup JoinedPhases

(* A task that is executed is Running in the store, unless its blocking     *)
(* caller or the sweeper has overruled it.                                  *)
RowInv ==
  \A t \in Tasks : \A r \in Executing(t) :
    \/ row[t].status = "running"
    \/ Terminal(row[t]) /\ (t \in Blocking \/ Sweeper)

(* The runs of a stamped task keep the stamp and are not decided as paused. *)
StampInv ==
  \A t \in stamped :
    /\ row[t].status # "paused"
    /\ \A r \in RunsOf(t) :
         /\ run[r].reason = "stop"
         /\ run[r].phase \in {"handled"} \cup JoinedPhases
         /\ run[r].phase = "decided" => run[r].verdict.status # "paused"

(* Every resume that counts was preceded by an interruption of its own. *)
HitsInv ==
  \A t \in Tasks :
    /\ row[t].resumes <= hits[t]
    /\ row[t].status = "paused" /\ CountsTowardCap(row[t]) => row[t].resumes < hits[t]
    /\ row[t].status = "running" /\ (\E e \in Executors : boot[e] = "idle") =>
         row[t].resumes < hits[t]
    /\ row[t].error = "resume_limit" => MaxResumes < hits[t]

(* The inductive invariant: one run per task and process, a Running row      *)
(* behind every run that drives, stamps that stick, resumes that are owed.   *)
SafetyInv ==
  /\ RunsInv
  /\ BootInv
  /\ CallerInv
  /\ ScanInv
  /\ HandleInv
  /\ RowInv
  /\ StampInv
  /\ HitsInv

------------------------------------------------------------------------------
(* What settles: the invariant behind the answers of blocking callers, the   *)
(* runs behind Running rows, and the steps of the abstract specification.    *)

(* A fresh run has no row yet, and its origin says whether a caller waits.   *)
FreshInv ==
  \A r \in Runs :
    /\ run[r].phase = "spawning" => row[run[r].task].status = "absent"
    /\ run[r].phase = "spawning" => run[r].origin # "resume"
    /\ run[r].phase # "free" /\ run[r].origin # "resume" =>
         (run[r].origin = "blocking" <=> run[r].task \in Blocking)

(* The row a verdict is about to be written to is Running, or it has been    *)
(* overruled; once the write was answered it is Running no more.             *)
VerdictInv ==
  \A r \in Runs :
    /\ run[r].phase = "decided" =>
         \/ row[run[r].task].status = "running"
         \/ Terminal(row[run[r].task]) /\ (run[r].task \in Blocking \/ Sweeper)
    /\ run[r].phase = "persisted" /\ faults = 0 => row[run[r].task].status # "running"

(* A resumed run that has not joined is the one the scan works on. *)
ResumeInv ==
  \A r \in Runs :
    /\ run[r].phase = "claiming" => run[r].origin = "resume"
    /\ run[r].origin = "resume" /\ run[r].phase \in {"claiming", "stored", "handled"} =>
         current[AgentOf[run[r].task]] = run[r].task

(* A waiting caller has a joined run with its sender, unless an abort took it. *)
WaiterInv ==
  \A t \in Tasks :
    caller[t] = "waiting" =>
      \/ \E r \in Runs : /\ run[r].task = t
                         /\ run[r].origin = "blocking"
                         /\ run[r].phase \in JoinedPhases
      \/ Aborted(AgentOf[t])

(* Nobody drops the spawn call of this task. *)
Undroppable(t) == ~CallersMayDrop /\ ParentOf[t] = NoTask

Backing(t) ==
  {r \in Runs : run[r].task = t /\ run[r].phase \in {"stored", "handled", "decided"} \cup LivePhases}

(* Once adopted, a Running row has a run behind it, or it is the legacy row  *)
(* the scan is about to fail.                                                *)
BackedInv ==
  \A t \in Tasks :
    /\ Undroppable(t)
    /\ row[t].status = "running"
    /\ boot[AgentOf[t]] # "idle"
    /\ ~Aborted(AgentOf[t])
    /\ faults = 0
    => Backing(t) # {} \/ (t \in Legacy /\ current[AgentOf[t]] = t)

SettleInv ==
  /\ FreshInv
  /\ VerdictInv
  /\ ResumeInv
  /\ WaiterInv
  /\ BackedInv
  /\ BlockingAnswersAreSettled
------------------------------------------------------------------------------
(* The order of the resume scan *)

(* ensure_depth_allowed lets a task in with at most MaxDepthWalk ancestors, *)
(* whatever max_depth is set to, and refuses a chain that closes on itself. *)
NestingIsBounded ==
  \E level \in [Tasks -> 1 .. MaxDepthWalk + 1] :
    \A t \in Tasks : ParentOf[t] # NoTask => level[ParentOf[t]] < level[t]

(* The scan chooses among the tasks it selected, and has none at hand       *)
(* before it starts.                                                        *)
OrderInv ==
  /\ \A e \in Executors :
       /\ pending[e] \subseteq selected[e]
       /\ boot[e] # "resuming" => current[e] = NoTask
  /\ ChildrenResumeFirst
==============================================================================
