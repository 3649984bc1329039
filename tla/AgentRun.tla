------------------------------ MODULE AgentRun ------------------------------
(***************************************************************************)
(* What a kernel promises of every run to those who start runs: the inbox,  *)
(* the task executor, the command line.  A run calls tools one at a time    *)
(* and gets each call done once; it begins none after its token fired or    *)
(* the kernel asked for a pause, and none it has begun counts after the     *)
(* token.  It leaves with one outcome, which its cancellation decides, and  *)
(* is over, at the latest when the kernel is closed; then none begins.      *)
(***************************************************************************)
CONSTANT Runs

VARIABLES
  status,     \* how far each run is
  did,        \* the calls each run got done
  outcome,    \* how it left
  cancelled,  \* the runs whose token fired
  pausing,    \* the kernel asks its runs to pause
  gate        \* whether the kernel takes runs

vars == <<status, did, outcome, cancelled, pausing, gate>>

Live == {"working", "calling", "leaving"}

Init ==
  /\ status = [r \in Runs |-> "idle"]
  /\ did = [r \in Runs |-> {}]
  /\ outcome = [r \in Runs |-> "none"]
  /\ cancelled = {}
  /\ pausing = FALSE
  /\ gate = "open"

Becomes(r, s) == status' = [status EXCEPT ![r] = s]

(* A kernel that is closing or closed refuses. *)
Begin(r) ==
  /\ status[r] = "idle"
  /\ Becomes(r, IF gate = "open" THEN "working" ELSE "ended")
  /\ UNCHANGED <<did, outcome, cancelled, pausing, gate>>

Call(r) ==
  /\ status[r] = "working"
  /\ r \notin cancelled
  /\ ~pausing
  /\ Becomes(r, "calling")
  /\ UNCHANGED <<did, outcome, cancelled, pausing, gate>>

(* A call that was not done before. *)
Return(r) ==
  /\ status[r] = "calling"
  /\ r \notin cancelled
  /\ Becomes(r, "working")
  /\ \E c \in did'[r] \ did[r] : did' = [did EXCEPT ![r] = @ \cup {c}]
  /\ UNCHANGED <<outcome, cancelled, pausing, gate>>

(* Failed, from anywhere; or between two calls, unless cancelled. *)
Leave(r, how) ==
  /\ \/ status[r] \in {"working", "calling"} /\ how = "failed"
     \/ /\ status[r] = "working" /\ r \notin cancelled
        /\ how = "completed" \/ (how = "paused" /\ pausing)
  /\ Becomes(r, "leaving")
  /\ outcome' = [outcome EXCEPT ![r] = how]
  /\ UNCHANGED <<did, cancelled, pausing, gate>>

End(r) ==
  /\ status[r] = "leaving"
  /\ Becomes(r, "ended")
  /\ cancelled' = cancelled \ {r}
  /\ UNCHANGED <<did, outcome, pausing, gate>>

Cancel(r) ==
  /\ status[r] \in Live
  /\ cancelled' = cancelled \cup {r}
  /\ UNCHANGED <<status, did, outcome, pausing, gate>>

(* The runs of S end where they are, without an outcome. *)
Cut(S) ==
  /\ status' = [r \in Runs |-> IF r \in S THEN "ended" ELSE status[r]]
  /\ outcome' = [r \in Runs |-> IF r \in S THEN "none" ELSE outcome[r]]
  /\ cancelled' = cancelled \ S
  /\ UNCHANGED did

Running == {r \in Runs : status[r] \in Live}

(* Only a run that did not heed its token is aborted. *)
Abort(r) ==
  /\ r \in cancelled
  /\ status[r] \in Live
  /\ Cut({r})
  /\ UNCHANGED <<pausing, gate>>

Pause ==
  /\ gate = "open"
  /\ pausing' = TRUE
  /\ UNCHANGED <<status, did, outcome, cancelled, gate>>

Shut ==
  /\ gate = "open"
  /\ gate' = "closing"
  /\ UNCHANGED <<status, did, outcome, cancelled, pausing>>

Close ==
  /\ gate = "closing"
  /\ gate' = "closed"
  /\ Cut(Running)
  /\ UNCHANGED pausing

(* The process dies, or ends, and is started again. *)
Restart ==
  /\ Cut(Running)
  /\ pausing' = FALSE
  /\ gate' = "open"

Next ==
  \/ \E r \in Runs : Begin(r) \/ Call(r) \/ Return(r) \/ End(r) \/ Cancel(r) \/ Abort(r)
  \/ \E r \in Runs, how \in {"completed", "paused", "failed"} : Leave(r, how)
  \/ Pause \/ Shut \/ Close \/ Restart

Spec == Init /\ [][Next]_vars
==============================================================================
