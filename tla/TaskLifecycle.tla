---------------------------- MODULE TaskLifecycle ----------------------------
(***************************************************************************)
(* What the task executors of a process promise of every task, whatever     *)
(* cancels, times out, shuts down or crashes: it is executed by one run at  *)
(* a time, only while its row says Running; its row is settled only after   *)
(* the run let go; a paused task may start again, a finished one never.     *)
(* Overridable tasks are the exception: a blocking caller or a sweeper may  *)
(* overrule their verdict.                                                  *)
(***************************************************************************)
CONSTANTS
  Tasks,
  Overridable   \* a subset of Tasks

VARIABLES
  status,   \* what the store says of each task
  active    \* the tasks some run is executing

vars == <<status, active>>

TypeOK ==
  /\ status \in [Tasks -> {"absent", "running", "paused", "done", "failed"}]
  /\ active \in SUBSET Tasks

Init ==
  /\ status \in [Tasks -> {"absent", "running"}]
  /\ active = {}

(* A fresh task is admitted, or a paused one resumed. *)
Start(t) ==
  /\ status[t] \in {"absent", "paused"}
  /\ t \notin active
  /\ status' = [status EXCEPT ![t] = "running"]
  /\ active' = active \cup {t}

(* Runs end: one by itself, several in an abort, all of them in a crash. *)
Stop(S) ==
  /\ S \subseteq active
  /\ active' = active \ S
  /\ UNCHANGED status

Final == {"done", "failed"}

(* The verdict of a run that ended. *)
Settle(t, s) ==
  /\ t \notin active
  /\ \/ status[t] = "running" /\ s \in Final \cup {"paused"}
     \/ t \in Overridable /\ status[t] \in Final /\ s \in Final
  /\ status' = [status EXCEPT ![t] = s]
  /\ UNCHANGED active

(* A boot adopts what no run is executing any more. *)
Adopt(S) ==
  /\ S \cap active = {}
  /\ \A t \in S : status[t] = "running"
  /\ status' = [t \in Tasks |-> IF t \in S THEN "paused" ELSE status[t]]
  /\ UNCHANGED active

(* A paused task is given up on. *)
GiveUp(t) ==
  /\ status[t] = "paused"
  /\ status' = [status EXCEPT ![t] = "failed"]
  /\ UNCHANGED active

(* A paused task that cannot be executed any more is claimed only so that   *)
(* its verdict can be settled.                                              *)
Condemn(t) ==
  /\ status[t] = "paused"
  /\ t \notin active
  /\ status' = [status EXCEPT ![t] = "running"]
  /\ UNCHANGED active

Overrule(S) ==
  /\ S \subseteq Overridable
  /\ \A t \in S : status[t] # "absent"
  /\ status' = [t \in Tasks |-> IF t \in S THEN "failed" ELSE status[t]]
  /\ UNCHANGED active

Next ==
  \/ \E t \in Tasks : Start(t) \/ GiveUp(t) \/ Condemn(t)
  \/ \E t \in Tasks, s \in Final \cup {"paused"} : Settle(t, s)
  \/ \E S \in SUBSET Tasks : Stop(S) \/ Adopt(S) \/ Overrule(S)

Spec == Init /\ [][Next]_vars
==============================================================================
