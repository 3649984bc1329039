---------------------- MODULE TaskExecutorSafety_proofs ----------------------
(***************************************************************************)
(* The safety properties of TaskExecutor, proved for every set of tasks,    *)
(* runs and shutdown calls, every cap, fault and crash, and one executor    *)
(* that resumes before it accepts a spawn (SingleHost).                     *)
(*                                                                          *)
(* One lemma per action shows that the step preserves SafetyInv: its first  *)
(* steps say what the action changes, one step follows for each part of     *)
(* SafetyInv those changes reach, and Frame covers the rest.                *)
(***************************************************************************)
EXTENDS TaskExecutorSafety, TaskExecutor_proofs, FiniteSetTheorems

(* What a step does to the runs: r alone moves to a phase, or is freed. *)
Moved(r, p) ==
  /\ \A q \in Runs \ {r} : run'[q] = run[q]
  /\ run'[r].phase = p
  /\ run'[r].task = run[r].task
  /\ run'[r].origin = run[r].origin
  /\ run'[r].set = run[r].set

(* The runs of S become free slots and no other run changes. *)
Freed(S) ==
  \A q \in Runs :
    /\ q \notin S => run'[q] = run[q]
    /\ q \in S => run'[q] = FreeRun

(* A part of the invariant whose variables a step leaves alone still holds. *)
LEMMA Frame ==
  ASSUME SafetyInv
  PROVE  /\ UNCHANGED run => RunsInv'
         /\ UNCHANGED <<run, caller, boot, pending, current, stamped>> => BootInv'
         /\ UNCHANGED <<row, run, caller, stamped>> => CallerInv'
         /\ UNCHANGED <<row, run, pending, current, stamped>> => ScanInv'
         /\ UNCHANGED <<run, handles>> => HandleInv'
         /\ UNCHANGED <<row, run>> => RowInv'
         /\ UNCHANGED <<row, run, stamped>> => StampInv'
         /\ UNCHANGED <<row, boot, hits>> => HitsInv'
  BY DEF SafetyInv, RunsInv, BootInv, CallerInv, ScanInv, HandleInv, RowInv, StampInv, HitsInv,
         RunsOf, Executing, Terminal, CountsTowardCap

(* A change of phase is all that [run EXCEPT ![r].phase = p] does to a run. *)
LEMMA MovedRun ==
  ASSUME TypeOK, NEW r \in Runs, NEW p, run' = [run EXCEPT ![r].phase = p]
  PROVE  /\ Moved(r, p)
         /\ run'[r].reason = run[r].reason
         /\ run'[r].verdict = run[r].verdict
  BY DEF Moved, TypeOK, RunState

------------------------------------------------------------------------------
(* Spawning, and driving a run.                                              *)

LEMMA RequestSafe ==
  ASSUME SingleHost, TypeOK, SafetyInv, NEW t \in Tasks,
         Request(t)
  PROVE  SafetyInv'
  <1>1. /\ UNCHANGED <<row, run, handles, boot, pending, current, stamped, hits>>
        /\ row[t].status = "absent" /\ caller[t] = "idle"
        /\ \A e \in Executors : boot[e] = "done"
    BY DEF Request, Booted, SingleHost, store, scan, ghost
  <1>2. \A u \in Tasks : caller'[u] = IF u = t THEN "queued" ELSE caller[u]
    BY DEF Request, TypeOK
  <1>3. BootInv'
    BY <1>1, <1>2 DEF SafetyInv, BootInv
  <1>4. CallerInv'
    BY <1>1, <1>2 DEF SafetyInv, CallerInv, RunsOf
  <1>5. QED
    BY <1>1, <1>2, <1>3, <1>4, Frame DEF SafetyInv

LEMMA RejectSpawnSafe ==
  ASSUME SingleHost, TypeOK, SafetyInv, NEW t \in Tasks,
         RejectSpawn(t)
  PROVE  SafetyInv'
  <1>1. /\ UNCHANGED <<row, run, handles, boot, pending, current, stamped, hits>>
        /\ caller[t] = "queued"
    BY DEF RejectSpawn, store, scan, ghost
  <1>2. \A u \in Tasks : caller'[u] = IF u = t THEN "gone" ELSE caller[u]
    BY DEF RejectSpawn, TypeOK
  <1>3. BootInv'
    BY <1>1, <1>2 DEF SafetyInv, BootInv
  <1>4. CallerInv'
    BY <1>1, <1>2 DEF SafetyInv, CallerInv, RunsOf
  <1>5. QED
    BY <1>1, <1>2, <1>3, <1>4, Frame DEF SafetyInv

LEMMA AcquirePermitSafe ==
  ASSUME SingleHost, TypeOK, SafetyInv, NEW t \in Tasks, NEW r \in Runs,
         AcquirePermit(t, r)
  PROVE  SafetyInv'
  <1>1. /\ UNCHANGED <<row, handles, boot, pending, current, stamped, hits>>
        /\ caller[t] = "queued" /\ run[r].phase = "free"
    BY DEF AcquirePermit, store, control, scan, ghost
  <1>2. \A u \in Tasks : caller'[u] = IF u = t THEN "launching" ELSE caller[u]
    BY DEF AcquirePermit, TypeOK
  <1>3. /\ \A q \in Runs \ {r} : run'[q] = run[q]
        /\ run'[r].task = t
        /\ run'[r].phase = "spawning"
        /\ run'[r].set = "live"
        /\ run'[r].verdict.status = "done"
        /\ run'[r].verdict.error = "none"
    BY DEF AcquirePermit, TypeOK, FreeRun, Done
  <1>4. RunsInv'
    BY <1>1, <1>2, <1>3 DEF SafetyInv, RunsInv, JoinedPhases, CallerInv, RunsOf
  <1>5. BootInv'
    BY <1>1, <1>2, <1>3 DEF SafetyInv, BootInv
  <1>6. CallerInv'
    BY <1>1, <1>2, <1>3 DEF SafetyInv, CallerInv, RunsOf
  <1>7. ScanInv'
    BY <1>1, <1>2, <1>3 DEF SafetyInv, ScanInv, RunsOf, CallerInv
  <1>8. HandleInv'
    BY <1>1, <1>2, <1>3 DEF SafetyInv, HandleInv, JoinedPhases
  <1>9. RowInv'
    BY <1>1, <1>2, <1>3 DEF SafetyInv, RowInv, Executing, LivePhases, Terminal
  <1>10. StampInv'
    BY <1>1, <1>2, <1>3 DEF SafetyInv, StampInv, RunsOf, JoinedPhases, CallerInv
  <1>11. QED
    BY <1>1, <1>2, <1>3, <1>4, <1>5, <1>6, <1>7, <1>8, <1>9, <1>10, Frame DEF SafetyInv

LEMMA InsertRowSafe ==
  ASSUME SingleHost, TypeOK, SafetyInv, NEW r \in Runs,
         InsertRow(r)
  PROVE  SafetyInv'
  <1>1. /\ UNCHANGED <<handles, caller, boot, pending, current, stamped, hits>>
        /\ run[r].phase = "spawning"
    BY DEF InsertRow, store, control, scan, ghost
  <1>2. /\ Moved(r, "stored")
        /\ run'[r].reason = run[r].reason
        /\ run'[r].verdict = run[r].verdict
    BY MovedRun DEF InsertRow
  <1>3. \A u \in Tasks : row'[u] = IF u = run[r].task THEN FreshRow ELSE row[u]
    BY DEF InsertRow, TypeOK
  <1>4. run[r].task \in Tasks
    BY <1>1 DEF SafetyInv, RunsInv
  <1>5. /\ FreshRow.status = "running" /\ FreshRow.resumes = 0
        /\ FreshRow.error = "none"
    BY DEF FreshRow, AbsentRow
  <1>6. /\ run[r].phase \notin {"handled"} \cup JoinedPhases
        /\ hits[run[r].task] \in Nat
    BY <1>1, <1>4 DEF JoinedPhases, TypeOK
  <1>7. RunsInv'
    BY <1>1, <1>2, <1>3, <1>4, <1>5, <1>6 DEF SafetyInv, RunsInv, JoinedPhases, Moved
  <1>8. BootInv'
    BY <1>1, <1>2, <1>3, <1>4, <1>5, <1>6 DEF SafetyInv, BootInv, Moved
  <1>9. CallerInv'
    BY <1>1, <1>2, <1>3, <1>4, <1>5, <1>6 DEF SafetyInv, CallerInv, RunsOf, Moved
  <1>10. ScanInv'
    BY <1>1, <1>2, <1>3, <1>4, <1>5, <1>6 DEF SafetyInv, ScanInv, RunsOf, Moved
  <1>11. HandleInv'
    BY <1>1, <1>2, <1>3, <1>4, <1>5, <1>6 DEF SafetyInv, HandleInv, JoinedPhases, Moved
  <1>12. RowInv'
    BY <1>1, <1>2, <1>3, <1>4, <1>5, <1>6
    DEF SafetyInv, RowInv, Executing, LivePhases, Terminal, Moved
  <1>13. StampInv'
    <2>1. \A t \in stamped : r \notin RunsOf(t)
      BY <1>5, <1>6 DEF SafetyInv, StampInv, RunsOf
    <2>2. \A t \in stamped : RunsOf(t)' = RunsOf(t) /\ row'[t] = row[t]
      <3>1. \A t \in stamped : t # run[r].task
        BY <1>1, <2>1 DEF RunsOf
      <3>2. \A t \in stamped : row'[t] = row[t]
        BY <1>3, <3>1 DEF TypeOK
      <3>3. \A t \in stamped : RunsOf(t)' = RunsOf(t)
        BY <1>2, <3>1 DEF RunsOf, Moved
      <3>4. QED BY <3>2, <3>3
    <2>3. \A t \in stamped : \A q \in RunsOf(t) : run'[q] = run[q]
      BY <1>2, <2>1 DEF Moved, RunsOf
    <2>4. QED BY <1>1, <2>2, <2>3 DEF SafetyInv, StampInv
  <1>14. HitsInv'
    BY <1>1, <1>2, <1>3, <1>4, <1>5, <1>6
    DEF SafetyInv, HitsInv, CountsTowardCap, Moved, BootInv
  <1>15. QED
    BY <1>1, <1>2, <1>3, <1>4, <1>5, <1>6, <1>7, <1>8, <1>9, <1>10, <1>11, <1>12, <1>13, <1>14, Frame
    DEF SafetyInv

LEMMA InsertFailsSafe ==
  ASSUME SingleHost, TypeOK, SafetyInv, NEW r \in Runs,
         InsertFails(r)
  PROVE  SafetyInv'
  <1>1. /\ UNCHANGED <<row, handles, boot, pending, current, stamped, hits>>
        /\ run[r].phase = "spawning"
    BY DEF InsertFails, StoreFault, store, control, scan, ghost
  <1>2. Freed({r})
    BY DEF InsertFails, Release, Freed, TypeOK
  <1>3. \A u \in Tasks : caller'[u] = IF u = run[r].task THEN "gone" ELSE caller[u]
    BY DEF InsertFails, TypeOK
  <1>4. RunsInv'
    BY <1>1, <1>2, <1>3 DEF SafetyInv, RunsInv, JoinedPhases, Freed, FreeRun, Done
  <1>5. BootInv'
    BY <1>1, <1>2, <1>3 DEF SafetyInv, BootInv, Freed, FreeRun, Done
  <1>6. CallerInv'
    BY <1>1, <1>2, <1>3 DEF SafetyInv, CallerInv, RunsOf, Freed, FreeRun, Done
  <1>7. ScanInv'
    BY <1>1, <1>2, <1>3 DEF SafetyInv, ScanInv, RunsOf, Freed, FreeRun, Done
  <1>8. HandleInv'
    BY <1>1, <1>2, <1>3 DEF SafetyInv, HandleInv, JoinedPhases, Freed, FreeRun, Done
  <1>9. RowInv'
    BY <1>1, <1>2, <1>3
    DEF SafetyInv, RowInv, Executing, LivePhases, Terminal, Freed, FreeRun, Done
  <1>10. StampInv'
    BY <1>1, <1>2, <1>3 DEF SafetyInv, StampInv, RunsOf, JoinedPhases, Freed, FreeRun, Done
  <1>11. QED
    BY <1>1, <1>2, <1>3, <1>4, <1>5, <1>6, <1>7, <1>8, <1>9, <1>10, Frame DEF SafetyInv

LEMMA RegisterHandleSafe ==
  ASSUME SingleHost, TypeOK, SafetyInv, NEW r \in Runs,
         RegisterHandle(r)
  PROVE  SafetyInv'
  <1>1. /\ UNCHANGED <<row, caller, boot, pending, current, stamped, hits>>
        /\ run[r].phase = "stored"
    BY DEF RegisterHandle, store, control, scan, ghost
  <1>2. /\ Moved(r, "handled")
        /\ run'[r].reason = run[r].reason
        /\ run'[r].verdict = run[r].verdict
    BY MovedRun DEF RegisterHandle
  <1>3. \A u \in Tasks : handles'[u] = IF u = run[r].task THEN r ELSE handles[u]
    BY DEF RegisterHandle, TypeOK
  <1>4. run[r].task \in Tasks
    BY <1>1 DEF SafetyInv, RunsInv
  <1>5. RunsInv'
    BY <1>1, <1>2, <1>3, <1>4 DEF SafetyInv, RunsInv, JoinedPhases, Moved
  <1>6. BootInv'
    BY <1>1, <1>2, <1>3, <1>4 DEF SafetyInv, BootInv, Moved
  <1>7. CallerInv'
    BY <1>1, <1>2, <1>3, <1>4 DEF SafetyInv, CallerInv, RunsOf, Moved
  <1>8. ScanInv'
    BY <1>1, <1>2, <1>3, <1>4 DEF SafetyInv, ScanInv, RunsOf, Moved
  <1>9. HandleInv'
    BY <1>1, <1>2, <1>3, <1>4 DEF SafetyInv, HandleInv, JoinedPhases, Moved
  <1>10. RowInv'
    BY <1>1, <1>2, <1>3, <1>4 DEF SafetyInv, RowInv, Executing, LivePhases, Terminal, Moved
  <1>11. StampInv'
    BY <1>1, <1>2, <1>3, <1>4 DEF SafetyInv, StampInv, RunsOf, JoinedPhases, Moved
  <1>12. QED
    BY <1>1, <1>2, <1>3, <1>4, <1>5, <1>6, <1>7, <1>8, <1>9, <1>10, <1>11, Frame
    DEF SafetyInv

LEMMA JoinTaskSafe ==
  ASSUME SingleHost, TypeOK, SafetyInv, NEW r \in Runs,
         JoinTask(r)
  PROVE  SafetyInv'
  <1>1. /\ UNCHANGED <<row, handles, boot, pending, stamped, hits>>
        /\ run[r].phase = "handled"
    BY DEF JoinTask, store, control, scan, ghost
  <1>2. /\ Moved(r, "drain")
        /\ run'[r].reason = run[r].reason
        /\ run'[r].verdict = run[r].verdict
    BY MovedRun DEF JoinTask
  <1>3. run[r].task \in Tasks
    BY <1>1 DEF SafetyInv, RunsInv
  <1>4. \/ /\ run[r].origin = "resume"
           /\ UNCHANGED caller
           /\ \A e \in Executors : current'[e] = NoTask
        \/ /\ run[r].origin # "resume"
           /\ UNCHANGED current
           /\ \A u \in Tasks : caller'[u] = IF u = run[r].task
                THEN IF u \in Blocking THEN "waiting" ELSE "gone" ELSE caller[u]
    BY <1>3, ExecutorAssumption DEF JoinTask, TypeOK, SingleHost
  <1>5. RunsInv'
    BY <1>1, <1>2, <1>3, <1>4 DEF SafetyInv, RunsInv, JoinedPhases, Moved
  <1>6. BootInv'
    BY <1>1, <1>2, <1>3, <1>4 DEF SafetyInv, BootInv, Moved
  <1>7. CallerInv'
    BY <1>1, <1>2, <1>3, <1>4 DEF SafetyInv, CallerInv, RunsOf, Moved
  <1>8. ScanInv'
    BY <1>1, <1>2, <1>3, <1>4, ExecutorAssumption DEF SafetyInv, ScanInv, RunsOf, Moved
  <1>9. HandleInv'
    BY <1>1, <1>2, <1>3, <1>4 DEF SafetyInv, HandleInv, JoinedPhases, Moved
  <1>10. RowInv'
    BY <1>1, <1>2, <1>3, <1>4 DEF SafetyInv, RowInv, Executing, LivePhases, Terminal, Moved
  <1>11. StampInv'
    BY <1>1, <1>2, <1>3, <1>4 DEF SafetyInv, StampInv, RunsOf, JoinedPhases, Moved
  <1>12. QED
    BY <1>1, <1>2, <1>3, <1>4, <1>5, <1>6, <1>7, <1>8, <1>9, <1>10, <1>11, Frame
    DEF SafetyInv

LEMMA DropCallerSafe ==
  ASSUME SingleHost, TypeOK, SafetyInv, NEW t \in Tasks,
         DropCaller(t)
  PROVE  SafetyInv'
  <1>1. /\ UNCHANGED <<row, boot, pending, current, stamped, hits>>
        /\ caller[t] \notin {"idle", "gone"}
    BY DEF DropCaller, store, control, scan, ghost
  <1>2. \A u \in Tasks : caller'[u] = IF u = t THEN "gone" ELSE caller[u]
    BY DEF DropCaller, TypeOK
  <1>3. PICK S \in SUBSET Runs :
          /\ Freed(S)
          /\ \A q \in S : /\ run[q].task = t
                        /\ run[q].origin # "resume"
                        /\ run[q].phase \in {"spawning", "stored", "handled"}
          /\ \A u \in Tasks : handles'[u] = handles[u] \/ handles'[u] = StaleRun
          /\ handles[t] \in S => handles'[t] = StaleRun
    BY DEF DropCaller, Freed, TypeOK
  <1>4. RunsInv'
    BY <1>1, <1>2, <1>3 DEF SafetyInv, RunsInv, JoinedPhases, Freed, FreeRun, Done
  <1>5. BootInv'
    BY <1>1, <1>2, <1>3 DEF SafetyInv, BootInv, Freed, FreeRun, Done
  <1>6. CallerInv'
    BY <1>1, <1>2, <1>3 DEF SafetyInv, CallerInv, RunsOf, Freed, FreeRun, Done
  <1>7. ScanInv'
    BY <1>1, <1>2, <1>3 DEF SafetyInv, ScanInv, RunsOf, Freed, FreeRun, Done
  <1>8. HandleInv'
    <2>1. ASSUME NEW u \in Tasks, handles'[u] \in Runs
          PROVE  handles'[u] = handles[u] /\ handles[u] \notin S
      <3>1. handles'[u] = handles[u]
        BY <1>3, <2>1, ExecutorAssumption
      <3>2. run[handles[u]].task = u
        BY <2>1, <3>1 DEF SafetyInv, HandleInv
      <3>3. QED BY <1>3, <2>1, <3>1, <3>2, ExecutorAssumption
    <2>2. QED BY <1>3, <2>1 DEF SafetyInv, HandleInv, Freed
  <1>9. RowInv'
    BY <1>1, <1>2, <1>3
    DEF SafetyInv, RowInv, Executing, LivePhases, Terminal, Freed, FreeRun, Done
  <1>10. StampInv'
    BY <1>1, <1>2, <1>3 DEF SafetyInv, StampInv, RunsOf, JoinedPhases, Freed, FreeRun, Done
  <1>11. QED
    BY <1>1, <1>2, <1>3, <1>4, <1>5, <1>6, <1>7, <1>8, <1>9, <1>10, Frame DEF SafetyInv

(* classify_outcome pauses for a shutdown only, and never a stopped run. *)
LEMMA ClassifySpares ==
  ASSUME NEW o \in {"paused", "timed_out", "cancelled", "error", "closed", "final"},
         NEW p, NEW s
  PROVE  /\ Classify(o, p, s).status = "paused" =>
              Classify(o, p, s).cause \in {"shutdown", "forced"}
         /\ s = "stop" => Classify(o, p, s).status # "paused"
         /\ Classify(o, p, s).error # "resume_limit"
  BY DEF Classify, Paused, Failed, Done

(* A decided run differs in its phase, its token and its verdict. *)
LEMMA DecidedRun ==
  ASSUME TypeOK, NEW r \in Runs, NEW v, NEW f \in BOOLEAN,
         \/ run' = [run EXCEPT ![r].phase = "decided", ![r].verdict = v]
         \/ run' = [run EXCEPT ![r].phase = "decided", ![r].fired = TRUE, ![r].verdict = v]
  PROVE  /\ Moved(r, "decided")
         /\ run'[r].reason = run[r].reason
         /\ run'[r].verdict = v
  BY DEF Moved, TypeOK, RunState

LEMMA DecideSafe ==
  ASSUME SingleHost, TypeOK, SafetyInv, NEW r \in Runs, NEW o \in {"paused", "timed_out", "cancelled", "error", "closed", "final"},
         run[r].phase \in LivePhases, Decide(r, o)
  PROVE  SafetyInv'
  <1>1. /\ UNCHANGED <<row, handles, caller, boot, pending, current, stamped, hits>>
        /\ run[r].phase \in LivePhases
    BY DEF Decide, store, control, scan, ghost
  <1>2. /\ Moved(r, "decided")
        /\ run'[r].reason = run[r].reason
        /\ run'[r].verdict = Classify(o, pausing[Exec(r)], run[r].reason)
    BY DecidedRun DEF Decide
  <1>3. /\ Classify(o, pausing[Exec(r)], run[r].reason).status = "paused" =>
             Classify(o, pausing[Exec(r)], run[r].reason).cause \in {"shutdown", "forced"}
        /\ run[r].reason = "stop" => Classify(o, pausing[Exec(r)], run[r].reason).status # "paused"
        /\ Classify(o, pausing[Exec(r)], run[r].reason).error # "resume_limit"
    BY ClassifySpares
  <1>4. RunsInv'
    BY <1>1, <1>2, <1>3 DEF SafetyInv, RunsInv, JoinedPhases, Moved, LivePhases
  <1>5. BootInv'
    BY <1>1, <1>2, <1>3 DEF SafetyInv, BootInv, Moved, LivePhases
  <1>6. CallerInv'
    BY <1>1, <1>2, <1>3 DEF SafetyInv, CallerInv, RunsOf, Moved, LivePhases
  <1>7. ScanInv'
    BY <1>1, <1>2, <1>3 DEF SafetyInv, ScanInv, RunsOf, Moved, LivePhases
  <1>8. HandleInv'
    BY <1>1, <1>2, <1>3 DEF SafetyInv, HandleInv, JoinedPhases, Moved, LivePhases
  <1>9. RowInv'
    BY <1>1, <1>2, <1>3 DEF SafetyInv, RowInv, Executing, LivePhases, Terminal, Moved
  <1>10. StampInv'
    BY <1>1, <1>2, <1>3 DEF SafetyInv, StampInv, RunsOf, JoinedPhases, Moved, LivePhases
  <1>11. QED
    BY <1>1, <1>2, <1>3, <1>4, <1>5, <1>6, <1>7, <1>8, <1>9, <1>10, Frame DEF SafetyInv

LEMMA TimeoutFiresSafe ==
  ASSUME SingleHost, TypeOK, SafetyInv, NEW r \in Runs,
         TimeoutFires(r)
  PROVE  SafetyInv'
  <1>1. /\ UNCHANGED <<row, handles, caller, boot, pending, current, stamped, hits>>
        /\ run[r].phase \in LivePhases
    BY DEF TimeoutFires, LivePhases, store, control, scan, ghost
  <1>2. /\ Moved(r, "decided")
        /\ run'[r].reason = run[r].reason
        /\ run'[r].verdict = Classify("timed_out", pausing[Exec(r)], run[r].reason)
    BY DecidedRun DEF TimeoutFires, LivePhases
  <1>3. /\ Classify("timed_out", pausing[Exec(r)], run[r].reason).status = "paused" =>
             Classify("timed_out", pausing[Exec(r)], run[r].reason).cause \in {"shutdown", "forced"}
        /\ run[r].reason = "stop" => Classify("timed_out", pausing[Exec(r)], run[r].reason).status # "paused"
        /\ Classify("timed_out", pausing[Exec(r)], run[r].reason).error # "resume_limit"
    BY ClassifySpares
  <1>4. RunsInv'
    BY <1>1, <1>2, <1>3 DEF SafetyInv, RunsInv, JoinedPhases, Moved, LivePhases
  <1>5. BootInv'
    BY <1>1, <1>2, <1>3 DEF SafetyInv, BootInv, Moved, LivePhases
  <1>6. CallerInv'
    BY <1>1, <1>2, <1>3 DEF SafetyInv, CallerInv, RunsOf, Moved, LivePhases
  <1>7. ScanInv'
    BY <1>1, <1>2, <1>3 DEF SafetyInv, ScanInv, RunsOf, Moved, LivePhases
  <1>8. HandleInv'
    BY <1>1, <1>2, <1>3 DEF SafetyInv, HandleInv, JoinedPhases, Moved, LivePhases
  <1>9. RowInv'
    BY <1>1, <1>2, <1>3 DEF SafetyInv, RowInv, Executing, LivePhases, Terminal, Moved
  <1>10. StampInv'
    BY <1>1, <1>2, <1>3 DEF SafetyInv, StampInv, RunsOf, JoinedPhases, Moved, LivePhases
  <1>11. QED
    BY <1>1, <1>2, <1>3, <1>4, <1>5, <1>6, <1>7, <1>8, <1>9, <1>10, Frame DEF SafetyInv

LEMMA ObserveCancelSafe ==
  ASSUME SingleHost, TypeOK, SafetyInv, NEW r \in Runs,
         ObserveCancel(r)
  PROVE  SafetyInv'
  <1>1. /\ UNCHANGED <<row, handles, caller, boot, pending, current, stamped, hits>>
        /\ run[r].phase = "drain"
    BY DEF ObserveCancel, store, control, scan, ghost
  <1>2. /\ Moved(r, "cancelling")
        /\ run'[r].reason = run[r].reason
        /\ run'[r].verdict = run[r].verdict
    BY MovedRun DEF ObserveCancel
  <1>3. RunsInv'
    BY <1>1, <1>2 DEF SafetyInv, RunsInv, JoinedPhases, Moved
  <1>4. BootInv'
    BY <1>1, <1>2 DEF SafetyInv, BootInv, Moved
  <1>5. CallerInv'
    BY <1>1, <1>2 DEF SafetyInv, CallerInv, RunsOf, Moved
  <1>6. ScanInv'
    BY <1>1, <1>2 DEF SafetyInv, ScanInv, RunsOf, Moved
  <1>7. HandleInv'
    BY <1>1, <1>2 DEF SafetyInv, HandleInv, JoinedPhases, Moved
  <1>8. RowInv'
    BY <1>1, <1>2 DEF SafetyInv, RowInv, Executing, LivePhases, Terminal, Moved
  <1>9. StampInv'
    BY <1>1, <1>2 DEF SafetyInv, StampInv, RunsOf, JoinedPhases, Moved
  <1>10. QED
    BY <1>1, <1>2, <1>3, <1>4, <1>5, <1>6, <1>7, <1>8, <1>9, Frame DEF SafetyInv

LEMMA PersistFailsSafe ==
  ASSUME SingleHost, TypeOK, SafetyInv, NEW r \in Runs,
         PersistFails(r)
  PROVE  SafetyInv'
  <1>1. /\ UNCHANGED <<row, handles, caller, boot, pending, current, stamped, hits>>
        /\ run[r].phase = "decided"
    BY DEF PersistFails, StoreFault, store, control, scan, ghost
  <1>2. /\ Moved(r, "persisted")
        /\ run'[r].reason = run[r].reason
        /\ run'[r].verdict = run[r].verdict
    BY MovedRun DEF PersistFails
  <1>3. RunsInv'
    BY <1>1, <1>2 DEF SafetyInv, RunsInv, JoinedPhases, Moved
  <1>4. BootInv'
    BY <1>1, <1>2 DEF SafetyInv, BootInv, Moved
  <1>5. CallerInv'
    BY <1>1, <1>2 DEF SafetyInv, CallerInv, RunsOf, Moved
  <1>6. ScanInv'
    BY <1>1, <1>2 DEF SafetyInv, ScanInv, RunsOf, Moved
  <1>7. HandleInv'
    BY <1>1, <1>2 DEF SafetyInv, HandleInv, JoinedPhases, Moved
  <1>8. RowInv'
    BY <1>1, <1>2 DEF SafetyInv, RowInv, Executing, LivePhases, Terminal, Moved
  <1>9. StampInv'
    BY <1>1, <1>2 DEF SafetyInv, StampInv, RunsOf, JoinedPhases, Moved
  <1>10. QED
    BY <1>1, <1>2, <1>3, <1>4, <1>5, <1>6, <1>7, <1>8, <1>9, Frame DEF SafetyInv

LEMMA RetireSafe ==
  ASSUME SingleHost, TypeOK, SafetyInv, NEW r \in Runs,
         Retire(r)
  PROVE  SafetyInv'
  <1>1. /\ UNCHANGED <<row, boot, pending, current, stamped, hits>>
        /\ run[r].phase = "persisted"
    BY DEF Retire, store, control, scan, ghost
  <1>2. Freed({r})
    BY DEF Retire, Release, Freed, TypeOK
  <1>3. \A u \in Tasks : handles'[u] = IF u = run[r].task THEN NoRun ELSE handles[u]
    BY DEF Retire, TypeOK
  <1>4. \A u \in Tasks : caller'[u] \in {caller[u], "gone"}
    BY DEF Retire, TypeOK
  <1>5. RunsInv'
    BY <1>1, <1>2, <1>3, <1>4 DEF SafetyInv, RunsInv, JoinedPhases, Freed, FreeRun, Done
  <1>6. BootInv'
    BY <1>1, <1>2, <1>3, <1>4 DEF SafetyInv, BootInv, Freed, FreeRun, Done
  <1>7. CallerInv'
    BY <1>1, <1>2, <1>3, <1>4 DEF SafetyInv, CallerInv, RunsOf, Freed, FreeRun, Done
  <1>8. ScanInv'
    BY <1>1, <1>2, <1>3, <1>4 DEF SafetyInv, ScanInv, RunsOf, Freed, FreeRun, Done
  <1>9. HandleInv'
    BY <1>1, <1>2, <1>3, <1>4, ExecutorAssumption
    DEF SafetyInv, HandleInv, JoinedPhases, Freed, FreeRun, Done
  <1>10. RowInv'
    BY <1>1, <1>2, <1>3, <1>4
    DEF SafetyInv, RowInv, Executing, LivePhases, Terminal, Freed, FreeRun, Done
  <1>11. StampInv'
    BY <1>1, <1>2, <1>3, <1>4
    DEF SafetyInv, StampInv, RunsOf, JoinedPhases, Freed, FreeRun, Done
  <1>12. QED
    BY <1>1, <1>2, <1>3, <1>4, <1>5, <1>6, <1>7, <1>8, <1>9, <1>10, <1>11, Frame
    DEF SafetyInv

------------------------------------------------------------------------------
(* Cancelling and waiting.                                                  *)

(* do_cancel touches the reason of one run of the task and its handle only. *)
LEMMA DoCancelShape ==
  ASSUME TypeOK, SafetyInv, NEW t \in Tasks, DoCancel(t)
  PROVE  /\ \A u \in Tasks : handles'[u] = IF u = t THEN NoRun ELSE handles[u]
         /\ \A q \in Runs :
              /\ run'[q].task = run[q].task
              /\ run'[q].phase = run[q].phase
              /\ run'[q].origin = run[q].origin
              /\ run'[q].verdict = run[q].verdict
              /\ run'[q].set = run[q].set
              /\ run'[q].reason \in {run[q].reason, "stop"}
         /\ \/ stamped' = stamped
            \/ /\ stamped' = stamped \cup {t}
               /\ \E q \in Runs : /\ run[q].task = t
                                  /\ run[q].phase \in LivePhases \cup {"handled"}
                                  /\ run'[q].reason = "stop"
  <1>1. \A u \in Tasks : handles'[u] = IF u = t THEN NoRun ELSE handles[u]
    BY DEF DoCancel, TypeOK
  <1>2. CASE handles[t] \in Runs
    <2> DEFINE h == handles[t]
    <2>1. run' = [run EXCEPT ![h].fired = TRUE,
                             ![h].reason = IF run[h].reason = "unset" THEN "stop"
                                           ELSE run[h].reason]
      BY <1>2 DEF DoCancel
    <2>2. \A q \in Runs :
            /\ run'[q].task = run[q].task
            /\ run'[q].phase = run[q].phase
            /\ run'[q].origin = run[q].origin
            /\ run'[q].verdict = run[q].verdict
            /\ run'[q].set = run[q].set
            /\ q # h => run'[q].reason = run[q].reason
      BY <1>2, <2>1 DEF TypeOK, RunState
    <2>3. run'[h].reason = IF run[h].reason = "unset" THEN "stop" ELSE run[h].reason
      BY <1>2, <2>1 DEF TypeOK, RunState
    <2>4. \/ stamped' = stamped
          \/ /\ stamped' = stamped \cup {t}
             /\ run[h].reason = "unset"
             /\ run[h].phase \in LivePhases \cup {"handled"}
      BY <1>2 DEF DoCancel
    <2>5. run[h].task = t
      BY <1>2 DEF SafetyInv, HandleInv
    <2> HIDE DEF h
    <2>6. h \in Runs
      BY <1>2 DEF h
    <2>7. \A q \in Runs : run'[q].reason \in {run[q].reason, "stop"}
      BY <2>2, <2>3
    <2>8. \/ stamped' = stamped
          \/ /\ stamped' = stamped \cup {t}
             /\ \E q \in Runs : /\ run[q].task = t
                                /\ run[q].phase \in LivePhases \cup {"handled"}
                                /\ run'[q].reason = "stop"
      BY <2>3, <2>4, <2>5, <2>6
    <2>9. QED BY <1>1, <2>2, <2>7, <2>8
  <1>3. CASE handles[t] \notin Runs
    <2>1. run' = run /\ stamped' = stamped
      BY <1>3 DEF DoCancel
    <2>2. QED BY <1>1, <2>1
  <1>4. QED BY <1>2, <1>3

(* A stamp lands on a run that still drives the task, so its row is not Paused. *)
LEMMA DoCancelSafe ==
  ASSUME SingleHost, TypeOK, SafetyInv, NEW t \in Tasks, DoCancel(t),
         UNCHANGED <<row, boot, pending, current>>
  PROVE  /\ RunsInv'
         /\ ScanInv'
         /\ HandleInv'
         /\ RowInv'
         /\ StampInv'
         /\ stamped' # stamped => \E q \in Runs : run[q].phase # "free"
         /\ caller[t] \in {"idle", "queued"} => stamped' = stamped
         /\ \A q \in Runs : run'[q].phase = run[q].phase /\ run'[q].task = run[q].task
                            /\ run'[q].origin = run[q].origin
         /\ \A u \in Tasks : RunsOf(u)' = RunsOf(u)
  <1>1. /\ \A q \in Runs :
             /\ run'[q].task = run[q].task
             /\ run'[q].phase = run[q].phase
             /\ run'[q].origin = run[q].origin
             /\ run'[q].verdict = run[q].verdict
             /\ run'[q].set = run[q].set
             /\ run'[q].reason \in {run[q].reason, "stop"}
        /\ \A u \in Tasks : handles'[u] = IF u = t THEN NoRun ELSE handles[u]
    BY DoCancelShape
  <1>2. \/ stamped' = stamped
        \/ /\ stamped' = stamped \cup {t}
           /\ \E q \in Runs : /\ run[q].task = t
                              /\ run[q].phase \in LivePhases \cup {"handled"}
                              /\ run'[q].reason = "stop"
    BY DoCancelShape
  <1>3. \A u \in Tasks : RunsOf(u)' = RunsOf(u)
    BY <1>1 DEF RunsOf
  <1>4. RunsInv'
    BY <1>1 DEF SafetyInv, RunsInv
  <1>5. ScanInv'
    BY <1>1, <1>2, <1>3 DEF SafetyInv, ScanInv, RunsOf, LivePhases
  <1>6. HandleInv'
    BY <1>1, ExecutorAssumption DEF SafetyInv, HandleInv
  <1>7. \A u \in Tasks : Executing(u)' = Executing(u)
    BY <1>1 DEF Executing
  <1>8. RowInv'
    BY <1>7 DEF SafetyInv, RowInv, Terminal
  <1>9. StampInv'
    <2>1. \A u \in stamped' \ stamped :
            /\ u = t
            /\ row[u].status # "paused"
            /\ \A q \in RunsOf(u) : /\ run'[q].reason = "stop"
                                   /\ run[q].phase \in LivePhases \cup {"handled"}
      BY <1>1, <1>2 DEF SafetyInv, RowInv, RunsInv, RunsOf, Executing, Terminal, LivePhases
    <2>2. \A u \in stamped : \A q \in RunsOf(u) : run'[q].reason = "stop"
      BY <1>1 DEF SafetyInv, StampInv, RunsOf
    <2>3. QED BY <1>1, <1>3, <2>1, <2>2 DEF SafetyInv, StampInv, RunsOf, LivePhases, JoinedPhases
  <1>10. stamped' # stamped => \E q \in Runs : run[q].phase # "free"
    BY <1>2 DEF LivePhases
  <1>11. caller[t] \in {"idle", "queued"} => stamped' = stamped
    BY <1>2 DEF SafetyInv, CallerInv, RunsOf, LivePhases
  <1>12. QED BY <1>1, <1>3, <1>4, <1>5, <1>6, <1>8, <1>9, <1>10, <1>11

LEMMA UserCancelSafe ==
  ASSUME SingleHost, TypeOK, SafetyInv, NEW t \in Tasks,
         UserCancel(t)
  PROVE  SafetyInv'
  <1>1. /\ UNCHANGED <<row, caller, boot, pending, current, hits>>
        /\ DoCancel(t)
    BY DEF UserCancel, store, scan, ghost
  <1>2. /\ RunsInv' /\ ScanInv' /\ HandleInv' /\ RowInv' /\ StampInv'
        /\ stamped' # stamped => \E q \in Runs : run[q].phase # "free"
        /\ caller[t] \in {"idle", "queued"} => stamped' = stamped
        /\ \A q \in Runs : run'[q].phase = run[q].phase /\ run'[q].origin = run[q].origin
        /\ \A u \in Tasks : RunsOf(u)' = RunsOf(u)
    BY <1>1, DoCancelSafe
  <1>3. stamped' \subseteq stamped \cup {t}
    BY <1>1 DEF DoCancel
  <1>4. BootInv'
    BY <1>1, <1>2, <1>3 DEF SafetyInv, BootInv
  <1>5. CallerInv'
    BY <1>1, <1>2, <1>3 DEF SafetyInv, CallerInv, RunsOf
  <1>6. QED
    BY <1>1, <1>2, <1>3, <1>4, <1>5, Frame DEF SafetyInv

LEMMA WaitTimesOutSafe ==
  ASSUME SingleHost, TypeOK, SafetyInv, NEW t \in Tasks,
         WaitTimesOut(t)
  PROVE  SafetyInv'
  <1>1. /\ UNCHANGED <<row, run, handles, boot, pending, current, stamped, hits>>
        /\ caller[t] = "waiting"
    BY DEF WaitTimesOut, store, control, scan, ghost
  <1>2. \A u \in Tasks : caller'[u] = IF u = t THEN "expired" ELSE caller[u]
    BY DEF WaitTimesOut, TypeOK
  <1>3. BootInv'
    BY <1>1, <1>2 DEF SafetyInv, BootInv
  <1>4. CallerInv'
    BY <1>1, <1>2 DEF SafetyInv, CallerInv, RunsOf
  <1>5. QED
    BY <1>1, <1>2, <1>3, <1>4, Frame DEF SafetyInv

LEMMA LoadAfterTimeoutSafe ==
  ASSUME SingleHost, TypeOK, SafetyInv, NEW t \in Tasks,
         LoadAfterTimeout(t)
  PROVE  SafetyInv'
  <1>1. /\ UNCHANGED <<row, boot, pending, current, hits>>
        /\ caller[t] = "expired"
    BY DEF LoadAfterTimeout, store, scan, ghost
  <1>2. \E x \in {"gone", "polling"} : \A u \in Tasks : caller'[u] = IF u = t THEN x ELSE caller[u]
    BY DEF LoadAfterTimeout, Answer, TypeOK
  <1>3. UNCHANGED <<run, handles, stamped>> \/ DoCancel(t)
    BY DEF LoadAfterTimeout, ghost
  <1>4. /\ RunsInv' /\ ScanInv' /\ HandleInv' /\ RowInv' /\ StampInv'
        /\ stamped' # stamped => \E q \in Runs : run[q].phase # "free"
        /\ stamped' \subseteq stamped \cup {t}
        /\ \A q \in Runs : run'[q].phase = run[q].phase /\ run'[q].origin = run[q].origin
        /\ \A u \in Tasks : RunsOf(u)' = RunsOf(u)
    <2>1. CASE UNCHANGED <<run, handles, stamped>>
      BY <1>1, <2>1, Frame DEF RunsOf
    <2>2. CASE DoCancel(t)
      <3>1. stamped' \subseteq stamped \cup {t}
        BY <2>2 DEF DoCancel
      <3>2. QED BY <1>1, <2>2, <3>1, DoCancelSafe
    <2>3. QED BY <1>3, <2>1, <2>2  <1>5. BootInv'
    BY <1>1, <1>2, <1>3, <1>4 DEF SafetyInv, BootInv
  <1>6. CallerInv'
    BY <1>1, <1>2, <1>3, <1>4 DEF SafetyInv, CallerInv, RunsOf
  <1>7. QED
    BY <1>1, <1>2, <1>3, <1>4, <1>5, <1>6, Frame DEF SafetyInv

LEMMA PollReturnsSafe ==
  ASSUME SingleHost, TypeOK, SafetyInv, NEW t \in Tasks,
         PollReturns(t)
  PROVE  SafetyInv'
  <1>1. /\ UNCHANGED <<row, run, handles, boot, pending, current, stamped, hits>>
        /\ caller[t] = "polling"
    BY DEF PollReturns, store, control, scan, ghost
  <1>2. \E x \in {"gone", "overdue"} : \A u \in Tasks : caller'[u] = IF u = t THEN x ELSE caller[u]
    BY DEF PollReturns, Answer, TypeOK
  <1>3. BootInv'
    BY <1>1, <1>2 DEF SafetyInv, BootInv
  <1>4. CallerInv'
    BY <1>1, <1>2 DEF SafetyInv, CallerInv, RunsOf
  <1>5. QED
    BY <1>1, <1>2, <1>3, <1>4, Frame DEF SafetyInv

LEMMA WaiterLosesSenderSafe ==
  ASSUME SingleHost, TypeOK, SafetyInv, NEW t \in Tasks,
         WaiterLosesSender(t)
  PROVE  SafetyInv'
  <1>1. /\ UNCHANGED <<row, run, handles, boot, pending, current, stamped, hits>>
        /\ caller[t] = "waiting"
    BY DEF WaiterLosesSender, store, control, scan, ghost
  <1>2. \E x \in {"gone", "overdue"} : \A u \in Tasks : caller'[u] = IF u = t THEN x ELSE caller[u]
    BY DEF WaiterLosesSender, Answer, TypeOK
  <1>3. BootInv'
    BY <1>1, <1>2 DEF SafetyInv, BootInv
  <1>4. CallerInv'
    BY <1>1, <1>2 DEF SafetyInv, CallerInv, RunsOf
  <1>5. QED
    BY <1>1, <1>2, <1>3, <1>4, Frame DEF SafetyInv

LEMMA FinishOverdueSafe ==
  ASSUME SingleHost, TypeOK, SafetyInv, NEW t \in Tasks,
         FinishOverdue(t)
  PROVE  SafetyInv'
  <1>1. /\ UNCHANGED <<run, handles, boot, pending, current, stamped, hits>>
        /\ caller[t] = "overdue"
    BY DEF FinishOverdue, store, control, scan, ghost
  <1>2. \A u \in Tasks : caller'[u] = IF u = t THEN "gone" ELSE caller[u]
    BY DEF FinishOverdue, TypeOK
  <1>3. \A u \in Tasks : row'[u] = IF u = t THEN Finished(row[u], "failed", "timed_out") ELSE row[u]
    BY DEF FinishOverdue, TypeOK
  <1>4. row[t].status # "absent" =>
          /\ Finished(row[t], "failed", "timed_out").status = "failed"
          /\ Finished(row[t], "failed", "timed_out").error = "timed_out"
          /\ Finished(row[t], "failed", "timed_out").resumes = row[t].resumes
    BY DEF Finished, TypeOK, Row
  <1>5. row[t].status = "absent" => Finished(row[t], "failed", "timed_out") = row[t]
    BY DEF Finished
  <1>6. t \in Blocking
    BY <1>1 DEF SafetyInv, CallerInv
  <1>7. BootInv'
    BY <1>1, <1>2, <1>3, <1>4, <1>5, <1>6 DEF SafetyInv, BootInv
  <1>8. CallerInv'
    BY <1>1, <1>2, <1>3, <1>4, <1>5, <1>6 DEF SafetyInv, CallerInv, RunsOf
  <1>9. ScanInv'
    BY <1>1, <1>2, <1>3, <1>4, <1>5, <1>6 DEF SafetyInv, ScanInv, RunsOf
  <1>10. RowInv'
    BY <1>1, <1>2, <1>3, <1>4, <1>5, <1>6
    DEF SafetyInv, RowInv, Executing, LivePhases, Terminal
  <1>11. StampInv'
    <2>1. \A u \in Tasks : row[u].status # "paused" => row'[u].status # "paused"
      BY <1>3, <1>4, <1>5
    <2>2. stamped \subseteq Tasks /\ \A u \in Tasks : RunsOf(u)' = RunsOf(u)
      BY <1>1 DEF RunsOf, TypeOK
    <2>3. QED BY <1>1, <2>1, <2>2 DEF SafetyInv, StampInv
  <1>12. HitsInv'
    BY <1>1, <1>2, <1>3, <1>4, <1>5, <1>6 DEF SafetyInv, HitsInv, CountsTowardCap
  <1>13. QED
    BY <1>1, <1>2, <1>3, <1>4, <1>5, <1>6, <1>7, <1>8, <1>9, <1>10, <1>11, <1>12, Frame
    DEF SafetyInv

------------------------------------------------------------------------------
(* Row transitions, field by field: claim, finish, and the verdict write. *)
LEMMA ClaimedShape ==
  ASSUME NEW w \in Row
  PROVE  /\ ClaimedRow(w).status = "running"
         /\ ClaimedRow(w).error = w.error
         /\ CountsTowardCap(w) => ClaimedRow(w).resumes = w.resumes + 1
         /\ ~CountsTowardCap(w) => ClaimedRow(w).resumes = w.resumes
  BY DEF ClaimedRow, Row

(* finish() keeps the resumes a row has spent. *)
LEMMA FinishedShape ==
  ASSUME NEW w \in Row, NEW s, NEW x, w.status # "absent"
  PROVE  /\ Finished(w, s, x).status = s
         /\ Finished(w, s, x).error = x
         /\ Finished(w, s, x).resumes = w.resumes
  BY DEF Finished, Row

(* A stamped task whose runs are kept or freed keeps its promise. *)
LEMMA StampKept ==
  ASSUME TypeOK, SafetyInv,
         UNCHANGED stamped,
         \A u \in Tasks : row[u].status # "paused" => row'[u].status # "paused" \/ u \notin stamped,
         \A q \in Runs : run'[q].phase # "free" => run'[q] = run[q] \/ run[q].task \notin stamped,
         \A q \in Runs : run'[q].phase # "free" => run'[q].task = run[q].task
  PROVE  StampInv'
  <1>1. \A u \in stamped : \A q \in RunsOf(u)' : q \in RunsOf(u) /\ run'[q] = run[q]
    BY DEF RunsOf
  <1>2. stamped \subseteq Tasks
    BY DEF TypeOK
  <1>3. QED BY <1>1, <1>2 DEF SafetyInv, StampInv

(* pause_task compares and swaps, finalize_task overwrites. *)
LEMMA WrittenShape ==
  ASSUME NEW w \in Row, NEW v \in Verdicts
  PROVE  /\ Written(w, v).resumes = w.resumes
         /\ w.status = "absent" => Written(w, v) = w
         /\ w.status # "absent" /\ v.status # "paused" =>
              /\ Written(w, v).status \in {"done", "failed"}
              /\ Written(w, v).error = v.error
         /\ v.status = "paused" /\ w.status = "running" =>
              /\ Written(w, v).status = "paused"
              /\ Written(w, v).cause = v.cause
              /\ Written(w, v).error = w.error
         /\ v.status = "paused" /\ w.status # "running" => Written(w, v) = w
  BY DEF Written, PausedRow, Finished, Row, Verdicts

LEMMA PersistSafe ==
  ASSUME SingleHost, TypeOK, SafetyInv, NEW r \in Runs,
         Persist(r)
  PROVE  SafetyInv'
  <1>1. /\ UNCHANGED <<handles, caller, boot, pending, current, stamped>>
        /\ run[r].phase = "decided"
    BY DEF Persist, store, control, scan, ghost
  <1>2. /\ Moved(r, "persisted")
        /\ run'[r].reason = run[r].reason
        /\ run'[r].verdict = run[r].verdict
    BY MovedRun DEF Persist
  <1>3. run[r].task \in Tasks /\ run[r].verdict \in Verdicts
    BY <1>1 DEF SafetyInv, RunsInv, TypeOK, RunState
  <1>4. \A u \in Tasks : row'[u] = IF u = run[r].task THEN Written(row[u], run[r].verdict) ELSE row[u]
    BY DEF Persist, TypeOK
  <1>5. \A u \in Tasks :
          hits'[u] = IF u = run[r].task /\ Forced(run[r].verdict) /\ row[u].status = "running"
                     THEN hits[u] + 1 ELSE hits[u]
    BY <1>3 DEF Persist, TypeOK
  <1>6. \A u \in Tasks : row[u] \in Row /\ hits[u] \in Nat
    BY DEF TypeOK
  <1>7. RunsInv'
    BY <1>1, <1>2, <1>3, <1>4, <1>5, <1>6 DEF SafetyInv, RunsInv, JoinedPhases, Moved
  <1>8. BootInv'
    BY <1>1, <1>2, <1>3, <1>4, <1>5, <1>6 DEF SafetyInv, BootInv, Moved
  <1>9. CallerInv'
    <2>1. \A u \in Tasks : row[u].status = "absent" => row'[u].status = "absent"
      BY <1>3, <1>4, <1>6, WrittenShape
    <2>2. \A u \in Tasks : row[u].status # "absent" => row'[u].status # "absent"
      BY <1>3, <1>4, <1>6, WrittenShape
    <2>3. \A u \in Tasks : RunsOf(u)' = RunsOf(u)
      BY <1>1, <1>2 DEF RunsOf, Moved
    <2>4. QED BY <1>1, <2>1, <2>2, <2>3 DEF SafetyInv, CallerInv
  <1>10. ScanInv'
    <2>1. \A u \in Tasks : row[u].status # "absent" => row'[u].status # "absent"
      BY <1>3, <1>4, <1>6, WrittenShape
    <2>2. QED BY <1>1, <1>2, <2>1 DEF SafetyInv, ScanInv, RunsOf, Moved
  <1>11. HandleInv'
    BY <1>1, <1>2, <1>3, <1>4, <1>5, <1>6 DEF SafetyInv, HandleInv, JoinedPhases, Moved
  <1>12. RowInv'
    <2>1. ASSUME NEW u \in Tasks, NEW q \in Executing(u)'
          PROVE  q \in Executing(u) /\ u # run[r].task
      BY <1>1, <1>2, <1>3, <2>1 DEF SafetyInv, RunsInv, Executing, LivePhases, Moved
    <2>2. QED BY <1>4, <2>1 DEF SafetyInv, RowInv, Terminal
  <1>13. StampInv'
    <2>1. ASSUME NEW u \in stamped
          PROVE  row'[u].status # "paused"
      <3>1. CASE u = run[r].task
        <4>1. run[r].verdict.status # "paused"
          BY <1>1, <1>3, <2>1, <3>1 DEF SafetyInv, StampInv, RunsOf
        <4>2. u \in Tasks /\ row[u].status # "paused"
          BY <1>3, <2>1, <3>1 DEF SafetyInv, StampInv
        <4>3. QED BY <1>3, <1>4, <1>6, <3>1, <4>1, <4>2, WrittenShape
      <3>2. CASE u # run[r].task
        BY <1>4, <2>1, <3>2 DEF SafetyInv, StampInv, TypeOK
      <3>3. QED BY <3>1, <3>2
    <2>2. QED BY <1>1, <1>2, <2>1 DEF SafetyInv, StampInv, RunsOf, JoinedPhases, Moved
  <1>14. HitsInv'
    <2>1. \A e \in Executors : boot[e] # "idle"
      BY <1>1 DEF SafetyInv, BootInv, SingleHost
    <2>2. /\ run[r].verdict.status = "paused" => run[r].verdict.cause \in {"shutdown", "forced"}
          /\ run[r].verdict.error # "resume_limit"
      BY DEF SafetyInv, RunsInv
    <2>3. \A u \in Tasks : /\ row[u].resumes \in Nat
                          /\ row'[u].resumes = row[u].resumes
                          /\ hits[u] \in Nat /\ hits'[u] \in Nat
                          /\ hits[u] <= hits'[u]
      BY <1>3, <1>4, <1>5, <1>6, WrittenShape DEF Row
    <2>4. \A u \in Tasks : row'[u].error = "resume_limit" => row[u].error = "resume_limit"
      BY <1>3, <1>4, <1>6, <2>2, WrittenShape
    <2>5. ASSUME NEW u \in Tasks, row'[u].status = "paused", CountsTowardCap(row'[u])
          PROVE  row'[u].resumes < hits'[u]
      <3>1. CASE row'[u] = row[u]
        BY <1>6, <2>3, <2>5, <3>1 DEF SafetyInv, HitsInv
      <3>2. CASE row'[u] # row[u]
        <4>1. /\ u = run[r].task
              /\ row[u].status = "running"
              /\ run[r].verdict.status = "paused"
              /\ row'[u].cause = run[r].verdict.cause
          BY <1>3, <1>4, <1>6, <2>5, <3>2, WrittenShape
        <4>2. Forced(run[r].verdict)
          BY <2>2, <2>5, <4>1 DEF Forced, CountsTowardCap
        <4>3. hits'[u] = hits[u] + 1 /\ row[u].resumes <= hits[u]
          BY <1>5, <4>1, <4>2 DEF SafetyInv, HitsInv
        <4>4. QED BY <1>6, <2>3, <4>3
      <3>3. QED BY <3>1, <3>2
    <2>6. \A u \in Tasks : row'[u].resumes <= hits'[u]
      BY <2>3 DEF SafetyInv, HitsInv
    <2>7. \A u \in Tasks : row'[u].error = "resume_limit" => MaxResumes < hits'[u]
      BY <2>3, <2>4, ExecutorAssumption DEF SafetyInv, HitsInv
    <2>8. QED BY <1>1, <2>1, <2>5, <2>6, <2>7 DEF HitsInv
  <1>15. QED
    BY <1>1, <1>2, <1>3, <1>4, <1>5, <1>6, <1>7, <1>8, <1>9, <1>10, <1>11, <1>12, <1>13, <1>14, Frame
    DEF SafetyInv

------------------------------------------------------------------------------
(* Resuming after a restart.                                                *)

LEMMA AdoptOrphansSafe ==
  ASSUME SingleHost, TypeOK, SafetyInv, NEW e \in Executors,
         AdoptOrphans(e)
  PROVE  SafetyInv'
  <1>1. /\ UNCHANGED <<run, handles, caller, pending, current, stamped, hits>>
        /\ boot[e] = "idle"
    BY DEF AdoptOrphans, store, control, scan, ghost
  <1>2. \A d \in Executors : d = e
    BY DEF SingleHost
  <1>3. \A d \in Executors : boot'[d] = "adopted"
    BY <1>2 DEF AdoptOrphans, TypeOK
  <1>4. /\ stamped = {}
        /\ \A r \in Runs : run[r].phase = "free"
    BY <1>1 DEF SafetyInv, BootInv
  <1>5. \A u \in Tasks : row'[u] = FoldedRow(row[u]) /\ row[u] \in Row
    BY DEF AdoptOrphans, TypeOK
  <1>6. \A u \in Tasks :
          /\ row'[u].resumes = row[u].resumes
          /\ row'[u].error = row[u].error
          /\ row[u].status = "running" => row'[u].status = "paused"
          /\ row[u].status # "running" => row'[u] = row[u]
    BY <1>5, ZenonT(60) DEF FoldedRow, PausedRow, Row
  <1>7. \A u \in Tasks : row'[u].status # row[u].status => row[u].status = "running"
    BY <1>6
  <1>8. BootInv'
    BY <1>1, <1>2, <1>3, <1>4, <1>5, <1>6, <1>7 DEF SafetyInv, BootInv
  <1>9. CallerInv'
    BY <1>1, <1>2, <1>3, <1>4, <1>5, <1>6, <1>7 DEF SafetyInv, CallerInv, RunsOf
  <1>10. ScanInv'
    BY <1>1, <1>2, <1>3, <1>4, <1>5, <1>6, <1>7 DEF SafetyInv, ScanInv, RunsOf
  <1>11. RowInv'
    BY <1>1, <1>2, <1>3, <1>4, <1>5, <1>6, <1>7
    DEF SafetyInv, RowInv, Executing, LivePhases, Terminal
  <1>12. StampInv'
    BY <1>1, <1>2, <1>3, <1>4, <1>5, <1>6, <1>7
    DEF SafetyInv, StampInv, RunsOf, JoinedPhases
  <1>13. HitsInv'
    BY <1>1, <1>2, <1>3, <1>4, <1>5, <1>6, <1>7 DEF SafetyInv, HitsInv, CountsTowardCap
  <1>14. QED
    BY <1>1, <1>2, <1>3, <1>4, <1>5, <1>6, <1>7, <1>8, <1>9, <1>10, <1>11, <1>12, <1>13, Frame
    DEF SafetyInv

LEMMA ScanPausedSafe ==
  ASSUME SingleHost, TypeOK, SafetyInv, NEW e \in Executors,
         ScanPaused(e)
  PROVE  SafetyInv'
  <1>1. /\ UNCHANGED <<row, run, handles, caller, current, stamped, hits>>
        /\ boot[e] = "adopted"
    BY DEF ScanPaused, store, control, scan, ghost
  <1>2. \A d \in Executors : d = e
    BY DEF SingleHost
  <1>3. /\ boot'[e] = "resuming"
        /\ \A t \in pending'[e] : t \in Tasks /\ row[t].status = "paused"
    BY DEF ScanPaused, TypeOK
  <1>4. current[e] \notin Tasks
    BY <1>1, ExecutorAssumption DEF SafetyInv, BootInv
  <1>5. BootInv'
    BY <1>1, <1>2, <1>3, <1>4 DEF SafetyInv, BootInv
  <1>6. ScanInv'
    BY <1>1, <1>2, <1>3, <1>4 DEF SafetyInv, ScanInv, RunsOf, BootInv
  <1>7. HitsInv'
    BY <1>1, <1>2, <1>3, <1>4 DEF SafetyInv, HitsInv, CountsTowardCap
  <1>8. QED
    BY <1>1, <1>2, <1>3, <1>4, <1>5, <1>6, <1>7, Frame DEF SafetyInv

LEMMA ResumeFailsSafe ==
  ASSUME SingleHost, TypeOK, SafetyInv, NEW e \in Executors,
         ResumeFails(e)
  PROVE  SafetyInv'
  <1>1. /\ UNCHANGED <<row, run, handles, caller, pending, current, stamped, hits>>
        /\ boot[e] \in {"idle", "adopted"}
    BY DEF ResumeFails, StoreFault, store, control, scan, ghost
  <1>2. \A d \in Executors : d = e
    BY DEF SingleHost
  <1>3. boot'[e] = "done"
    BY DEF ResumeFails, TypeOK
  <1>4. BootInv'
    BY <1>1, <1>2, <1>3 DEF SafetyInv, BootInv
  <1>5. HitsInv'
    BY <1>1, <1>2, <1>3 DEF SafetyInv, HitsInv, CountsTowardCap
  <1>6. QED
    BY <1>1, <1>2, <1>3, <1>4, <1>5, Frame DEF SafetyInv

LEMMA PickResumeSafe ==
  ASSUME SingleHost, TypeOK, SafetyInv, NEW e \in Executors, NEW t \in Tasks,
         PickResume(e, t)
  PROVE  SafetyInv'
  <1>1. /\ UNCHANGED <<row, run, handles, caller, boot, stamped, hits>>
        /\ boot[e] = "resuming" /\ t \in pending[e]
    BY DEF PickResume, store, control, scan, ghost
  <1>2. \A d \in Executors : d = e
    BY DEF SingleHost
  <1>3. current'[e] = t /\ pending'[e] = pending[e] \ {t}
    BY DEF PickResume, TypeOK
  <1>4. BootInv'
    BY <1>1, <1>2, <1>3 DEF SafetyInv, BootInv
  <1>5. ScanInv'
    BY <1>1, <1>2, <1>3 DEF SafetyInv, ScanInv, RunsOf
  <1>6. QED
    BY <1>1, <1>2, <1>3, <1>4, <1>5, Frame DEF SafetyInv

LEMMA ScanDoneSafe ==
  ASSUME SingleHost, TypeOK, SafetyInv, NEW e \in Executors,
         ScanDone(e)
  PROVE  SafetyInv'
  <1>1. /\ UNCHANGED <<row, run, handles, caller, pending, current, stamped, hits>>
        /\ boot[e] = "resuming" /\ current[e] = NoTask /\ pending[e] = {}
    BY DEF ScanDone, store, control, scan, ghost
  <1>2. \A d \in Executors : d = e
    BY DEF SingleHost
  <1>3. boot'[e] = "done"
    BY DEF ScanDone, TypeOK
  <1>4. BootInv'
    BY <1>1, <1>2, <1>3 DEF SafetyInv, BootInv
  <1>5. HitsInv'
    BY <1>1, <1>2, <1>3 DEF SafetyInv, HitsInv, CountsTowardCap
  <1>6. QED
    BY <1>1, <1>2, <1>3, <1>4, <1>5, Frame DEF SafetyInv

LEMMA ClaimLegacySafe ==
  ASSUME SingleHost, TypeOK, SafetyInv, NEW e \in Executors,
         ClaimLegacy(e)
  PROVE  SafetyInv'
  <1>1. /\ UNCHANGED <<run, handles, caller, boot, pending, stamped, hits>>
        /\ current[e] \in Tasks /\ current[e] \in Legacy
    BY ExecutorAssumption DEF ClaimLegacy, scan, ghost
  <1>2. \A d \in Executors : d = e
    BY DEF SingleHost
  <1>3. current'[e] \in {current[e], NoTask} /\ NoTask \notin Tasks
    BY ExecutorAssumption DEF ClaimLegacy, Skip, TypeOK
  <1>4. \A u \in Tasks :
          \/ row'[u] = row[u]
          \/ /\ u = current[e]
             /\ row[u].status = "paused"
             /\ row'[u] = ClaimedRow(row[u])
    BY <1>1 DEF ClaimLegacy, Claimable, TypeOK
  <1>5. \A u \in Tasks : row[u] \in Row /\ hits[u] \in Nat
    BY DEF TypeOK
  <1>6. \A u \in Tasks :
          /\ ClaimedRow(row[u]).status = "running"
          /\ ClaimedRow(row[u]).error = row[u].error
          /\ CountsTowardCap(row[u]) => ClaimedRow(row[u]).resumes = row[u].resumes + 1
          /\ ~CountsTowardCap(row[u]) => ClaimedRow(row[u]).resumes = row[u].resumes
    BY <1>5, ClaimedShape
  <1>7. /\ RunsOf(current[e]) = {}
        /\ \A d \in Executors : boot[d] # "idle"
    BY <1>1, <1>2, <1>3 DEF SafetyInv, CallerInv, BootInv
  <1>8. BootInv'
    BY <1>1, <1>2, <1>3, <1>4, <1>5, <1>6, <1>7 DEF SafetyInv, BootInv
  <1>9. CallerInv'
    BY <1>1, <1>2, <1>3, <1>4, <1>5, <1>6, <1>7 DEF SafetyInv, CallerInv, RunsOf
  <1>10. ScanInv'
    BY <1>1, <1>2, <1>3, <1>4, <1>5, <1>6, <1>7 DEF SafetyInv, ScanInv, RunsOf
  <1>11. RowInv'
    BY <1>1, <1>2, <1>3, <1>4, <1>5, <1>6, <1>7
    DEF SafetyInv, RowInv, Executing, LivePhases, Terminal, RunsOf
  <1>12. StampInv'
    <2>1. \A u \in Tasks : row[u].status # "paused" => row'[u].status # "paused"
      BY <1>4, <1>6
    <2>2. QED BY <1>1, <2>1, StampKept
  <1>13. HitsInv'
    BY <1>1, <1>2, <1>3, <1>4, <1>5, <1>6, <1>7 DEF SafetyInv, HitsInv, CountsTowardCap, Row
  <1>14. QED
    BY <1>1, <1>2, <1>3, <1>4, <1>5, <1>6, <1>7, <1>8, <1>9, <1>10, <1>11, <1>12, <1>13, Frame
    DEF SafetyInv

LEMMA FinishLegacySafe ==
  ASSUME SingleHost, TypeOK, SafetyInv, NEW e \in Executors,
         FinishLegacy(e)
  PROVE  SafetyInv'
  <1>1. /\ UNCHANGED <<run, handles, caller, boot, pending, stamped, hits>>
        /\ current[e] \in Tasks /\ current[e] \in Legacy
    BY ExecutorAssumption DEF FinishLegacy, scan, ghost
  <1>2. \A d \in Executors : d = e
    BY DEF SingleHost
  <1>3. current'[e] = NoTask /\ NoTask \notin Tasks
    BY ExecutorAssumption DEF FinishLegacy, Skip, TypeOK
  <1>4. \A u \in Tasks :
          \/ row'[u] = row[u]
          \/ /\ u = current[e]
             /\ row[u].status = "running"
             /\ row'[u] = Finished(row[u], "failed", "not_resumable")
    BY <1>1 DEF FinishLegacy, TypeOK
  <1>5. \A u \in Tasks :
          \/ row'[u] = row[u]
          \/ /\ u = current[e]
             /\ row[u].status = "running"
             /\ row'[u].status = "failed"
             /\ row'[u].error = "not_resumable"
             /\ row'[u].resumes = row[u].resumes
    BY <1>4, FinishedShape DEF TypeOK
  <1>6. RunsOf(current[e]) = {}
    BY <1>1 DEF SafetyInv, CallerInv
  <1>7. BootInv'
    BY <1>1, <1>2, <1>3, <1>4, <1>5, <1>6 DEF SafetyInv, BootInv
  <1>8. CallerInv'
    BY <1>1, <1>2, <1>3, <1>4, <1>5, <1>6 DEF SafetyInv, CallerInv, RunsOf
  <1>9. ScanInv'
    BY <1>1, <1>2, <1>3, <1>4, <1>5, <1>6 DEF SafetyInv, ScanInv, RunsOf
  <1>10. RowInv'
    BY <1>1, <1>2, <1>3, <1>4, <1>5, <1>6
    DEF SafetyInv, RowInv, Executing, LivePhases, Terminal, RunsOf
  <1>11. StampInv'
    <2>1. \A u \in Tasks : row[u].status # "paused" => row'[u].status # "paused"
      BY <1>5
    <2>2. QED BY <1>1, <2>1, StampKept
  <1>12. HitsInv'
    BY <1>1, <1>2, <1>3, <1>4, <1>5, <1>6 DEF SafetyInv, HitsInv, CountsTowardCap
  <1>13. QED
    BY <1>1, <1>2, <1>3, <1>4, <1>5, <1>6, <1>7, <1>8, <1>9, <1>10, <1>11, <1>12, Frame
    DEF SafetyInv

LEMMA LegacyFailsSafe ==
  ASSUME SingleHost, TypeOK, SafetyInv, NEW e \in Executors,
         LegacyFails(e)
  PROVE  SafetyInv'
  <1>1. UNCHANGED <<row, run, handles, caller, boot, pending, stamped, hits>>
    BY DEF LegacyFails, Skip, StoreFault, store, control, scan, ghost
  <1>2. \A d \in Executors : d = e
    BY DEF SingleHost
  <1>3. current'[e] = NoTask /\ NoTask \notin Tasks
    BY ExecutorAssumption DEF LegacyFails, Skip, TypeOK
  <1>4. BootInv'
    BY <1>1, <1>2, <1>3 DEF SafetyInv, BootInv
  <1>5. ScanInv'
    BY <1>1, <1>2, <1>3 DEF SafetyInv, ScanInv, RunsOf
  <1>6. QED
    BY <1>1, <1>2, <1>3, <1>4, <1>5, Frame DEF SafetyInv

LEMMA RejectResumeSafe ==
  ASSUME SingleHost, TypeOK, SafetyInv, NEW e \in Executors,
         RejectResume(e)
  PROVE  SafetyInv'
  <1>1. UNCHANGED <<row, run, handles, caller, boot, pending, stamped, hits>>
    BY DEF RejectResume, Skip, store, control, scan, ghost
  <1>2. \A d \in Executors : d = e
    BY DEF SingleHost
  <1>3. current'[e] = NoTask /\ NoTask \notin Tasks
    BY ExecutorAssumption DEF RejectResume, Skip, TypeOK
  <1>4. BootInv'
    BY <1>1, <1>2, <1>3 DEF SafetyInv, BootInv
  <1>5. ScanInv'
    BY <1>1, <1>2, <1>3 DEF SafetyInv, ScanInv, RunsOf
  <1>6. QED
    BY <1>1, <1>2, <1>3, <1>4, <1>5, Frame DEF SafetyInv

LEMMA ResumePermitSafe ==
  ASSUME SingleHost, TypeOK, SafetyInv, NEW e \in Executors, NEW r \in Runs,
         ResumePermit(e, r)
  PROVE  SafetyInv'
  <1>1. /\ UNCHANGED <<row, handles, caller, boot, pending, current, stamped, hits>>
        /\ current[e] \in Tasks \ Legacy /\ run[r].phase = "free" /\ ResumeRuns(e) = {}
    BY DEF ResumePermit, store, control, scan, ghost
  <1>2. \A d \in Executors : d = e
    BY DEF SingleHost
  <1>3. /\ \A q \in Runs \ {r} : run'[q] = run[q]
        /\ run'[r].task = current[e]
        /\ run'[r].phase = "claiming"
        /\ run'[r].origin = "resume"
        /\ run'[r].set = "live"
        /\ run'[r].verdict.status = "done"
        /\ run'[r].verdict.error = "none"
    BY DEF ResumePermit, TypeOK, FreeRun, Done
  <1>4. RunsOf(current[e]) = {}
    BY <1>1 DEF SafetyInv, ScanInv, RunsOf, ResumeRuns
  <1>5. boot[e] = "resuming" /\ NoTask \notin Tasks
    BY <1>1, ExecutorAssumption DEF SafetyInv, BootInv, TypeOK
  <1>6. /\ caller[current[e]] \notin {"idle", "queued"}
        /\ current[e] \notin stamped
        /\ current[e] \notin pending[e]
    BY <1>1, <1>4 DEF SafetyInv, CallerInv, ScanInv
  <1>7. RunsInv'
    BY <1>1, <1>2, <1>3, <1>4, <1>5, <1>6 DEF SafetyInv, RunsInv, JoinedPhases, RunsOf
  <1>8. BootInv'
    BY <1>1, <1>2, <1>3, <1>4, <1>5, <1>6 DEF SafetyInv, BootInv, RunsOf
  <1>9. CallerInv'
    BY <1>1, <1>2, <1>3, <1>4, <1>5, <1>6 DEF SafetyInv, CallerInv, RunsOf
  <1>10. ScanInv'
    BY <1>1, <1>2, <1>3, <1>4, <1>5, <1>6 DEF SafetyInv, ScanInv, RunsOf
  <1>11. HandleInv'
    BY <1>1, <1>2, <1>3, <1>4, <1>5, <1>6 DEF SafetyInv, HandleInv, JoinedPhases, RunsOf
  <1>12. RowInv'
    BY <1>1, <1>2, <1>3, <1>4, <1>5, <1>6
    DEF SafetyInv, RowInv, Executing, LivePhases, Terminal, RunsOf
  <1>13. StampInv'
    BY <1>1, <1>2, <1>3, <1>4, <1>5, <1>6 DEF SafetyInv, StampInv, RunsOf, JoinedPhases
  <1>14. QED
    BY <1>1, <1>2, <1>3, <1>4, <1>5, <1>6, <1>7, <1>8, <1>9, <1>10, <1>11, <1>12, <1>13, Frame
    DEF SafetyInv

LEMMA ClaimSafe ==
  ASSUME SingleHost, TypeOK, SafetyInv, NEW r \in Runs,
         Claim(r)
  PROVE  SafetyInv'
  <1>1. /\ UNCHANGED <<handles, caller, boot, pending, current, stamped, hits>>
        /\ run[r].phase = "claiming"
    BY DEF Claim, store, control, scan, ghost
  <1>2. /\ Moved(r, "stored")
        /\ run'[r].reason = run[r].reason
        /\ run'[r].verdict = run[r].verdict
    BY MovedRun DEF Claim
  <1>3. run[r].task \in Tasks
    BY <1>1 DEF SafetyInv, RunsInv
  <1>4. \A u \in Tasks : row'[u] = IF u = run[r].task THEN ClaimedRow(row[u]) ELSE row[u]
    BY DEF Claim, TypeOK
  <1>5. row[run[r].task].status = "paused"
    BY DEF Claim, Claimable
  <1>6. \A u \in Tasks : row[u] \in Row /\ hits[u] \in Nat
    BY DEF TypeOK
  <1>7. \A u \in Tasks :
          /\ ClaimedRow(row[u]).status = "running"
          /\ ClaimedRow(row[u]).error = row[u].error
          /\ CountsTowardCap(row[u]) => ClaimedRow(row[u]).resumes = row[u].resumes + 1
          /\ ~CountsTowardCap(row[u]) => ClaimedRow(row[u]).resumes = row[u].resumes
    BY <1>6, ClaimedShape
  <1>8. /\ run[r].phase \notin {"handled"} \cup JoinedPhases
        /\ run[r].task \notin stamped
        /\ \A d \in Executors : boot[d] # "idle"
    BY <1>1, <1>3 DEF SafetyInv, StampInv, BootInv, RunsOf, JoinedPhases
  <1>9. RunsInv'
    BY <1>1, <1>2, <1>3, <1>4, <1>5, <1>6, <1>7, <1>8
    DEF SafetyInv, RunsInv, JoinedPhases, Moved
  <1>10. BootInv'
    BY <1>1, <1>2, <1>3, <1>4, <1>5, <1>6, <1>7, <1>8 DEF SafetyInv, BootInv, Moved
  <1>11. CallerInv'
    BY <1>1, <1>2, <1>3, <1>4, <1>5, <1>6, <1>7, <1>8
    DEF SafetyInv, CallerInv, RunsOf, Moved
  <1>12. ScanInv'
    BY <1>1, <1>2, <1>3, <1>4, <1>5, <1>6, <1>7, <1>8 DEF SafetyInv, ScanInv, RunsOf, Moved
  <1>13. HandleInv'
    BY <1>1, <1>2, <1>3, <1>4, <1>5, <1>6, <1>7, <1>8
    DEF SafetyInv, HandleInv, JoinedPhases, Moved
  <1>14. RowInv'
    BY <1>1, <1>2, <1>3, <1>4, <1>5, <1>6, <1>7, <1>8
    DEF SafetyInv, RowInv, Executing, LivePhases, Terminal, Moved
  <1>15. StampInv'
    <2>1. \A u \in Tasks : row[u].status # "paused" => row'[u].status # "paused"
      BY <1>4, <1>7
    <2>2. \A q \in Runs : run'[q].task = run[q].task
                         /\ (run'[q] = run[q] \/ run[q].task \notin stamped)
      BY <1>2, <1>8 DEF Moved
    <2>3. QED BY <1>1, <2>1, <2>2, StampKept
  <1>16. HitsInv'
    BY <1>1, <1>2, <1>3, <1>4, <1>5, <1>6, <1>7, <1>8
    DEF SafetyInv, HitsInv, CountsTowardCap, Moved, Row
  <1>17. QED
    BY <1>1, <1>2, <1>3, <1>4, <1>5, <1>6, <1>7, <1>8, <1>9, <1>10, <1>11, <1>12, <1>13, <1>14, <1>15, <1>16, Frame
    DEF SafetyInv

LEMMA ClaimRejectedSafe ==
  ASSUME SingleHost, TypeOK, SafetyInv, NEW r \in Runs,
         ClaimRejected(r)
  PROVE  SafetyInv'
  <1>1. /\ UNCHANGED <<handles, caller, boot, pending, stamped, hits>>
        /\ run[r].phase = "claiming"
    BY DEF ClaimRejected, scan, ghost
  <1>2. run[r].task \in Tasks
    BY <1>1 DEF SafetyInv, RunsInv
  <1>3. Freed({r})
    BY DEF ClaimRejected, Release, Freed, TypeOK
  <1>4. \A d \in Executors : current'[d] = NoTask
    BY <1>2, ExecutorAssumption DEF ClaimRejected, Skip, TypeOK, SingleHost
  <1>5. \A u \in Tasks :
          \/ row'[u] = row[u]
          \/ /\ u = run[r].task
             /\ row[u].status = "paused"
             /\ CountsTowardCap(row[u])
             /\ row[u].resumes >= MaxResumes
             /\ row'[u] = Finished(row[u], "failed", "resume_limit")
    BY DEF ClaimRejected, CapExhausted, TypeOK
  <1>6. \A u \in Tasks :
          \/ row'[u] = row[u]
          \/ /\ u = run[r].task
             /\ row[u].status = "paused"
             /\ CountsTowardCap(row[u])
             /\ row[u].resumes >= MaxResumes
             /\ row'[u].status = "failed"
             /\ row'[u].resumes = row[u].resumes
    BY <1>5, FinishedShape DEF TypeOK
  <1>7. \A u \in Tasks : row[u].resumes \in Nat /\ hits[u] \in Nat
    BY DEF TypeOK, Row
  <1>8. MaxResumes \in Nat /\ NoTask \notin Tasks
    BY ExecutorAssumption
  <1>9. \A u \in Tasks : Executing(u)' = Executing(u)
    BY <1>1, <1>3 DEF Executing, LivePhases, Freed, FreeRun
  <1>10. RunsInv'
    BY <1>1, <1>2, <1>3, <1>4, <1>5, <1>6, <1>7, <1>8, <1>9
    DEF SafetyInv, RunsInv, JoinedPhases, Freed, FreeRun, Done
  <1>11. BootInv'
    BY <1>1, <1>2, <1>3, <1>4, <1>5, <1>6, <1>7, <1>8, <1>9
    DEF SafetyInv, BootInv, Freed, FreeRun, Done
  <1>12. CallerInv'
    BY <1>1, <1>2, <1>3, <1>4, <1>5, <1>6, <1>7, <1>8, <1>9
    DEF SafetyInv, CallerInv, RunsOf, Freed, FreeRun, Done
  <1>13. ScanInv'
    BY <1>1, <1>2, <1>3, <1>4, <1>5, <1>6, <1>7, <1>8, <1>9
    DEF SafetyInv, ScanInv, RunsOf, Freed, FreeRun, Done
  <1>14. HandleInv'
    BY <1>1, <1>2, <1>3, <1>4, <1>5, <1>6, <1>7, <1>8, <1>9
    DEF SafetyInv, HandleInv, JoinedPhases, Freed, FreeRun, Done
  <1>15. RowInv'
    BY <1>1, <1>2, <1>3, <1>4, <1>5, <1>6, <1>7, <1>8, <1>9
    DEF SafetyInv, RowInv, Executing, LivePhases, Terminal, Freed, FreeRun, Done
  <1>16. StampInv'
    <2>1. \A u \in Tasks : row[u].status # "paused" => row'[u].status # "paused"
      BY <1>6
    <2>2. \A q \in Runs : run'[q].phase # "free" => run'[q] = run[q]
      BY <1>3 DEF Freed, FreeRun
    <2>3. QED BY <1>1, <2>1, <2>2, StampKept
  <1>17. HitsInv'
    BY <1>1, <1>2, <1>3, <1>4, <1>5, <1>6, <1>7, <1>8, <1>9
    DEF SafetyInv, HitsInv, CountsTowardCap, Freed, FreeRun, Done
  <1>18. QED
    BY <1>1, <1>2, <1>3, <1>4, <1>5, <1>6, <1>7, <1>8, <1>9, <1>10, <1>11, <1>12, <1>13, <1>14, <1>15, <1>16, <1>17, Frame
    DEF SafetyInv

LEMMA ResumeOneFailsSafe ==
  ASSUME SingleHost, TypeOK, SafetyInv, NEW r \in Runs,
         ResumeOneFails(r)
  PROVE  SafetyInv'
  <1>1. /\ UNCHANGED <<row, handles, caller, boot, pending, stamped, hits>>
        /\ run[r].phase \in {"claiming", "stored"}
    BY DEF ResumeOneFails, StoreFault, scan, ghost
  <1>2. run[r].task \in Tasks
    BY <1>1 DEF SafetyInv, RunsInv
  <1>3. Freed({r})
    BY DEF ResumeOneFails, Release, Freed, TypeOK
  <1>4. /\ \A d \in Executors : current'[d] = NoTask
        /\ NoTask \notin Tasks
    BY <1>2, ExecutorAssumption DEF ResumeOneFails, Skip, Exec, TypeOK, SingleHost
  <1>5. RunsInv'
    BY <1>1, <1>2, <1>3, <1>4 DEF SafetyInv, RunsInv, JoinedPhases, Freed, FreeRun, Done
  <1>6. BootInv'
    BY <1>1, <1>2, <1>3, <1>4 DEF SafetyInv, BootInv, Freed, FreeRun, Done
  <1>7. CallerInv'
    BY <1>1, <1>2, <1>3, <1>4 DEF SafetyInv, CallerInv, RunsOf, Freed, FreeRun, Done
  <1>8. ScanInv'
    BY <1>1, <1>2, <1>3, <1>4 DEF SafetyInv, ScanInv, RunsOf, Freed, FreeRun, Done
  <1>9. HandleInv'
    BY <1>1, <1>2, <1>3, <1>4 DEF SafetyInv, HandleInv, JoinedPhases, Freed, FreeRun, Done
  <1>10. RowInv'
    BY <1>1, <1>2, <1>3, <1>4
    DEF SafetyInv, RowInv, Executing, LivePhases, Terminal, Freed, FreeRun, Done
  <1>11. StampInv'
    BY <1>1, <1>2, <1>3, <1>4
    DEF SafetyInv, StampInv, RunsOf, JoinedPhases, Freed, FreeRun, Done
  <1>12. QED
    BY <1>1, <1>2, <1>3, <1>4, <1>5, <1>6, <1>7, <1>8, <1>9, <1>10, <1>11, Frame
    DEF SafetyInv

------------------------------------------------------------------------------
(* Shutdown, the sweeper and restarts.                                      *)

LEMMA ShutdownFiresSafe ==
  ASSUME SingleHost, TypeOK, SafetyInv, NEW e \in Executors, NEW c \in Calls,
         ShutdownFires(e, c)
  PROVE  SafetyInv'
  <1>1. UNCHANGED <<row, run, handles, caller, boot, pending, current, stamped, hits>>
    BY DEF ShutdownFires, Advance, store, control, scan, ghost
  <1>2. QED
    BY <1>1, Frame DEF SafetyInv

LEMMA ShutdownDrainedSafe ==
  ASSUME SingleHost, TypeOK, SafetyInv, NEW e \in Executors, NEW c \in Calls,
         ShutdownDrained(e, c)
  PROVE  SafetyInv'
  <1>1. UNCHANGED <<row, run, handles, caller, boot, pending, current, stamped, hits>>
    BY DEF ShutdownDrained, Advance, FireRoot, store, control, scan, ghost
  <1>2. QED
    BY <1>1, Frame DEF SafetyInv

LEMMA ShutdownTakesSafe ==
  ASSUME SingleHost, TypeOK, SafetyInv, NEW e \in Executors, NEW c \in Calls,
         ShutdownTakes(e, c)
  PROVE  SafetyInv'
  <1>1. UNCHANGED <<row, handles, caller, boot, pending, current, stamped, hits>>
    BY DEF ShutdownTakes, store, control, scan, ghost
  <1>2. \A q \in Runs :
          \/ run'[q] = run[q]
          \/ /\ run[q].phase \in JoinedPhases
             /\ run'[q] = [run[q] EXCEPT !.set = c]
    BY DEF ShutdownTakes
  <1>3. \A q \in Runs :
          /\ run'[q].task = run[q].task
          /\ run'[q].phase = run[q].phase
          /\ run'[q].origin = run[q].origin
          /\ run'[q].verdict = run[q].verdict
          /\ run'[q].reason = run[q].reason
          /\ run'[q].set = run[q].set \/ run[q].phase \in JoinedPhases
    <2>1. \A x \in RunState :
              /\ [x EXCEPT !.set = c].task = x.task
              /\ [x EXCEPT !.set = c].phase = x.phase
              /\ [x EXCEPT !.set = c].origin = x.origin
              /\ [x EXCEPT !.set = c].reason = x.reason
              /\ [x EXCEPT !.set = c].verdict = x.verdict
      BY DEF RunState
    <2>2. \A q \in Runs : run[q] \in RunState
      BY DEF TypeOK
    <2>3. QED BY <1>2, <2>1, <2>2  <1>4. RunsInv'
    BY <1>1, <1>2, <1>3 DEF SafetyInv, RunsInv, JoinedPhases
  <1>5. BootInv'
    BY <1>1, <1>2, <1>3 DEF SafetyInv, BootInv
  <1>6. CallerInv'
    BY <1>1, <1>2, <1>3 DEF SafetyInv, CallerInv, RunsOf
  <1>7. ScanInv'
    BY <1>1, <1>2, <1>3 DEF SafetyInv, ScanInv, RunsOf
  <1>8. HandleInv'
    BY <1>1, <1>2, <1>3 DEF SafetyInv, HandleInv, JoinedPhases
  <1>9. RowInv'
    BY <1>1, <1>2, <1>3 DEF SafetyInv, RowInv, Executing, LivePhases, Terminal
  <1>10. StampInv'
    BY <1>1, <1>2, <1>3 DEF SafetyInv, StampInv, RunsOf, JoinedPhases
  <1>11. QED
    BY <1>1, <1>2, <1>3, <1>4, <1>5, <1>6, <1>7, <1>8, <1>9, <1>10, Frame DEF SafetyInv

LEMMA ForceCancelStragglersSafe ==
  ASSUME SingleHost, TypeOK, SafetyInv, NEW e \in Executors, NEW c \in Calls,
         ForceCancelStragglers(e, c)
  PROVE  SafetyInv'
  <1>1. UNCHANGED <<row, handles, caller, boot, pending, current, stamped, hits>>
    BY DEF ForceCancelStragglers, store, control, scan, ghost
  <1>2. \A q \in Runs :
          \/ run'[q] = run[q]
          \/ /\ run[q].reason = "unset"
             /\ run'[q] = [run[q] EXCEPT !.reason = "shutdown"]
    BY DEF ForceCancelStragglers
  <1>3. \A q \in Runs :
          /\ run'[q].task = run[q].task
          /\ run'[q].phase = run[q].phase
          /\ run'[q].origin = run[q].origin
          /\ run'[q].verdict = run[q].verdict
          /\ run'[q].set = run[q].set
          /\ run'[q].reason = run[q].reason \/ run[q].reason = "unset"
    <2>1. \A x \in RunState :
              /\ [x EXCEPT !.reason = "shutdown"].task = x.task
              /\ [x EXCEPT !.reason = "shutdown"].phase = x.phase
              /\ [x EXCEPT !.reason = "shutdown"].origin = x.origin
              /\ [x EXCEPT !.reason = "shutdown"].verdict = x.verdict
              /\ [x EXCEPT !.reason = "shutdown"].set = x.set
      BY DEF RunState
    <2>2. \A q \in Runs : run[q] \in RunState
      BY DEF TypeOK
    <2>3. QED BY <1>2, <2>1, <2>2  <1>4. RunsInv'
    BY <1>1, <1>2, <1>3 DEF SafetyInv, RunsInv, JoinedPhases
  <1>5. BootInv'
    BY <1>1, <1>2, <1>3 DEF SafetyInv, BootInv
  <1>6. CallerInv'
    BY <1>1, <1>2, <1>3 DEF SafetyInv, CallerInv, RunsOf
  <1>7. ScanInv'
    BY <1>1, <1>2, <1>3 DEF SafetyInv, ScanInv, RunsOf
  <1>8. HandleInv'
    BY <1>1, <1>2, <1>3 DEF SafetyInv, HandleInv, JoinedPhases
  <1>9. RowInv'
    BY <1>1, <1>2, <1>3 DEF SafetyInv, RowInv, Executing, LivePhases, Terminal
  <1>10. StampInv'
    BY <1>1, <1>2, <1>3 DEF SafetyInv, StampInv, RunsOf, JoinedPhases
  <1>11. QED
    BY <1>1, <1>2, <1>3, <1>4, <1>5, <1>6, <1>7, <1>8, <1>9, <1>10, Frame DEF SafetyInv

LEMMA ShutdownAbortsSafe ==
  ASSUME SingleHost, TypeOK, SafetyInv, NEW e \in Executors, NEW c \in Calls,
         ShutdownAborts(e, c)
  PROVE  SafetyInv'
  <1>1. UNCHANGED <<row, caller, boot, pending, current, stamped, hits>>
    BY DEF ShutdownAborts, store, control, scan, ghost
  <1>2. Freed(Taken(e, c))
    BY DEF ShutdownAborts, Freed
  <1>3. Taken(e, c) \subseteq Runs /\ \A q \in Taken(e, c) : run[q].phase \in JoinedPhases
    BY ExecutorAssumption DEF Taken, SafetyInv, RunsInv
  <1>4. \A u \in Tasks : handles'[u] = IF handles[u] \in Taken(e, c) THEN StaleRun ELSE handles[u]
    BY DEF ShutdownAborts
  <1>5. StaleRun \notin Runs
    BY ExecutorAssumption
  <1>6. RunsInv'
    BY <1>1, <1>2, <1>3, <1>4, <1>5
    DEF SafetyInv, RunsInv, JoinedPhases, Freed, FreeRun, Done
  <1>7. BootInv'
    BY <1>1, <1>2, <1>3, <1>4, <1>5
    DEF SafetyInv, BootInv, Freed, FreeRun, Done, JoinedPhases
  <1>8. CallerInv'
    BY <1>1, <1>2, <1>3, <1>4, <1>5
    DEF SafetyInv, CallerInv, RunsOf, Freed, FreeRun, Done, JoinedPhases
  <1>9. ScanInv'
    BY <1>1, <1>2, <1>3, <1>4, <1>5
    DEF SafetyInv, ScanInv, RunsOf, Freed, FreeRun, Done, JoinedPhases
  <1>10. HandleInv'
    BY <1>1, <1>2, <1>3, <1>4, <1>5
    DEF SafetyInv, HandleInv, JoinedPhases, Freed, FreeRun, Done
  <1>11. RowInv'
    BY <1>1, <1>2, <1>3, <1>4, <1>5
    DEF SafetyInv, RowInv, Executing, LivePhases, Terminal, Freed, FreeRun, Done, JoinedPhases
  <1>12. StampInv'
    <2>1. \A q \in Runs : run'[q].phase # "free" => run'[q] = run[q]
      BY <1>2 DEF Freed, FreeRun
    <2>2. QED BY <1>1, <2>1, StampKept
  <1>13. QED
    BY <1>1, <1>2, <1>3, <1>4, <1>5, <1>6, <1>7, <1>8, <1>9, <1>10, <1>11, <1>12, Frame
    DEF SafetyInv

LEMMA RecoverStuckSafe ==
  ASSUME SingleHost, TypeOK, SafetyInv, NEW stuck \in SUBSET Tasks,
         RecoverStuck(stuck)
  PROVE  SafetyInv'
  <1>1. UNCHANGED <<run, handles, caller, boot, pending, current, stamped, hits>>
    BY DEF RecoverStuck, store, control, scan, ghost
  <1>2. Sweeper
    BY DEF RecoverStuck
  <1>3. \A u \in Tasks :
          \/ row'[u] = row[u]
          \/ row[u].status = "running" /\ row'[u] = SweptRow(row[u])
    BY DEF RecoverStuck
  <1>4. \A u \in Tasks :
          \/ row'[u] = row[u]
          \/ /\ row[u].status = "running"
             /\ row'[u].status = "failed"
             /\ row'[u].error = "stuck"
             /\ row'[u].resumes = row[u].resumes
    <2>1. \A w \in Row : /\ SweptRow(w).status = "failed"
                       /\ SweptRow(w).error = "stuck"
                       /\ SweptRow(w).resumes = w.resumes
      BY DEF SweptRow, Row
    <2>2. \A u \in Tasks : row[u] \in Row
      BY DEF TypeOK
    <2>3. QED BY <1>3, <2>1, <2>2  <1>5. CallerInv'
    BY <1>1, <1>2, <1>3, <1>4 DEF SafetyInv, CallerInv, RunsOf
  <1>6. ScanInv'
    BY <1>1, <1>2, <1>3, <1>4 DEF SafetyInv, ScanInv, RunsOf
  <1>7. RowInv'
    BY <1>1, <1>2, <1>3, <1>4 DEF SafetyInv, RowInv, Executing, LivePhases, Terminal
  <1>8. StampInv'
    <2>1. \A u \in Tasks : row[u].status # "paused" => row'[u].status # "paused"
      BY <1>4
    <2>2. QED BY <1>1, <2>1, StampKept
  <1>9. HitsInv'
    BY <1>1, <1>2, <1>3, <1>4 DEF SafetyInv, HitsInv, CountsTowardCap
  <1>10. QED
    BY <1>1, <1>2, <1>3, <1>4, <1>5, <1>6, <1>7, <1>8, <1>9, Frame DEF SafetyInv

LEMMA RestartSafe ==
  ASSUME SingleHost, TypeOK, SafetyInv, Restart
  PROVE  SafetyInv'
  <1>1. /\ UNCHANGED row
        /\ stamped' = {}
    BY DEF Restart
  <1>2. /\ \A r \in Runs : run'[r] = FreeRun
        /\ \A t \in Tasks : handles'[t] = NoRun
        /\ \A t \in Tasks : caller'[t] = IF row[t].status = "absent" THEN "idle" ELSE "gone"
    BY DEF Restart
  <1>3. \A e \in Executors :
          boot'[e] = "idle" /\ pending'[e] = {} /\ current'[e] = NoTask
    BY DEF Restart
  <1>4. \A t \in Tasks :
          /\ hits'[t] = IF row[t].status = "running" THEN hits[t] + 1 ELSE hits[t]
          /\ hits[t] \in Nat
          /\ row[t].resumes \in Nat
    BY DEF Restart, TypeOK, Row
  <1>5. NoRun \notin Runs /\ NoTask \notin Tasks /\ MaxResumes \in Nat
    BY ExecutorAssumption
  <1>6. RunsInv'
    BY <1>1, <1>2, <1>3, <1>4, <1>5 DEF SafetyInv, RunsInv, JoinedPhases, FreeRun, Done
  <1>7. BootInv'
    BY <1>1, <1>2, <1>3, <1>4, <1>5 DEF SafetyInv, BootInv, FreeRun, Done
  <1>8. CallerInv'
    BY <1>1, <1>2, <1>3, <1>4, <1>5 DEF SafetyInv, CallerInv, RunsOf, FreeRun, Done
  <1>9. ScanInv'
    BY <1>1, <1>2, <1>3, <1>4, <1>5 DEF SafetyInv, ScanInv, RunsOf, FreeRun, Done
  <1>10. HandleInv'
    BY <1>1, <1>2, <1>3, <1>4, <1>5 DEF SafetyInv, HandleInv, JoinedPhases, FreeRun, Done
  <1>11. RowInv'
    BY <1>1, <1>2, <1>3, <1>4, <1>5
    DEF SafetyInv, RowInv, Executing, LivePhases, Terminal, FreeRun, Done
  <1>12. StampInv'
    BY <1>1, <1>2, <1>3, <1>4, <1>5
    DEF SafetyInv, StampInv, RunsOf, JoinedPhases, FreeRun, Done
  <1>13. HitsInv'
    BY <1>1, <1>2, <1>3, <1>4, <1>5 DEF SafetyInv, HitsInv, CountsTowardCap, FreeRun, Done
  <1>14. QED
    BY <1>1, <1>2, <1>3, <1>4, <1>5, <1>6, <1>7, <1>8, <1>9, <1>10, <1>11, <1>12, <1>13, Frame
    DEF SafetyInv

------------------------------------------------------------------------------
(* The empty store and the rows of an older deploy satisfy the invariant. *)
LEMMA InitSafe ==
  ASSUME SingleHost, Init
  PROVE  SafetyInv
  <1>1. \A r \in Runs :
          /\ run[r].phase = "free"
          /\ run[r].set = "live"
          /\ run[r].verdict.status = "done"
          /\ run[r].verdict.error = "none"
    BY DEF Init, FreeRun, Done
  <1>2. \A t \in Tasks :
          /\ handles[t] = NoRun
          /\ row[t].resumes = 0
          /\ row[t].error = "none"
          /\ t \in Legacy => row[t].status = "running" /\ caller[t] = "gone" /\ hits[t] = 1
          /\ t \notin Legacy => row[t].status = "absent" /\ caller[t] = "idle" /\ hits[t] = 0
    BY DEF Init, FreshRow, AbsentRow
  <1>3. /\ \A e \in Executors : boot[e] = "idle" /\ pending[e] = {} /\ current[e] = NoTask
        /\ stamped = {}
        /\ NoRun \notin Runs /\ NoTask \notin Tasks
    BY ExecutorAssumption DEF Init
  <1>4. RunsInv
    BY <1>1, <1>2, <1>3 DEF RunsInv, JoinedPhases
  <1>5. BootInv
    BY <1>1, <1>2, <1>3 DEF BootInv
  <1>6. CallerInv
    BY <1>1, <1>2, <1>3 DEF CallerInv, RunsOf
  <1>7. ScanInv
    BY <1>1, <1>2, <1>3 DEF ScanInv, RunsOf
  <1>8. HandleInv
    BY <1>1, <1>2, <1>3 DEF HandleInv, JoinedPhases
  <1>9. RowInv
    BY <1>1, <1>2, <1>3 DEF RowInv, Executing, LivePhases, Terminal
  <1>10. StampInv
    BY <1>1, <1>2, <1>3 DEF StampInv, RunsOf, JoinedPhases
  <1>11. HitsInv
    BY <1>1, <1>2, <1>3 DEF HitsInv, CountsTowardCap
  <1>12. QED BY <1>4, <1>5, <1>6, <1>7, <1>8, <1>9, <1>10, <1>11 DEF SafetyInv

(* Every action preserves the invariant. *)
LEMMA StepSafe == SingleHost /\ TypeOK /\ SafetyInv /\ [Next]_vars => SafetyInv'
  <1> SUFFICES ASSUME SingleHost, TypeOK, SafetyInv, [Next]_vars PROVE SafetyInv'
    OBVIOUS
  <1>1. CASE UNCHANGED vars
    BY <1>1, Frame DEF SafetyInv, vars, scan, ghost
  <1>2. ASSUME NEW t \in Tasks,
               CallerStep(t) \/ Request(t) \/ UserCancel(t) \/ DropCaller(t) \/ WaitTimesOut(t)
        PROVE  SafetyInv'
    BY <1>2, RequestSafe, RejectSpawnSafe, AcquirePermitSafe, DropCallerSafe, UserCancelSafe,
       WaitTimesOutSafe, LoadAfterTimeoutSafe, PollReturnsSafe, FinishOverdueSafe,
       WaiterLosesSenderSafe
    DEF CallerStep
  <1>3. ASSUME NEW r \in Runs,
               \/ LaunchStep(r) \/ ClaimStep(r)
               \/ InsertFails(r) \/ PersistFails(r) \/ ResumeOneFails(r)
        PROVE  SafetyInv'
    BY <1>3, InsertRowSafe, RegisterHandleSafe, JoinTaskSafe, ClaimSafe, ClaimRejectedSafe,
       InsertFailsSafe, PersistFailsSafe, ResumeOneFailsSafe
    DEF LaunchStep, ClaimStep
  <1>4. ASSUME NEW r \in Runs, DriveStep(r)
        PROVE  SafetyInv'
    <2>1. CASE DriveEnds(r)
      <3>1. PICK o \in {"final", "paused", "error", "closed", "cancelled"} :
              DrainEnds(r, o) \/ CancelDrainEnds(r, o)
        BY <2>1 DEF DriveEnds
      <3>2. run[r].phase \in LivePhases /\ Decide(r, o)
        BY <3>1 DEF DrainEnds, CancelDrainEnds, LivePhases
      <3>3. QED BY <3>2, DecideSafe
    <2>2. QED BY <1>4, <2>1, ObserveCancelSafe, TimeoutFiresSafe, PersistSafe, RetireSafe
          DEF DriveStep
  <1>5. ASSUME NEW e \in Executors, ResumeStep(e) \/ ResumeFails(e) \/ LegacyFails(e)
        PROVE  SafetyInv'
    BY <1>5, AdoptOrphansSafe, ScanPausedSafe, ResumeFailsSafe, PickResumeSafe, ScanDoneSafe,
       ClaimLegacySafe, FinishLegacySafe, LegacyFailsSafe, RejectResumeSafe, ResumePermitSafe
    DEF ResumeStep
  <1>6. ASSUME NEW e \in Executors, NEW c \in Calls, ShutdownStep(e, c) \/ ShutdownFires(e, c)
        PROVE  SafetyInv'
    BY <1>6, ShutdownFiresSafe, ShutdownTakesSafe, ShutdownDrainedSafe,
       ForceCancelStragglersSafe, ShutdownAbortsSafe
    DEF ShutdownStep
  <1>7. ASSUME NEW stuck \in SUBSET Tasks, RecoverStuck(stuck)
        PROVE  SafetyInv'
    BY <1>7, RecoverStuckSafe
  <1>8. CASE Restart
    BY <1>8, RestartSafe
  <1>9. QED BY <1>1, <1>2, <1>3, <1>4, <1>5, <1>6, <1>7, <1>8 DEF Next, Environment, Fault

(* The invariant holds of a single host. *)
LEMMA SafetyInvariant == SingleHost /\ Spec => []SafetyInv
  <1>1. SingleHost /\ Init => SafetyInv
    BY InitSafe
  <1>2. SingleHost /\ TypeOK /\ SafetyInv /\ [Next]_vars => SafetyInv'
    BY StepSafe
  <1>3. SingleHost /\ [Next]_vars => SingleHost'
    BY DEF SingleHost
  <1>4. QED BY <1>1, <1>2, <1>3, TypesHold, PTL DEF Spec

------------------------------------------------------------------------------
(* Spawn, resume_paused and the claim start at most one run of a task per   *)
(* process: no task is ever driven twice at once.                           *)
THEOREM OneRunPerTaskHolds == SingleHost /\ Spec => []OneRunPerTask
  <1>1. SafetyInv => OneRunPerTask
    <2> SUFFICES ASSUME SafetyInv, NEW t \in Tasks
                 PROVE  Cardinality(Executing(t)) <= 1
      BY DEF OneRunPerTask
    <2>1. \A q, r \in Executing(t) : q = r
      BY DEF SafetyInv, RunsInv, Executing, LivePhases
    <2>2. CASE Executing(t) = {}
      BY <2>2, FS_EmptySet
    <2>3. CASE Executing(t) # {}
      <3>1. PICK r \in Executing(t) : Executing(t) = {r}
        BY <2>1, <2>3
      <3>2. QED BY <3>1, FS_Singleton
    <2>4. QED BY <2>2, <2>3
  <1>2. QED BY <1>1, SafetyInvariant, PTL

(* pause_task runs after the drain: a Paused row has no run behind it, so    *)
(* the claim of a resume never races the run it resumes.                    *)
THEOREM PausedRowsAreIdleHolds == SingleHost /\ Spec => []PausedRowsAreIdle
  <1>1. SafetyInv => PausedRowsAreIdle
    BY DEF SafetyInv, RowInv, PausedRowsAreIdle, Terminal
  <1>2. QED BY <1>1, SafetyInvariant, PTL

(* finalize_task runs after the drain: without a sweeper and outside         *)
(* spawn_blocking's forced finish, a finished row has no run behind it.     *)
THEOREM TerminalRowsAreIdleHolds == SingleHost /\ ~Sweeper /\ Spec => []TerminalRowsAreIdle
  <1>1. ~Sweeper /\ SafetyInv => TerminalRowsAreIdle
    BY DEF SafetyInv, RowInv, TerminalRowsAreIdle, Terminal
  <1>2. ~Sweeper /\ [Next]_vars => (~Sweeper)'
    OBVIOUS
  <1>3. QED BY <1>1, <1>2, SafetyInvariant, PTL DEF Spec

(* A cancel stamped StopPattern first is never turned into a pause by a     *)
(* shutdown (do_cancel, stamp_shutdown_reasons, classify_outcome).          *)
THEOREM StampedCancelIsFinalHolds == SingleHost /\ Spec => []StampedCancelIsFinal
  <1>1. SafetyInv => StampedCancelIsFinal
    BY DEF SafetyInv, StampInv, StampedCancelIsFinal
  <1>2. QED BY <1>1, SafetyInvariant, PTL

(* claim_for_resume spends at most one resume per crash or forced pause and  *)
(* none for a clean pause, over any number of restarts.                     *)
THEOREM OnlyInvoluntaryPausesCountHolds == SingleHost /\ Spec => []OnlyInvoluntaryPausesCount
  <1>1. SafetyInv => OnlyInvoluntaryPausesCount
    BY DEF SafetyInv, HitsInv, OnlyInvoluntaryPausesCount
  <1>2. QED BY <1>1, SafetyInvariant, PTL

(* fail_when_cap_exhausted fails only tasks that were interrupted           *)
(* involuntarily more often than max_resumes.                               *)
THEOREM LimitFailsPoisonTasksOnlyHolds == SingleHost /\ Spec => []LimitFailsPoisonTasksOnly
  <1>1. TypeOK /\ SafetyInv => LimitFailsPoisonTasksOnly
    BY ExecutorAssumption DEF SafetyInv, HitsInv, LimitFailsPoisonTasksOnly, TypeOK
  <1>2. QED BY <1>1, SafetyInvariant, TypesHold, PTL

------------------------------------------------------------------------------
(* What settles (SettleInv): the same, for the second invariant.             *)

(* No store error is forgotten, and no abort. *)
Steady ==
  /\ faults' = 0 => faults = 0
  /\ faults > 0 => faults' > 0
  /\ \A e \in Executors : Aborted(e) => Aborted(e)'

SameStatus == \A t \in Tasks : row'[t].status = row[t].status

(* No run starts, moves to another phase, or ends. *)
SameRuns ==
  \A q \in Runs : /\ run'[q].task = run[q].task
                  /\ run'[q].phase = run[q].phase
                  /\ run'[q].origin = run[q].origin

SameAnswers == \A t \in Tasks : answer'[t] = "running" => answer[t] = "running"

NoNewWaiter == \A t \in Tasks : caller'[t] = "waiting" => caller[t] = "waiting"

SameScan ==
  /\ UNCHANGED current
  /\ \A e \in Executors : boot'[e] # "idle" => boot[e] # "idle"

LEMMA SteadyStep ==
  ASSUME UNCHANGED shut, UNCHANGED faults \/ (StoreFault /\ faults \in Nat)
  PROVE  Steady /\ (StoreFault /\ faults \in Nat => faults' # 0)
  <1>1. \A e \in Executors : Aborted(e)' = Aborted(e)
    BY DEF Aborted
  <1>2. StoreFault /\ faults \in Nat => faults' # 0 /\ faults' > 0
    BY DEF StoreFault
  <1>3. QED BY <1>1, <1>2 DEF Steady

(* The answers, and what a step that touches no run leaves alone. *)
LEMMA SettleFrame ==
  ASSUME TypeOK, SafetyInv, SettleInv, Steady
  PROVE  /\ SameAnswers => BlockingAnswersAreSettled'
         /\ SameRuns /\ SameStatus => FreshInv' /\ VerdictInv'
         /\ SameRuns /\ UNCHANGED current => ResumeInv'
         /\ SameRuns /\ NoNewWaiter => WaiterInv'
         /\ SameRuns /\ SameStatus /\ SameScan => BackedInv'
  <1>1. \A t \in Tasks : AgentOf[t] \in Executors
    BY ExecutorAssumption
  <1>2. \A q \in Runs : run[q].phase # "free" => run[q].task \in Tasks
    BY DEF SafetyInv, RunsInv
  <1>3. SameAnswers => BlockingAnswersAreSettled'
    <2> SUFFICES ASSUME SameAnswers, NEW t \in Tasks, answer'[t] = "running"
                 PROVE  Aborted(AgentOf[t])' \/ faults' > 0
      BY DEF BlockingAnswersAreSettled
    <2>1. Aborted(AgentOf[t]) \/ faults > 0
      BY DEF SettleInv, BlockingAnswersAreSettled, SameAnswers
    <2>2. CASE Aborted(AgentOf[t])
      BY <2>2, <1>1 DEF Steady
    <2>3. CASE faults > 0
      BY <2>3 DEF Steady
    <2>4. QED BY <2>1, <2>2, <2>3
  <1>4. SameRuns /\ SameStatus => FreshInv'
    BY <1>2 DEF SettleInv, FreshInv, SameRuns, SameStatus
  <1>5. SameRuns /\ SameStatus => VerdictInv'
    BY <1>2 DEF SettleInv, VerdictInv, SameRuns, SameStatus, Terminal, Steady
  <1>6. SameRuns /\ UNCHANGED current => ResumeInv'
    BY DEF SettleInv, ResumeInv, SameRuns
  <1>7. SameRuns /\ NoNewWaiter => WaiterInv'
    BY <1>1 DEF SettleInv, WaiterInv, SameRuns, NoNewWaiter, Steady
  <1>8. SameRuns /\ SameStatus /\ SameScan => BackedInv'
    <2>1. SameRuns => \A t \in Tasks : Backing(t)' = Backing(t)
      BY DEF SameRuns, Backing
    <2>2. QED BY <1>1, <2>1 DEF SettleInv, BackedInv, SameStatus, SameScan, Steady, Undroppable
  <1>9. QED BY <1>3, <1>4, <1>5, <1>6, <1>7, <1>8

(* A run moved to another phase. *)
LEMMA MovedFrame ==
  ASSUME TypeOK, SafetyInv, SettleInv, Steady,
         NEW r \in Runs, NEW p, Moved(r, p), run[r].phase # "free"
  PROVE  /\ SameStatus /\ p # "spawning" => FreshInv'
         /\ SameStatus /\ p \notin {"decided", "persisted"} => VerdictInv'
         /\ UNCHANGED current /\ p \in {"stored", "handled"}
              /\ run[r].phase \in {"claiming", "stored", "handled"} => ResumeInv'
         /\ UNCHANGED current /\ p \notin {"claiming", "stored", "handled"} => ResumeInv'
         /\ NoNewWaiter /\ (p \in JoinedPhases \/ run[r].phase \notin JoinedPhases) => WaiterInv'
         /\ SameStatus /\ SameScan /\ p \in {"stored", "handled", "decided"} \cup LivePhases
              => BackedInv'
  <1>1. \A t \in Tasks : AgentOf[t] \in Executors
    BY ExecutorAssumption
  <1>2. \A q \in Runs : run[q].phase # "free" => run[q].task \in Tasks
    BY DEF SafetyInv, RunsInv
  <1>3. /\ \A q \in Runs : run'[q].task = run[q].task /\ run'[q].origin = run[q].origin
        /\ \A q \in Runs : q # r => run'[q].phase = run[q].phase
        /\ run'[r].phase = p
    BY DEF Moved
  <1>4. SameStatus /\ p # "spawning" => FreshInv'
    BY <1>2, <1>3 DEF SettleInv, FreshInv, SameStatus
  <1>5. SameStatus /\ p \notin {"decided", "persisted"} => VerdictInv'
    BY <1>2, <1>3 DEF SettleInv, VerdictInv, SameStatus, Terminal, Steady
  <1>6. UNCHANGED current /\ p \in {"stored", "handled"}
          /\ run[r].phase \in {"claiming", "stored", "handled"} => ResumeInv'
    BY <1>3 DEF SettleInv, ResumeInv
  <1>7. UNCHANGED current /\ p \notin {"claiming", "stored", "handled"} => ResumeInv'
    BY <1>3 DEF SettleInv, ResumeInv
  <1>8. NoNewWaiter /\ (p \in JoinedPhases \/ run[r].phase \notin JoinedPhases) => WaiterInv'
    <2> SUFFICES ASSUME NoNewWaiter, p \in JoinedPhases \/ run[r].phase \notin JoinedPhases,
                        NEW t \in Tasks, caller'[t] = "waiting"
                 PROVE  \/ \E q \in Runs : /\ run'[q].task = t
                                           /\ run'[q].origin = "blocking"
                                           /\ run'[q].phase \in JoinedPhases
                        \/ Aborted(AgentOf[t])'
      BY DEF WaiterInv
    <2>1. CASE Aborted(AgentOf[t])
      BY <2>1, <1>1 DEF Steady
    <2>2. CASE \E q \in Runs : /\ run[q].task = t
                               /\ run[q].origin = "blocking"
                               /\ run[q].phase \in JoinedPhases
      <3>1. PICK q \in Runs : /\ run[q].task = t
                              /\ run[q].origin = "blocking"
                              /\ run[q].phase \in JoinedPhases
        BY <2>2
      <3>2. run'[q].phase \in JoinedPhases
        BY <3>1, <1>3
      <3>3. QED BY <3>1, <3>2, <1>3
    <2>3. QED BY <2>1, <2>2 DEF SettleInv, WaiterInv, NoNewWaiter
  <1>9. SameStatus /\ SameScan /\ p \in {"stored", "handled", "decided"} \cup LivePhases => BackedInv'
    <2>1. p \in {"stored", "handled", "decided"} \cup LivePhases =>
            \A t \in Tasks : Backing(t) \subseteq Backing(t)'
      BY <1>3 DEF Backing
    <2>2. QED BY <1>1, <2>1 DEF SettleInv, BackedInv, SameStatus, SameScan, Steady, Undroppable
  <1>10. QED BY <1>4, <1>5, <1>6, <1>7, <1>8, <1>9

(* Runs ended. *)
LEMMA FreedFrame ==
  ASSUME TypeOK, SafetyInv, SettleInv, Steady, NEW S, Freed(S)
  PROVE  /\ SameStatus => FreshInv' /\ VerdictInv'
         /\ UNCHANGED current => ResumeInv'
         /\ NoNewWaiter /\ (\A q \in S \cap Runs : run[q].phase \notin JoinedPhases) => WaiterInv'
         /\ /\ SameStatus /\ SameScan
            /\ \A q \in S \cap Runs :
                 run[q].phase \notin {"stored", "handled", "decided"} \cup LivePhases
            => BackedInv'
  <1>1. \A t \in Tasks : AgentOf[t] \in Executors
    BY ExecutorAssumption
  <1>2. \A q \in Runs : run[q].phase # "free" => run[q].task \in Tasks
    BY DEF SafetyInv, RunsInv
  <1>3. \A q \in Runs :
          \/ run'[q] = run[q] /\ q \notin S
          \/ q \in S /\ run'[q].phase = "free"
    BY DEF Freed, FreeRun
  <1>4. SameStatus => FreshInv'
    BY <1>2, <1>3 DEF SettleInv, FreshInv, SameStatus
  <1>5. SameStatus => VerdictInv'
    BY <1>2, <1>3 DEF SettleInv, VerdictInv, SameStatus, Terminal, Steady
  <1>6. UNCHANGED current => ResumeInv'
    BY <1>3 DEF SettleInv, ResumeInv
  <1>7. NoNewWaiter /\ (\A q \in S \cap Runs : run[q].phase \notin JoinedPhases) => WaiterInv'
    BY <1>1, <1>3 DEF SettleInv, WaiterInv, NoNewWaiter, Steady
  <1>8. /\ SameStatus /\ SameScan
        /\ \A q \in S \cap Runs :
             run[q].phase \notin {"stored", "handled", "decided"} \cup LivePhases
        => BackedInv'
    <2>1. (\A q \in S \cap Runs : run[q].phase \notin {"stored", "handled", "decided"} \cup LivePhases)
          => \A t \in Tasks : Backing(t) \subseteq Backing(t)'
      BY <1>3 DEF Backing
    <2>2. QED BY <1>1, <2>1 DEF SettleInv, BackedInv, SameStatus, SameScan, Steady, Undroppable
  <1>9. QED BY <1>4, <1>5, <1>6, <1>7, <1>8

(* Calls, stamps and shutdown signals touch no run's phase and no row. *)
LEMMA CallSettles ==
  ASSUME TypeOK, SafetyInv, SettleInv,
         UNCHANGED <<row, faults, shut, boot, current>>, SameRuns, NoNewWaiter, SameAnswers
  PROVE  SettleInv'
  <1>1. Steady /\ SameStatus /\ SameScan
    BY SteadyStep DEF SameStatus, SameScan
  <1>2. QED BY <1>1, SettleFrame DEF SettleInv

(* do_cancel fires a token and stamps a reason. *)
LEMMA DoCancelRuns ==
  ASSUME TypeOK, NEW t \in Tasks, DoCancel(t)
  PROVE  SameRuns
  <1>1. CASE handles[t] \in Runs
    <2>1. run' = [run EXCEPT ![handles[t]].fired = TRUE,
                             ![handles[t]].reason = IF @ = "unset" THEN "stop" ELSE @]
      BY <1>1 DEF DoCancel
    <2>2. QED BY <2>1 DEF SameRuns, TypeOK, RunState
  <1>2. CASE handles[t] \notin Runs
    BY <1>2 DEF DoCancel, SameRuns
  <1>3. QED BY <1>1, <1>2

LEMMA CallersSettle ==
  ASSUME TypeOK, SafetyInv, SettleInv, NEW t \in Tasks,
         \/ Request(t) \/ RejectSpawn(t) \/ UserCancel(t) \/ WaitTimesOut(t)
         \/ LoadAfterTimeout(t) \/ PollReturns(t)
  PROVE  SettleInv'
  <1>1. UNCHANGED <<row, faults, shut, boot, current>>
    BY DEF Request, RejectSpawn, UserCancel, WaitTimesOut, LoadAfterTimeout, PollReturns,
           store, control, scan, ghost
  <1>2. SameRuns
    <2>1. UNCHANGED run => SameRuns
      BY DEF SameRuns
    <2>2. QED BY <2>1, DoCancelRuns
          DEF Request, RejectSpawn, UserCancel, WaitTimesOut, LoadAfterTimeout, PollReturns
  <1>3. /\ UNCHANGED caller \/ \E x \in {"queued", "gone", "expired", "polling", "overdue"} :
             caller' = [caller EXCEPT ![t] = x]
        /\ UNCHANGED answer \/ (answer' = [answer EXCEPT ![t] = row[t].status] /\ row[t].status # "running")
    BY DEF Request, RejectSpawn, UserCancel, WaitTimesOut, LoadAfterTimeout, PollReturns, Answer
  <1>4. NoNewWaiter
    BY <1>3 DEF NoNewWaiter, TypeOK
  <1>5. SameAnswers
    BY <1>3 DEF SameAnswers, TypeOK
  <1>6. QED BY <1>1, <1>2, <1>4, <1>5, CallSettles

(* The waiter that reads a Running row itself lost its sender to an abort. *)
LEMMA WaiterLosesSenderSettles ==
  ASSUME TypeOK, SafetyInv, SettleInv, NEW t \in Tasks,
         WaiterLosesSender(t)
  PROVE  SettleInv'
  <1>1. /\ UNCHANGED <<row, run, faults, shut, boot, current>>
        /\ caller' = [caller EXCEPT ![t] = "gone"]
        /\ answer' = [answer EXCEPT ![t] = row[t].status]
    BY DEF WaiterLosesSender, Answer, store, control, scan
  <1>2. Steady /\ SameStatus /\ SameScan /\ SameRuns /\ NoNewWaiter
    BY <1>1, SteadyStep DEF SameStatus, SameScan, SameRuns, NoNewWaiter, TypeOK
  <1>3. Aborted(AgentOf[t])
    BY DEF WaiterLosesSender, SettleInv, WaiterInv
  <1>4. AgentOf[t] \in Executors
    BY ExecutorAssumption
  <1>5. \A u \in Tasks : answer'[u] = "running" => answer[u] = "running" \/ u = t
    BY <1>1 DEF TypeOK
  <1>6. \A u \in Tasks : answer[u] = "running" => Aborted(AgentOf[u])' \/ faults' > 0
    BY <1>2, ExecutorAssumption DEF SettleInv, BlockingAnswersAreSettled, Steady
  <1>7. BlockingAnswersAreSettled'
    BY <1>2, <1>3, <1>4, <1>5, <1>6 DEF BlockingAnswersAreSettled, Steady
  <1>8. QED BY <1>2, <1>1, <1>7, SettleFrame DEF SettleInv

LEMMA FinishOverdueSettles ==
  ASSUME TypeOK, SafetyInv, SettleInv, NEW t \in Tasks,
         FinishOverdue(t)
  PROVE  SettleInv'
  <1>1. /\ UNCHANGED <<run, faults, shut, boot, current>>
        /\ caller' = [caller EXCEPT ![t] = "gone"]
        /\ answer' = [answer EXCEPT ![t] = "failed"]
        /\ caller[t] = "overdue"
    BY DEF FinishOverdue, store, control, scan
  <1>2. Steady /\ SameScan /\ SameRuns /\ NoNewWaiter /\ SameAnswers
    BY <1>1, SteadyStep DEF SameScan, SameRuns, NoNewWaiter, SameAnswers, TypeOK
  <1>3. t \in Blocking
    BY <1>1 DEF SafetyInv, CallerInv
  <1>4. \A u \in Tasks :
          \/ row'[u].status = row[u].status
          \/ u = t /\ row[u].status # "absent" /\ row'[u].status = "failed"
    BY FinishedShape DEF FinishOverdue, TypeOK, Finished
  <1>5. \A q \in Runs : run[q].phase # "free" => run[q].task \in Tasks
    BY DEF SafetyInv, RunsInv
  <1>6. FreshInv'
    BY <1>1, <1>4, <1>5 DEF SettleInv, FreshInv
  <1>7. VerdictInv'
    BY <1>1, <1>3, <1>4, <1>5 DEF SettleInv, VerdictInv, Terminal
  <1>8. BackedInv'
    BY <1>1, <1>4 DEF SettleInv, BackedInv, Backing, Aborted, Undroppable
  <1>9. QED BY <1>1, <1>2, <1>6, <1>7, <1>8, SettleFrame DEF SettleInv

------------------------------------------------------------------------------
(* Spawning. *)

LEMMA AcquirePermitSettles ==
  ASSUME TypeOK, SafetyInv, SettleInv, NEW t \in Tasks, NEW r \in Runs,
         AcquirePermit(t, r)
  PROVE  SettleInv'
  <1>1. /\ UNCHANGED <<row, answer, faults, shut, boot, current>>
        /\ caller' = [caller EXCEPT ![t] = "launching"]
        /\ caller[t] = "queued" /\ run[r].phase = "free"
    BY DEF AcquirePermit, store, control, scan
  <1>2. Steady /\ SameStatus /\ SameScan /\ NoNewWaiter /\ SameAnswers
    BY <1>1, SteadyStep DEF SameStatus, SameScan, NoNewWaiter, SameAnswers, TypeOK
  <1>3. /\ \A q \in Runs \ {r} : run'[q] = run[q]
        /\ run'[r].task = t
        /\ run'[r].phase = "spawning"
        /\ run'[r].origin = IF t \in Blocking THEN "blocking" ELSE "spawn"
    BY DEF AcquirePermit, TypeOK, FreeRun
  <1>4. row[t].status = "absent"
    BY <1>1 DEF SafetyInv, CallerInv
  <1>5. FreshInv'
    BY <1>1, <1>3, <1>4 DEF SettleInv, FreshInv
  <1>6. VerdictInv'
    BY <1>1, <1>3 DEF SettleInv, VerdictInv
  <1>7. ResumeInv'
    BY <1>1, <1>3 DEF SettleInv, ResumeInv
  <1>8. WaiterInv'
    BY <1>1, <1>2, <1>3 DEF SettleInv, WaiterInv, NoNewWaiter, Aborted, JoinedPhases
  <1>9. BackedInv'
    <2>1. \A u \in Tasks : Backing(u) \subseteq Backing(u)'
      BY <1>1, <1>3 DEF Backing, LivePhases
    <2>2. QED BY <1>1, <2>1 DEF SettleInv, BackedInv, Aborted, Undroppable
  <1>10. QED BY <1>1, <1>2, <1>5, <1>6, <1>7, <1>8, <1>9, SettleFrame DEF SettleInv

(* The row of a fresh run is Running from the moment it exists. *)
LEMMA InsertRowSettles ==
  ASSUME TypeOK, SafetyInv, SettleInv, NEW r \in Runs,
         InsertRow(r)
  PROVE  SettleInv'
  <1>1. /\ UNCHANGED <<caller, answer, faults, shut, boot, current>>
        /\ run[r].phase = "spawning"
    BY DEF InsertRow, store, control, scan
  <1>2. Steady /\ SameScan /\ NoNewWaiter /\ SameAnswers
    BY <1>1, SteadyStep DEF SameScan, NoNewWaiter, SameAnswers
  <1>3. Moved(r, "stored")
    BY MovedRun DEF InsertRow
  <1>4. /\ run[r].task \in Tasks
        /\ run[r].origin # "resume"
        /\ \A q \in Runs \ {r} : run[q].phase # "free" => run[q].task # run[r].task
    BY <1>1 DEF SafetyInv, RunsInv, SettleInv, FreshInv
  <1>5. \A u \in Tasks : row'[u] = IF u = run[r].task THEN FreshRow ELSE row[u]
    BY DEF InsertRow, TypeOK
  <1>6. /\ \A q \in Runs : run'[q].task = run[q].task /\ run'[q].origin = run[q].origin
        /\ \A q \in Runs : q # r => run'[q].phase = run[q].phase
        /\ run'[r].phase = "stored"
    BY <1>3 DEF Moved
  <1>7. \A q \in Runs \ {r} : run[q].phase # "free" => row'[run[q].task] = row[run[q].task]
    BY <1>4, <1>5 DEF SafetyInv, RunsInv
  <1>8. FreshInv'
    <2>1. /\ run'[r].phase = "stored"
          /\ run[r].origin = "blocking" <=> run[r].task \in Blocking
      BY <1>1, <1>4, <1>6 DEF SettleInv, FreshInv
    <2>2. ASSUME NEW q \in Runs \ {r}, run[q].phase = "spawning"
          PROVE  row'[run[q].task].status = "absent" /\ run[q].origin # "resume"
      BY <1>7, <2>2 DEF SettleInv, FreshInv
    <2>3. \A q \in Runs : run[q].phase # "free" /\ run[q].origin # "resume" =>
            (run[q].origin = "blocking" <=> run[q].task \in Blocking)
      BY DEF SettleInv, FreshInv
    <2>4. QED BY <1>1, <1>6, <2>1, <2>2, <2>3 DEF FreshInv
  <1>9. VerdictInv'
    BY <1>1, <1>6, <1>7 DEF SettleInv, VerdictInv, Terminal
  <1>10. ResumeInv'
    BY <1>1, <1>4, <1>6 DEF SettleInv, ResumeInv
  <1>11. WaiterInv'
    BY <1>1, <1>2, <1>3, MovedFrame DEF JoinedPhases
  <1>12. BackedInv'
    <2>1. \A u \in Tasks : Backing(u) \subseteq Backing(u)'
      BY <1>1, <1>6 DEF Backing, LivePhases
    <2>2. \A u \in Tasks : u = run[r].task => Backing(u)' # {}
      BY <1>6 DEF Backing
    <2>3. ASSUME NEW u \in Tasks, Undroppable(u), row'[u].status = "running",
                 boot[AgentOf[u]] # "idle", ~Aborted(AgentOf[u])', faults = 0
          PROVE  Backing(u)' # {} \/ (u \in Legacy /\ current[AgentOf[u]] = u)
      <3>1. ~Aborted(AgentOf[u])
        BY <1>2, <2>3, ExecutorAssumption DEF Steady
      <3>2. CASE u = run[r].task
        BY <2>2, <3>2
      <3>3. CASE u # run[r].task
        BY <1>5, <2>1, <2>3, <3>1, <3>3 DEF SettleInv, BackedInv
      <3>4. QED BY <3>2, <3>3
    <2>4. QED BY <1>1, <2>3 DEF BackedInv, Undroppable
  <1>13. QED BY <1>2, <1>8, <1>9, <1>10, <1>11, <1>12, SettleFrame DEF SettleInv

LEMMA InsertFailsSettles ==
  ASSUME TypeOK, SafetyInv, SettleInv, NEW r \in Runs,
         InsertFails(r)
  PROVE  SettleInv'
  <1>1. /\ UNCHANGED <<row, answer, shut, boot, current>>
        /\ run[r].phase = "spawning"
        /\ StoreFault
        /\ caller' = [caller EXCEPT ![run[r].task] = "gone"]
    BY DEF InsertFails, control, scan
  <1>2. Steady /\ SameStatus /\ SameScan /\ NoNewWaiter /\ SameAnswers
    BY <1>1, SteadyStep DEF SameStatus, SameScan, NoNewWaiter, SameAnswers, TypeOK
  <1>3. Freed({r})
    BY DEF InsertFails, Release, Freed, TypeOK
  <1>4. QED BY <1>1, <1>2, <1>3, SettleFrame, FreedFrame DEF SettleInv, JoinedPhases, LivePhases

LEMMA RegisterHandleSettles ==
  ASSUME TypeOK, SafetyInv, SettleInv, NEW r \in Runs,
         RegisterHandle(r)
  PROVE  SettleInv'
  <1>1. /\ UNCHANGED <<row, caller, answer, faults, shut, boot, current>>
        /\ run[r].phase = "stored"
    BY DEF RegisterHandle, store, control, scan
  <1>2. Moved(r, "handled")
    BY MovedRun DEF RegisterHandle
  <1>3. Steady /\ SameStatus /\ SameScan /\ NoNewWaiter /\ SameAnswers
    BY <1>1, SteadyStep DEF SameStatus, SameScan, NoNewWaiter, SameAnswers
  <1>4. QED BY <1>1, <1>2, <1>3, SettleFrame, MovedFrame DEF SettleInv, JoinedPhases

(* The run that joins brings the sender its caller waits for. *)
LEMMA JoinTaskSettles ==
  ASSUME SingleHost, TypeOK, SafetyInv, SettleInv, NEW r \in Runs,
         JoinTask(r)
  PROVE  SettleInv'
  <1>1. /\ UNCHANGED <<row, answer, faults, shut, boot>>
        /\ run[r].phase = "handled"
    BY DEF JoinTask, store, control, scan
  <1>2. Moved(r, "drain")
    BY MovedRun DEF JoinTask
  <1>3. Steady /\ SameStatus /\ SameAnswers
    BY <1>1, SteadyStep DEF SameStatus, SameAnswers
  <1>4. run[r].task \in Tasks
    BY <1>1 DEF SafetyInv, RunsInv
  <1>5. \/ run[r].origin = "resume" /\ UNCHANGED caller
        \/ run[r].origin # "resume" /\ UNCHANGED current
           /\ \A u \in Tasks : caller'[u] = IF u = run[r].task
                THEN IF u \in Blocking THEN "waiting" ELSE "gone" ELSE caller[u]
    BY <1>4 DEF JoinTask, TypeOK
  <1>6. run[r].origin = "resume" =>
          /\ current[AgentOf[run[r].task]] = run[r].task
          /\ \A u \in Tasks : current'[AgentOf[u]] = NoTask
    BY <1>1, <1>4, ExecutorAssumption DEF JoinTask, TypeOK, SingleHost, SettleInv, ResumeInv
  <1>7. ResumeInv'
    <2>1. CASE run[r].origin # "resume"
      BY <1>2, <1>3, <1>5, <2>1, <1>1, MovedFrame
    <2>2. CASE run[r].origin = "resume"
      <3> SUFFICES ASSUME NEW q \in Runs, run'[q].origin = "resume",
                          run'[q].phase \in {"claiming", "stored", "handled"}
                   PROVE  FALSE
        BY <1>2 DEF SettleInv, ResumeInv, Moved
      <3>1. q # r /\ run'[q] = run[q]
        BY <1>2 DEF Moved
      <3>2. run[q].task \in Tasks /\ current[AgentOf[run[q].task]] = run[q].task
        BY <3>1 DEF SafetyInv, RunsInv, SettleInv, ResumeInv
      <3>3. AgentOf[run[q].task] = AgentOf[run[r].task]
        BY <3>2, <1>4, ExecutorAssumption DEF SingleHost
      <3>4. run[q].task = run[r].task
        BY <3>2, <3>3, <1>6, <2>2
      <3>5. QED BY <3>1, <3>4, <1>1 DEF SafetyInv, RunsInv
    <2>3. QED BY <2>1, <2>2
  <1>8. WaiterInv'
    <2>1. CASE run[r].origin = "resume"
      <3>1. NoNewWaiter
        BY <1>5, <2>1 DEF NoNewWaiter
      <3>2. QED BY <3>1, <1>1, <1>2, <1>3, MovedFrame DEF JoinedPhases
    <2>2. CASE run[r].origin # "resume"
      <3> SUFFICES ASSUME NEW u \in Tasks, caller'[u] = "waiting"
                   PROVE  \/ \E q \in Runs : /\ run'[q].task = u
                                             /\ run'[q].origin = "blocking"
                                             /\ run'[q].phase \in JoinedPhases
                          \/ Aborted(AgentOf[u])'
        BY DEF WaiterInv
      <3>1. CASE u = run[r].task
        <4>1. u \in Blocking
          BY <1>5, <2>2, <3>1
        <4>2. run[r].origin = "blocking"
          BY <4>1, <1>1, <2>2, <3>1 DEF SettleInv, FreshInv
        <4>3. QED BY <4>2, <3>1, <1>2 DEF Moved, JoinedPhases
      <3>2. CASE u # run[r].task
        <4>1. caller[u] = "waiting"
          BY <1>5, <2>2, <3>2
        <4>2. CASE Aborted(AgentOf[u])
          BY <4>2, <1>3, ExecutorAssumption DEF Steady
        <4>3. CASE \E q \in Runs : /\ run[q].task = u
                                   /\ run[q].origin = "blocking"
                                   /\ run[q].phase \in JoinedPhases
          BY <4>3, <3>2, <1>2 DEF Moved
        <4>4. QED BY <4>1, <4>2, <4>3 DEF SettleInv, WaiterInv
      <3>3. QED BY <3>1, <3>2
    <2>3. QED BY <2>1, <2>2
  <1>9. BackedInv'
    <2>1. CASE run[r].origin # "resume"
      <3>1. SameScan
        BY <1>1, <1>5, <2>1 DEF SameScan
      <3>2. QED BY <3>1, <1>1, <1>2, <1>3, MovedFrame DEF LivePhases
    <2>2. CASE run[r].origin = "resume"
      <3> SUFFICES ASSUME NEW u \in Tasks, Undroppable(u), row'[u].status = "running",
                          boot'[AgentOf[u]] # "idle", ~Aborted(AgentOf[u])', faults' = 0
                   PROVE  Backing(u)' # {}
        BY DEF BackedInv, Undroppable
      <3>1. Backing(u) \subseteq Backing(u)'
        BY <1>1, <1>2 DEF Backing, Moved, LivePhases
      <3>2. ~Aborted(AgentOf[u]) /\ faults = 0
        BY <1>3, ExecutorAssumption DEF Steady
      <3>3. Backing(u) # {} \/ (u \in Legacy /\ current[AgentOf[u]] = u)
        BY <1>1, <3>2 DEF SettleInv, BackedInv
      <3>4. CASE u \in Legacy /\ current[AgentOf[u]] = u
        <4>1. AgentOf[u] = AgentOf[run[r].task]
          BY <1>4, ExecutorAssumption DEF SingleHost
        <4>2. u = run[r].task
          BY <4>1, <3>4, <1>6, <2>2
        <4>3. RunsOf(u) = {}
          BY <3>4 DEF SafetyInv, CallerInv
        <4>4. QED BY <4>2, <4>3, <1>1 DEF RunsOf
      <3>5. QED BY <3>1, <3>3, <3>4
    <2>3. QED BY <2>1, <2>2
  <1>10. FreshInv' /\ VerdictInv'
    BY <1>1, <1>2, <1>3, MovedFrame
  <1>11. QED BY <1>3, <1>7, <1>8, <1>9, <1>10, SettleFrame DEF SettleInv

(* A spawn call that can be dropped is the exception BackedInv makes. *)
LEMMA DropCallerSettles ==
  ASSUME TypeOK, SafetyInv, SettleInv, NEW t \in Tasks,
         DropCaller(t)
  PROVE  SettleInv'
  <1>1. /\ UNCHANGED <<row, answer, faults, shut, boot, current>>
        /\ caller' = [caller EXCEPT ![t] = "gone"]
        /\ ~Undroppable(t)
    BY DEF DropCaller, CallerAbandoned, Undroppable, store, control, scan
  <1>2. Steady /\ SameStatus /\ SameScan /\ NoNewWaiter /\ SameAnswers
    BY <1>1, SteadyStep DEF SameStatus, SameScan, NoNewWaiter, SameAnswers, TypeOK
  <1>3. PICK S \in SUBSET Runs :
          /\ Freed(S)
          /\ \A q \in S : /\ run[q].task = t
                          /\ run[q].phase \in {"spawning", "stored", "handled"}
    <2>1. \E S \in SUBSET Runs :
            /\ run' = [q \in Runs |-> IF q \in S THEN FreeRun ELSE run[q]]
            /\ \A q \in S : /\ run[q].task = t
                            /\ run[q].phase \in {"spawning", "stored", "handled"}
      <3> DEFINE launching == {q \in Runs : /\ caller[t] = "launching"
                                             /\ run[q].task = t
                                             /\ run[q].origin # "resume"
                                             /\ run[q].phase \in {"spawning", "stored", "handled"}}
      <3>1. run' = [q \in Runs |-> IF q \in launching THEN FreeRun ELSE run[q]]
        BY DEF DropCaller
      <3>2. launching \in SUBSET Runs
        OBVIOUS
      <3>3. WITNESS launching \in SUBSET Runs
      <3>4. QED BY <3>1
    <2>2. QED BY <2>1 DEF Freed
  <1>4. WaiterInv'
    BY <1>2, <1>3, FreedFrame DEF JoinedPhases
  <1>5. BackedInv'
    <2> SUFFICES ASSUME NEW u \in Tasks, Undroppable(u), row'[u].status = "running",
                        boot'[AgentOf[u]] # "idle", ~Aborted(AgentOf[u])', faults' = 0
                 PROVE  Backing(u)' # {} \/ (u \in Legacy /\ current'[AgentOf[u]] = u)
      BY DEF BackedInv, Undroppable
    <2>1. Backing(u) \subseteq Backing(u)'
      BY <1>1, <1>3 DEF Backing, Freed
    <2>2. ~Aborted(AgentOf[u])
      BY <1>2, ExecutorAssumption DEF Steady
    <2>3. QED BY <1>1, <2>1, <2>2 DEF SettleInv, BackedInv
  <1>6. QED BY <1>1, <1>2, <1>3, <1>4, <1>5, SettleFrame, FreedFrame DEF SettleInv

------------------------------------------------------------------------------
(* Driving. *)

(* The row a verdict is taken on is the row of a run that executes. *)
LEMMA VerdictSettles ==
  ASSUME TypeOK, SafetyInv, SettleInv, NEW r \in Runs,
         run[r].phase \in LivePhases, Moved(r, "decided"),
         UNCHANGED <<row, caller, answer, faults, shut, boot, current>>
  PROVE  SettleInv'
  <1>1. Steady /\ SameStatus /\ SameScan /\ NoNewWaiter /\ SameAnswers
    BY SteadyStep DEF SameStatus, SameScan, NoNewWaiter, SameAnswers
  <1>2. run[r].phase # "free" /\ run[r].task \in Tasks /\ r \in Executing(run[r].task)
    BY DEF SafetyInv, RunsInv, Executing, LivePhases
  <1>3. \/ row[run[r].task].status = "running"
        \/ Terminal(row[run[r].task]) /\ (run[r].task \in Blocking \/ Sweeper)
    BY <1>2 DEF SafetyInv, RowInv
  <1>4. VerdictInv'
    BY <1>3 DEF SettleInv, VerdictInv, Moved, Terminal
  <1>5. QED BY <1>1, <1>2, <1>4, SettleFrame, MovedFrame DEF SettleInv, JoinedPhases

LEMMA DriveSettles ==
  ASSUME TypeOK, SafetyInv, SettleInv, NEW r \in Runs,
         DriveEnds(r) \/ TimeoutFires(r) \/ ObserveCancel(r)
  PROVE  SettleInv'
  <1>1. CASE DriveEnds(r)
    <2>1. PICK o \in {"final", "paused", "error", "closed", "cancelled"} :
            DrainEnds(r, o) \/ CancelDrainEnds(r, o)
      BY <1>1 DEF DriveEnds
    <2>2. run[r].phase \in LivePhases /\ Decide(r, o)
      BY <2>1 DEF DrainEnds, CancelDrainEnds, LivePhases
    <2>3. Moved(r, "decided") /\ UNCHANGED <<row, caller, answer, faults, shut, boot, current>>
      BY <2>2, DecidedRun DEF Decide, store, control, scan
    <2>4. QED BY <2>2, <2>3, VerdictSettles
  <1>2. CASE TimeoutFires(r)
    <2>1. /\ run[r].phase \in LivePhases
          /\ Moved(r, "decided")
          /\ UNCHANGED <<row, caller, answer, faults, shut, boot, current>>
      BY <1>2, DecidedRun DEF TimeoutFires, LivePhases, store, control, scan
    <2>2. QED BY <2>1, VerdictSettles
  <1>3. CASE ObserveCancel(r)
    <2>1. /\ run[r].phase = "drain"
          /\ Moved(r, "cancelling")
          /\ UNCHANGED <<row, caller, answer, faults, shut, boot, current>>
      BY <1>3, MovedRun DEF ObserveCancel, store, control, scan
    <2>2. Steady /\ SameStatus /\ SameScan /\ NoNewWaiter /\ SameAnswers
      BY <2>1, SteadyStep DEF SameStatus, SameScan, NoNewWaiter, SameAnswers
    <2>3. QED BY <2>1, <2>2, SettleFrame, MovedFrame DEF SettleInv, JoinedPhases, LivePhases
  <1>4. QED BY <1>1, <1>2, <1>3

(* The write that is answered leaves no Running row. *)
LEMMA PersistSettles ==
  ASSUME TypeOK, SafetyInv, SettleInv, NEW r \in Runs,
         Persist(r)
  PROVE  SettleInv'
  <1>1. /\ UNCHANGED <<caller, answer, faults, shut, boot, current>>
        /\ run[r].phase = "decided"
    BY DEF Persist, control, scan
  <1>2. Moved(r, "persisted")
    BY MovedRun DEF Persist
  <1>3. Steady /\ SameScan /\ NoNewWaiter /\ SameAnswers
    BY <1>1, SteadyStep DEF SameScan, NoNewWaiter, SameAnswers
  <1>4. /\ run[r].task \in Tasks
        /\ \A q \in Runs \ {r} : run[q].phase # "free" =>
             run[q].task \in Tasks /\ run[q].task # run[r].task
    BY <1>1 DEF SafetyInv, RunsInv
  <1>5. /\ \A u \in Tasks : u # run[r].task => row'[u] = row[u]
        /\ row'[run[r].task] = Written(row[run[r].task], run[r].verdict)
    BY <1>4 DEF Persist, TypeOK
  <1>6. row'[run[r].task].status # "running"
    <2>1. row[run[r].task] \in Row /\ run[r].verdict \in Verdicts
      BY <1>4 DEF TypeOK, RunState
    <2>2. Written(row[run[r].task], run[r].verdict).status # "running"
      BY <2>1, WrittenShape
    <2>3. QED BY <1>5, <2>2
  <1>7. /\ \A q \in Runs \ {r} : run[q].phase # "free" => row'[run[q].task] = row[run[q].task]
        /\ \A q \in Runs : run'[q].task = run[q].task /\ run'[q].origin = run[q].origin
        /\ \A q \in Runs : q # r => run'[q].phase = run[q].phase
        /\ run'[r].phase = "persisted"
    BY <1>2, <1>4, <1>5 DEF Moved
  <1>8. FreshInv'
    <2>1. ASSUME NEW q \in Runs, run'[q].phase = "spawning"
          PROVE  row'[run'[q].task].status = "absent" /\ run'[q].origin # "resume"
      <3>1. q # r /\ run[q].phase = "spawning" /\ run[q].phase # "free"
        BY <1>7, <2>1
      <3>2. QED BY <3>1, <1>7 DEF SettleInv, FreshInv
    <2>2. ASSUME NEW q \in Runs, run'[q].phase # "free", run'[q].origin # "resume"
          PROVE  run'[q].origin = "blocking" <=> run'[q].task \in Blocking
      BY <1>1, <1>7, <2>2 DEF SettleInv, FreshInv
    <2>3. QED BY <2>1, <2>2 DEF FreshInv
  <1>9. VerdictInv'
    <2> SUFFICES ASSUME NEW q \in Runs
                 PROVE  /\ run'[q].phase = "decided" =>
                             \/ row'[run'[q].task].status = "running"
                             \/ /\ Terminal(row'[run'[q].task])
                                /\ run'[q].task \in Blocking \/ Sweeper
                        /\ run'[q].phase = "persisted" /\ faults' = 0 =>
                             row'[run'[q].task].status # "running"
      BY DEF VerdictInv, Terminal
    <2>1. CASE q = r
      BY <2>1, <1>6, <1>7
    <2>2. CASE q # r
      BY <2>2, <1>1, <1>7 DEF SettleInv, VerdictInv
    <2>3. QED BY <2>1, <2>2
  <1>10. BackedInv'
    <2> SUFFICES ASSUME NEW u \in Tasks, Undroppable(u), row'[u].status = "running",
                        boot'[AgentOf[u]] # "idle", ~Aborted(AgentOf[u])', faults' = 0
                 PROVE  Backing(u)' # {} \/ (u \in Legacy /\ current'[AgentOf[u]] = u)
      BY DEF BackedInv, Undroppable
    <2>1. u # run[r].task /\ row'[u] = row[u]
      BY <1>5, <1>6
    <2>2. Backing(u) \subseteq Backing(u)'
      BY <2>1, <1>7 DEF Backing
    <2>3. ~Aborted(AgentOf[u])
      BY <1>3, ExecutorAssumption DEF Steady
    <2>4. QED BY <1>1, <2>1, <2>2, <2>3 DEF SettleInv, BackedInv
  <1>11. QED BY <1>1, <1>2, <1>3, <1>8, <1>9, <1>10, SettleFrame, MovedFrame
         DEF SettleInv, JoinedPhases

LEMMA PersistFailsSettles ==
  ASSUME TypeOK, SafetyInv, SettleInv, NEW r \in Runs,
         PersistFails(r)
  PROVE  SettleInv'
  <1>1. /\ UNCHANGED <<row, caller, answer, shut, boot, current>>
        /\ run[r].phase = "decided"
        /\ StoreFault
    BY DEF PersistFails, control, scan
  <1>2. Moved(r, "persisted")
    BY MovedRun DEF PersistFails
  <1>3. Steady /\ SameStatus /\ SameScan /\ NoNewWaiter /\ SameAnswers /\ faults' # 0
    BY <1>1, SteadyStep DEF SameStatus, SameScan, NoNewWaiter, SameAnswers, TypeOK
  <1>4. VerdictInv'
    BY <1>1, <1>2, <1>3 DEF SettleInv, VerdictInv, Moved, Terminal
  <1>5. BackedInv'
    BY <1>3 DEF BackedInv
  <1>6. QED BY <1>1, <1>2, <1>3, <1>4, <1>5, SettleFrame, MovedFrame DEF SettleInv, JoinedPhases

(* The sender answers with the row its own run has just settled. *)
LEMMA RetireSettles ==
  ASSUME TypeOK, SafetyInv, SettleInv, NEW r \in Runs,
         Retire(r)
  PROVE  SettleInv'
  <1>1. /\ UNCHANGED <<row, faults, shut, boot, current>>
        /\ run[r].phase = "persisted"
    BY DEF Retire, store, control, scan
  <1>2. Steady /\ SameStatus /\ SameScan
    BY <1>1, SteadyStep DEF SameStatus, SameScan
  <1>3. Freed({r})
    BY DEF Retire, Release, Freed, TypeOK
  <1>4. run[r].task \in Tasks
    BY <1>1 DEF SafetyInv, RunsInv
  <1>5. \A u \in Tasks :
          /\ caller'[u] = "waiting" => /\ caller[u] = "waiting"
                                       /\ u = run[r].task => run[r].origin # "blocking"
          /\ answer'[u] = "running" => answer[u] = "running" \/
               (u = run[r].task /\ row[u].status = "running")
    BY <1>4 DEF Retire, TypeOK
  <1>6. NoNewWaiter
    BY <1>5 DEF NoNewWaiter
  <1>7. WaiterInv'
    <2> SUFFICES ASSUME NEW u \in Tasks, caller'[u] = "waiting"
                 PROVE  \/ \E q \in Runs : /\ run'[q].task = u
                                           /\ run'[q].origin = "blocking"
                                           /\ run'[q].phase \in JoinedPhases
                        \/ Aborted(AgentOf[u])'
      BY DEF WaiterInv
    <2>1. CASE Aborted(AgentOf[u])
      BY <2>1, <1>2, ExecutorAssumption DEF Steady
    <2>2. CASE \E q \in Runs : /\ run[q].task = u
                               /\ run[q].origin = "blocking"
                               /\ run[q].phase \in JoinedPhases
      BY <2>2, <1>3, <1>5 DEF Freed
    <2>3. QED BY <2>1, <2>2, <1>5 DEF SettleInv, WaiterInv
  <1>8. BlockingAnswersAreSettled'
    <2>1. row[run[r].task].status = "running" => faults # 0 /\ faults > 0
      BY <1>1 DEF SettleInv, VerdictInv, TypeOK
    <2>2. QED BY <1>1, <1>5, <2>1 DEF SettleInv, BlockingAnswersAreSettled, Aborted
  <1>9. QED BY <1>1, <1>2, <1>3, <1>6, <1>7, <1>8, FreedFrame DEF SettleInv, LivePhases

------------------------------------------------------------------------------
(* Booting: adoption, the scan, and the claims. *)

(* The scan's current task is the one task that is being resumed. *)
LEMMA ScanIdle ==
  ASSUME SingleHost, SafetyInv, SettleInv, NEW e \in Executors,
         ResumeRuns(e) = {} \/ current[e] = NoTask \/ current[e] \in Legacy
  PROVE  \A q \in Runs : run[q].origin = "resume" =>
           run[q].phase \notin {"claiming", "stored", "handled"}
  <1> SUFFICES ASSUME NEW q \in Runs, run[q].origin = "resume",
                      run[q].phase \in {"claiming", "stored", "handled"}
               PROVE  FALSE
    OBVIOUS
  <1>1. run[q].task \in Tasks /\ q \in RunsOf(run[q].task)
    BY DEF SafetyInv, RunsInv, RunsOf
  <1>2. current[e] = run[q].task
    BY <1>1, ExecutorAssumption DEF SingleHost, SettleInv, ResumeInv
  <1>3. current[e] # NoTask /\ current[e] \notin Legacy
    BY <1>1, <1>2, ExecutorAssumption DEF SafetyInv, CallerInv
  <1>4. q \in ResumeRuns(e)
    BY <1>2 DEF ResumeRuns
  <1>5. QED BY <1>3, <1>4

(* Nothing runs when a boot adopts, and no row stays Running. *)
LEMMA AdoptOrphansSettles ==
  ASSUME SingleHost, TypeOK, SafetyInv, SettleInv, NEW e \in Executors,
         AdoptOrphans(e)
  PROVE  SettleInv'
  <1>1. /\ UNCHANGED <<run, caller, answer, faults, shut, current>>
        /\ boot[e] = "idle"
    BY DEF AdoptOrphans, control, scan
  <1>2. Steady /\ NoNewWaiter /\ SameAnswers /\ SameRuns
    BY <1>1, SteadyStep DEF NoNewWaiter, SameAnswers, SameRuns
  <1>3. \A q \in Runs : run[q].phase = "free"
    BY <1>1 DEF SafetyInv, BootInv
  <1>4. \A t \in Tasks : row'[t] = FoldedRow(row[t])
    BY DEF AdoptOrphans
  <1>5. \A t \in Tasks : row'[t].status # "running"
    <2>1. \A w \in Row : FoldedRow(w).status # "running"
      BY DEF FoldedRow, PausedRow, Row
    <2>2. QED BY <1>4, <2>1 DEF TypeOK
  <1>6. FreshInv' /\ VerdictInv'
    BY <1>1, <1>3 DEF FreshInv, VerdictInv
  <1>7. BackedInv'
    BY <1>5 DEF BackedInv
  <1>8. QED BY <1>1, <1>2, <1>6, <1>7, SettleFrame DEF SettleInv

LEMMA ScanSettles ==
  ASSUME TypeOK, SafetyInv, SettleInv, NEW e \in Executors,
         ScanPaused(e) \/ ScanDone(e)
  PROVE  SettleInv'
  <1>1. /\ UNCHANGED <<row, run, caller, answer, faults, shut, current>>
        /\ \E b \in {"resuming", "done"} : boot' = [boot EXCEPT ![e] = b]
        /\ boot[e] # "idle"
    BY DEF ScanPaused, ScanDone, store, control, scan
  <1>2. Steady /\ SameStatus /\ NoNewWaiter /\ SameAnswers /\ SameRuns
    BY <1>1, SteadyStep DEF SameStatus, NoNewWaiter, SameAnswers, SameRuns
  <1>3. SameScan
    BY <1>1 DEF SameScan, TypeOK
  <1>4. QED BY <1>1, <1>2, <1>3, SettleFrame DEF SettleInv

LEMMA ResumeFailsSettles ==
  ASSUME TypeOK, SafetyInv, SettleInv, NEW e \in Executors,
         ResumeFails(e)
  PROVE  SettleInv'
  <1>1. UNCHANGED <<row, run, caller, answer, shut, current>> /\ StoreFault
    BY DEF ResumeFails, control, scan
  <1>2. /\ Steady /\ SameStatus /\ NoNewWaiter /\ SameAnswers /\ SameRuns
        /\ faults' # 0
    BY <1>1, SteadyStep DEF SameStatus, NoNewWaiter, SameAnswers, SameRuns, TypeOK
  <1>3. BackedInv'
    BY <1>2 DEF BackedInv
  <1>4. QED BY <1>1, <1>2, <1>3, SettleFrame DEF SettleInv

LEMMA PickResumeSettles ==
  ASSUME SingleHost, TypeOK, SafetyInv, SettleInv, NEW e \in Executors, NEW t \in Tasks,
         PickResume(e, t)
  PROVE  SettleInv'
  <1>1. /\ UNCHANGED <<row, run, caller, answer, faults, shut, boot>>
        /\ current[e] = NoTask
    BY DEF PickResume, store, control, scan
  <1>2. Steady /\ SameStatus /\ NoNewWaiter /\ SameAnswers /\ SameRuns
    BY <1>1, SteadyStep DEF SameStatus, NoNewWaiter, SameAnswers, SameRuns
  <1>3. ResumeInv'
    BY <1>1, ScanIdle DEF SettleInv, ResumeInv
  <1>4. BackedInv'
    <2> SUFFICES ASSUME NEW u \in Tasks, Undroppable(u), row'[u].status = "running",
                        boot'[AgentOf[u]] # "idle", ~Aborted(AgentOf[u])', faults' = 0
                 PROVE  Backing(u)' # {}
      BY DEF BackedInv, Undroppable
    <2>1. current[AgentOf[u]] = NoTask /\ NoTask # u
      BY <1>1, ExecutorAssumption DEF SingleHost
    <2>2. ~Aborted(AgentOf[u])
      BY <1>2, ExecutorAssumption DEF Steady
    <2>3. Backing(u) # {}
      BY <1>1, <2>1, <2>2 DEF SettleInv, BackedInv
    <2>4. QED BY <1>1, <2>3 DEF Backing
  <1>5. QED BY <1>1, <1>2, <1>3, <1>4, SettleFrame DEF SettleInv

(* The scan leaves a task it has no run for. *)
LEMMA SkipSettles ==
  ASSUME SingleHost, TypeOK, SafetyInv, SettleInv, NEW e \in Executors,
         LegacyFails(e) \/ RejectResume(e)
  PROVE  SettleInv'
  <1>1. /\ UNCHANGED <<row, run, caller, answer, shut, boot>>
        /\ UNCHANGED faults \/ StoreFault
        /\ current' = [current EXCEPT ![e] = NoTask]
    BY DEF LegacyFails, RejectResume, Skip, store, control, scan
  <1>2. Steady /\ SameStatus /\ NoNewWaiter /\ SameAnswers /\ SameRuns
    BY <1>1, SteadyStep DEF SameStatus, NoNewWaiter, SameAnswers, SameRuns, TypeOK
  <1>3. ResumeInv'
    <2>1. ResumeRuns(e) = {} \/ current[e] \in Legacy
      BY DEF LegacyFails, RejectResume
    <2>2. QED BY <1>1, <2>1, ScanIdle DEF SettleInv, ResumeInv
  <1>4. BackedInv'
    <2>1. CASE LegacyFails(e)
      <3>1. faults' # 0
        BY <2>1, SteadyStep, <1>1 DEF LegacyFails, TypeOK
      <3>2. QED BY <3>1 DEF BackedInv
    <2>2. CASE RejectResume(e)
      <3> SUFFICES ASSUME NEW u \in Tasks, Undroppable(u), row'[u].status = "running",
                          boot'[AgentOf[u]] # "idle", ~Aborted(AgentOf[u])', faults' = 0
                   PROVE  Backing(u)' # {}
        BY DEF BackedInv, Undroppable
      <3>1. ~(u \in Legacy /\ current[AgentOf[u]] = u)
        BY <2>2, ExecutorAssumption DEF SingleHost, RejectResume
      <3>2. ~Aborted(AgentOf[u]) /\ faults = 0
        BY <1>2, ExecutorAssumption DEF Steady
      <3>3. Backing(u) # {}
        BY <1>1, <3>1, <3>2 DEF SettleInv, BackedInv
      <3>4. QED BY <1>1, <3>3 DEF Backing
    <2>3. QED BY <2>1, <2>2
  <1>5. QED BY <1>1, <1>2, <1>3, <1>4, SettleFrame DEF SettleInv

(* A row without a resume spec has no run, claimed or finished. *)
LEMMA LegacySettles ==
  ASSUME SingleHost, TypeOK, SafetyInv, SettleInv, NEW e \in Executors,
         ClaimLegacy(e) \/ FinishLegacy(e)
  PROVE  SettleInv'
  <1> DEFINE t == current[e]
  <1>1. /\ UNCHANGED <<run, caller, answer, faults, shut, boot>>
        /\ t \in Legacy /\ t \in Tasks
        /\ UNCHANGED current \/ current' = [current EXCEPT ![e] = NoTask]
    BY ExecutorAssumption DEF ClaimLegacy, FinishLegacy, Skip, store, control, scan
  <1>2. Steady /\ NoNewWaiter /\ SameAnswers /\ SameRuns
    BY <1>1, SteadyStep DEF NoNewWaiter, SameAnswers, SameRuns
  <1>3. \A q \in Runs : run[q].phase # "free" => run[q].task # t /\ run[q].task \in Tasks
    BY <1>1 DEF SafetyInv, RunsInv, CallerInv, RunsOf
  <1>4. \A u \in Tasks : u # t => row'[u] = row[u]
    BY DEF ClaimLegacy, FinishLegacy, TypeOK
  <1>5. FreshInv' /\ VerdictInv'
    BY <1>1, <1>3, <1>4 DEF SettleInv, FreshInv, VerdictInv, Terminal
  <1>6. ResumeInv'
    BY <1>1, ScanIdle DEF SettleInv, ResumeInv
  <1>7. row'[t].status = "running" => UNCHANGED current
    <2>1. CASE ClaimLegacy(e)
      BY <2>1 DEF ClaimLegacy
    <2>2. CASE FinishLegacy(e)
      <3>1. row[t] \in Row /\ row[t].status = "running"
        BY <2>2, <1>1 DEF FinishLegacy, TypeOK
      <3>2. row'[t] = Finished(row[t], "failed", "not_resumable")
        BY <2>2, <1>1 DEF FinishLegacy, TypeOK
      <3>3. QED BY <3>1, <3>2, FinishedShape
    <2>3. QED BY <2>1, <2>2
  <1>8. BackedInv'
    <2> SUFFICES ASSUME NEW u \in Tasks, Undroppable(u), row'[u].status = "running",
                        boot'[AgentOf[u]] # "idle", ~Aborted(AgentOf[u])', faults' = 0
                 PROVE  Backing(u)' # {} \/ (u \in Legacy /\ current'[AgentOf[u]] = u)
      BY DEF BackedInv, Undroppable
    <2>1. AgentOf[u] = e
      BY ExecutorAssumption DEF SingleHost
    <2>2. CASE u = t
      BY <1>1, <1>7, <2>1, <2>2
    <2>3. CASE u # t
      <3>1. ~Aborted(AgentOf[u])
        BY <1>2, ExecutorAssumption DEF Steady
      <3>2. Backing(u) # {}
        BY <1>1, <1>4, <2>1, <2>3, <3>1 DEF SettleInv, BackedInv
      <3>3. QED BY <1>1, <3>2 DEF Backing
    <2>4. QED BY <2>2, <2>3
  <1>9. QED BY <1>1, <1>2, <1>5, <1>6, <1>8, SettleFrame DEF SettleInv

LEMMA ResumePermitSettles ==
  ASSUME SingleHost, TypeOK, SafetyInv, SettleInv, NEW e \in Executors, NEW r \in Runs,
         ResumePermit(e, r)
  PROVE  SettleInv'
  <1>1. /\ UNCHANGED <<row, caller, answer, faults, shut, boot, current>>
        /\ run[r].phase = "free"
        /\ current[e] \in Tasks
    BY DEF ResumePermit, store, control, scan
  <1>2. Steady /\ SameStatus /\ SameScan /\ NoNewWaiter /\ SameAnswers
    BY <1>1, SteadyStep DEF SameStatus, SameScan, NoNewWaiter, SameAnswers
  <1>3. /\ \A q \in Runs \ {r} : run'[q] = run[q]
        /\ run'[r].task = current[e]
        /\ run'[r].phase = "claiming"
        /\ run'[r].origin = "resume"
    BY DEF ResumePermit, TypeOK, FreeRun
  <1>4. FreshInv'
    BY <1>1, <1>3 DEF SettleInv, FreshInv
  <1>5. VerdictInv'
    BY <1>1, <1>3 DEF SettleInv, VerdictInv
  <1>6. ResumeInv'
    <2>1. AgentOf[current[e]] = e
      BY <1>1, ExecutorAssumption DEF SingleHost
    <2>2. QED BY <1>1, <1>3, <2>1 DEF SettleInv, ResumeInv
  <1>7. WaiterInv'
    BY <1>1, <1>2, <1>3 DEF SettleInv, WaiterInv, NoNewWaiter, Aborted, JoinedPhases
  <1>8. BackedInv'
    <2>1. \A u \in Tasks : Backing(u) \subseteq Backing(u)'
      BY <1>1, <1>3 DEF Backing, LivePhases
    <2>2. QED BY <1>1, <2>1 DEF SettleInv, BackedInv, Aborted, Undroppable
  <1>9. QED BY <1>2, <1>4, <1>5, <1>6, <1>7, <1>8, SettleFrame DEF SettleInv

(* The claim puts the row back behind the run that holds the permit. *)
LEMMA ClaimSettles ==
  ASSUME TypeOK, SafetyInv, SettleInv, NEW r \in Runs,
         Claim(r)
  PROVE  SettleInv'
  <1>1. /\ UNCHANGED <<caller, answer, faults, shut, boot, current>>
        /\ run[r].phase = "claiming"
    BY DEF Claim, control, scan
  <1>2. Steady /\ SameScan /\ NoNewWaiter /\ SameAnswers
    BY <1>1, SteadyStep DEF SameScan, NoNewWaiter, SameAnswers
  <1>3. Moved(r, "stored")
    BY MovedRun DEF Claim
  <1>4. /\ run[r].task \in Tasks
        /\ \A q \in Runs \ {r} : run[q].phase # "free" =>
             run[q].task \in Tasks /\ run[q].task # run[r].task
    BY <1>1 DEF SafetyInv, RunsInv
  <1>5. \A u \in Tasks : u # run[r].task => row'[u] = row[u]
    BY DEF Claim, TypeOK
  <1>6. /\ \A q \in Runs \ {r} : run[q].phase # "free" => row'[run[q].task] = row[run[q].task]
        /\ \A q \in Runs : run'[q].task = run[q].task /\ run'[q].origin = run[q].origin
        /\ \A q \in Runs : q # r => run'[q].phase = run[q].phase
        /\ run'[r].phase = "stored"
    BY <1>3, <1>4, <1>5 DEF Moved
  <1>7. FreshInv'
    <2>1. ASSUME NEW q \in Runs, run'[q].phase = "spawning"
          PROVE  row'[run'[q].task].status = "absent" /\ run'[q].origin # "resume"
      <3>1. q # r /\ run[q].phase = "spawning" /\ run[q].phase # "free"
        BY <1>6, <2>1
      <3>2. QED BY <3>1, <1>6 DEF SettleInv, FreshInv
    <2>2. ASSUME NEW q \in Runs, run'[q].phase # "free", run'[q].origin # "resume"
          PROVE  run'[q].origin = "blocking" <=> run'[q].task \in Blocking
      BY <1>1, <1>6, <2>2 DEF SettleInv, FreshInv
    <2>3. QED BY <2>1, <2>2 DEF FreshInv
  <1>8. VerdictInv'
    BY <1>1, <1>6 DEF SettleInv, VerdictInv, Terminal
  <1>9. BackedInv'
    <2> SUFFICES ASSUME NEW u \in Tasks, Undroppable(u), row'[u].status = "running",
                        boot'[AgentOf[u]] # "idle", ~Aborted(AgentOf[u])', faults' = 0
                 PROVE  Backing(u)' # {} \/ (u \in Legacy /\ current'[AgentOf[u]] = u)
      BY DEF BackedInv, Undroppable
    <2>1. CASE u = run[r].task
      <3>1. r \in Backing(u)'
        BY <2>1, <1>6 DEF Backing
      <3>2. QED BY <3>1
    <2>2. CASE u # run[r].task
      <3>1. ~Aborted(AgentOf[u])
        BY <1>2, ExecutorAssumption DEF Steady
      <3>2. Backing(u) \subseteq Backing(u)'
        BY <1>6 DEF Backing
      <3>3. QED BY <1>1, <1>5, <2>2, <3>1, <3>2 DEF SettleInv, BackedInv
    <2>3. QED BY <2>1, <2>2
  <1>10. QED BY <1>1, <1>2, <1>3, <1>7, <1>8, <1>9, SettleFrame, MovedFrame
         DEF SettleInv, JoinedPhases

(* A claim that fails ends its run, and the scan moves on. *)
LEMMA ClaimEnds ==
  ASSUME SingleHost, TypeOK, SafetyInv, SettleInv, NEW r \in Runs,
         run[r].origin = "resume", run[r].phase \in {"claiming", "stored"},
         Freed({r}), current' = [current EXCEPT ![AgentOf[run[r].task]] = NoTask],
         Steady, SameAnswers, NoNewWaiter
  PROVE  /\ run[r].task \in Tasks
         /\ \A q \in Runs \ {r} : run[q].phase # "free" => run[q].task # run[r].task
         /\ current[AgentOf[run[r].task]] = run[r].task /\ run[r].task \notin Legacy
         /\ ResumeInv' /\ WaiterInv' /\ BlockingAnswersAreSettled'
  <1>1. /\ run[r].task \in Tasks
        /\ \A q \in Runs \ {r} : run[q].phase # "free" => run[q].task # run[r].task
    BY DEF SafetyInv, RunsInv
  <1>2. current[AgentOf[run[r].task]] = run[r].task
    BY DEF SettleInv, ResumeInv
  <1>3. run[r].task \notin Legacy
    BY <1>1 DEF SafetyInv, CallerInv, RunsOf
  <1>4. ResumeInv'
    <2> SUFFICES ASSUME NEW q \in Runs, run'[q].origin = "resume",
                        run'[q].phase \in {"claiming", "stored", "handled"}
                 PROVE  FALSE
      BY DEF SettleInv, ResumeInv, Freed, FreeRun
    <2>1. q # r /\ run'[q] = run[q]
      BY DEF Freed, FreeRun
    <2>2. run[q].task \in Tasks /\ current[AgentOf[run[q].task]] = run[q].task
      BY <2>1 DEF SafetyInv, RunsInv, SettleInv, ResumeInv
    <2>3. AgentOf[run[q].task] = AgentOf[run[r].task]
      BY <2>2, <1>1, ExecutorAssumption DEF SingleHost
    <2>4. QED BY <2>1, <2>2, <2>3, <1>1, <1>2
  <1>5. WaiterInv'
    BY FreedFrame DEF JoinedPhases
  <1>6. QED BY <1>1, <1>2, <1>3, <1>4, <1>5, SettleFrame

LEMMA ClaimRejectedSettles ==
  ASSUME SingleHost, TypeOK, SafetyInv, SettleInv, NEW r \in Runs,
         ClaimRejected(r)
  PROVE  SettleInv'
  <1>1. /\ UNCHANGED <<caller, answer, faults, shut, boot>>
        /\ run[r].phase = "claiming"
        /\ current' = [current EXCEPT ![AgentOf[run[r].task]] = NoTask]
    BY DEF ClaimRejected, Skip, control, scan
  <1>2. Steady /\ NoNewWaiter /\ SameAnswers
    BY <1>1, SteadyStep DEF NoNewWaiter, SameAnswers
  <1>3. Freed({r})
    BY DEF ClaimRejected, Release, Freed, TypeOK
  <1>4. run[r].task \in Tasks
    BY <1>1 DEF SafetyInv, RunsInv
  <1>5. run[r].origin = "resume"
    BY <1>1 DEF SettleInv, ResumeInv
  <1>6. /\ \A q \in Runs \ {r} : run[q].phase # "free" => run[q].task # run[r].task
        /\ run[r].task \notin Legacy
        /\ ResumeInv' /\ WaiterInv' /\ BlockingAnswersAreSettled'
    BY <1>1, <1>2, <1>3, <1>5, ClaimEnds
  <1>7. /\ \A u \in Tasks : u # run[r].task => row'[u] = row[u]
        /\ row'[run[r].task].status # "running" \/ row'[run[r].task] = row[run[r].task]
    <2>1. row[run[r].task] \in Row
      BY <1>4 DEF TypeOK
    <2>2. QED BY <1>4, <2>1, FinishedShape DEF ClaimRejected, TypeOK, CapExhausted
  <1>8. \A q \in Runs :
          \/ run'[q].phase = "free"
          \/ run'[q] = run[q] /\ (run[q].phase # "free" => row'[run[q].task] = row[run[q].task])
    BY <1>3, <1>6, <1>7 DEF Freed, FreeRun, SafetyInv, RunsInv
  <1>9. FreshInv' /\ VerdictInv'
    BY <1>1, <1>8 DEF SettleInv, FreshInv, VerdictInv, Terminal
  <1>10. BackedInv'
    <2> SUFFICES ASSUME NEW u \in Tasks, Undroppable(u), row'[u].status = "running",
                        boot'[AgentOf[u]] # "idle", ~Aborted(AgentOf[u])', faults' = 0
                 PROVE  Backing(u)' # {}
      BY DEF BackedInv, Undroppable
    <2>1. ~Aborted(AgentOf[u])
      BY <1>2, ExecutorAssumption DEF Steady
    <2>2. row[u].status = "running"
      BY <1>7
    <2>3. Backing(u) # {} \/ (u \in Legacy /\ current[AgentOf[u]] = u)
      BY <1>1, <2>1, <2>2 DEF SettleInv, BackedInv
    <2>4. AgentOf[u] = AgentOf[run[r].task] /\ current[AgentOf[run[r].task]] = run[r].task
      BY <1>1, <1>4, <1>5, ExecutorAssumption DEF SingleHost, SettleInv, ResumeInv
    <2>5. Backing(u) # {}
      BY <2>3, <2>4, <1>6
    <2>6. r \notin Backing(u)
      BY <1>1 DEF Backing, LivePhases
    <2>7. Backing(u) \subseteq Backing(u)'
      BY <1>3, <2>6 DEF Backing, Freed
    <2>8. QED BY <2>5, <2>7
  <1>11. QED BY <1>6, <1>9, <1>10 DEF SettleInv

LEMMA ResumeOneFailsSettles ==
  ASSUME SingleHost, TypeOK, SafetyInv, SettleInv, NEW r \in Runs,
         ResumeOneFails(r)
  PROVE  SettleInv'
  <1>1. /\ UNCHANGED <<row, caller, answer, shut, boot>>
        /\ run[r].origin = "resume" /\ run[r].phase \in {"claiming", "stored"}
        /\ current' = [current EXCEPT ![AgentOf[run[r].task]] = NoTask]
        /\ StoreFault
    BY DEF ResumeOneFails, Skip, Exec, control, scan
  <1>2. Steady /\ SameStatus /\ NoNewWaiter /\ SameAnswers /\ faults' # 0
    BY <1>1, SteadyStep DEF SameStatus, NoNewWaiter, SameAnswers, TypeOK
  <1>3. Freed({r})
    BY DEF ResumeOneFails, Release, Freed, TypeOK
  <1>4. ResumeInv' /\ WaiterInv' /\ BlockingAnswersAreSettled'
    BY <1>1, <1>2, <1>3, ClaimEnds
  <1>5. BackedInv'
    BY <1>2 DEF BackedInv
  <1>6. QED BY <1>2, <1>3, <1>4, <1>5, FreedFrame DEF SettleInv

------------------------------------------------------------------------------
(* Shutdown, the sweeper and restarts. *)

LEMMA ShutdownSettles ==
  ASSUME TypeOK, SafetyInv, SettleInv, NEW e \in Executors, NEW c \in Calls,
         \/ ShutdownFires(e, c) \/ ShutdownTakes(e, c)
         \/ ShutdownDrained(e, c) \/ ForceCancelStragglers(e, c)
  PROVE  SettleInv'
  <1>1. UNCHANGED <<row, caller, answer, faults, boot, current>>
    BY DEF ShutdownFires, ShutdownTakes, ShutdownDrained, ForceCancelStragglers, store, scan
  <1>2. SameRuns
    <2>1. CASE ShutdownTakes(e, c)
      BY <2>1 DEF ShutdownTakes, SameRuns, TypeOK, RunState
    <2>2. CASE ForceCancelStragglers(e, c)
      BY <2>2 DEF ForceCancelStragglers, SameRuns, TypeOK, RunState
    <2>3. CASE ShutdownFires(e, c) \/ ShutdownDrained(e, c)
      BY <2>3 DEF ShutdownFires, ShutdownDrained, SameRuns
    <2>4. QED BY <2>1, <2>2, <2>3
  <1>3. \E from \in {"idle", "firing", "draining", "forcing"} :
          \E to \in {"firing", "draining", "forcing", "returned"} : Advance(e, c, from, to)
    BY DEF ShutdownFires, ShutdownTakes, ShutdownDrained, ForceCancelStragglers
  <1>4. \A d \in Executors, b \in Calls : shut[d][b] = "aborted" => shut'[d][b] = "aborted"
    BY <1>3 DEF Advance, TypeOK
  <1>5. Steady
    BY <1>1, <1>4 DEF Steady, Aborted
  <1>6. SameStatus /\ SameScan /\ NoNewWaiter /\ SameAnswers
    BY <1>1 DEF SameStatus, SameScan, NoNewWaiter, SameAnswers
  <1>7. QED BY <1>1, <1>2, <1>5, <1>6, SettleFrame DEF SettleInv

(* An aborted run leaves its row Running, and its waiter without a sender. *)
LEMMA ShutdownAbortsSettles ==
  ASSUME SingleHost, TypeOK, SafetyInv, SettleInv, NEW e \in Executors, NEW c \in Calls,
         ShutdownAborts(e, c)
  PROVE  SettleInv'
  <1>1. UNCHANGED <<row, caller, answer, faults, boot, current>>
    BY DEF ShutdownAborts, store, scan
  <1>2. Freed(Taken(e, c))
    BY DEF ShutdownAborts, Freed
  <1>3. \A d \in Executors : Aborted(d)'
    <2>1. shut'[e][c] = "aborted"
      BY DEF ShutdownAborts, Advance, TypeOK
    <2>2. QED BY <2>1 DEF Aborted, SingleHost
  <1>4. Steady /\ SameStatus /\ SameAnswers
    BY <1>1, <1>3 DEF Steady, SameStatus, SameAnswers
  <1>5. WaiterInv' /\ BackedInv'
    BY <1>3, ExecutorAssumption DEF WaiterInv, BackedInv
  <1>6. QED BY <1>1, <1>2, <1>4, <1>5, SettleFrame, FreedFrame DEF SettleInv

LEMMA RecoverStuckSettles ==
  ASSUME TypeOK, SafetyInv, SettleInv, NEW stuck \in SUBSET Tasks,
         RecoverStuck(stuck)
  PROVE  SettleInv'
  <1>1. UNCHANGED <<run, caller, answer, faults, shut, boot, current>> /\ Sweeper
    BY DEF RecoverStuck, control, scan
  <1>2. Steady /\ SameScan /\ SameRuns /\ NoNewWaiter /\ SameAnswers
    BY <1>1, SteadyStep DEF SameScan, SameRuns, NoNewWaiter, SameAnswers
  <1>3. \A u \in Tasks :
          \/ row'[u].status = row[u].status
          \/ row[u].status = "running" /\ row'[u].status = "failed"
    <2>1. \A w \in Row : SweptRow(w).status = "failed"
      BY DEF SweptRow, Row
    <2>2. \A u \in Tasks :
            \/ row'[u] = row[u]
            \/ row[u].status = "running" /\ row'[u] = SweptRow(row[u])
      BY DEF RecoverStuck
    <2>3. QED BY <2>1, <2>2 DEF TypeOK
  <1>4. \A q \in Runs : run[q].phase # "free" => run[q].task \in Tasks
    BY DEF SafetyInv, RunsInv
  <1>5. FreshInv'
    BY <1>1, <1>3, <1>4 DEF SettleInv, FreshInv
  <1>6. VerdictInv'
    BY <1>1, <1>3, <1>4 DEF SettleInv, VerdictInv, Terminal
  <1>7. BackedInv'
    BY <1>1, <1>3 DEF SettleInv, BackedInv, Backing, Aborted, Undroppable
  <1>8. QED BY <1>1, <1>2, <1>5, <1>6, <1>7, SettleFrame DEF SettleInv

LEMMA RestartSettles ==
  ASSUME TypeOK, SafetyInv, SettleInv, Restart
  PROVE  SettleInv'
  <1>1. /\ \A r \in Runs : run'[r].phase = "free"
        /\ \A t \in Tasks : caller'[t] \in {"idle", "gone"} /\ answer'[t] = "none"
        /\ \A e \in Executors : boot'[e] = "idle"
    BY DEF Restart, FreeRun
  <1>2. FreshInv' /\ VerdictInv' /\ ResumeInv'
    BY <1>1 DEF FreshInv, VerdictInv, ResumeInv
  <1>3. WaiterInv' /\ BackedInv' /\ BlockingAnswersAreSettled'
    BY <1>1, ExecutorAssumption DEF WaiterInv, BackedInv, BlockingAnswersAreSettled
  <1>4. QED BY <1>2, <1>3 DEF SettleInv

LEMMA InitSettles ==
  ASSUME Init
  PROVE  SettleInv
  <1>1. /\ \A r \in Runs : run[r].phase = "free"
        /\ \A t \in Tasks : caller[t] \in {"idle", "gone"} /\ answer[t] = "none"
        /\ \A e \in Executors : boot[e] = "idle"
    BY DEF Init, FreeRun
  <1>2. FreshInv /\ VerdictInv /\ ResumeInv
    BY <1>1 DEF FreshInv, VerdictInv, ResumeInv
  <1>3. WaiterInv /\ BackedInv /\ BlockingAnswersAreSettled
    BY <1>1, ExecutorAssumption DEF WaiterInv, BackedInv, BlockingAnswersAreSettled
  <1>4. QED BY <1>2, <1>3 DEF SettleInv

(* Every action preserves the second invariant. *)
LEMMA StepSettles == SingleHost /\ TypeOK /\ SafetyInv /\ SettleInv /\ [Next]_vars => SettleInv'
  <1> SUFFICES ASSUME SingleHost, TypeOK, SafetyInv, SettleInv, [Next]_vars PROVE SettleInv'
    OBVIOUS
  <1>1. CASE UNCHANGED vars
    <2>1. UNCHANGED <<row, run, caller, answer, faults, shut, boot, current>>
      BY <1>1 DEF vars, control, scan
    <2>2. SameRuns /\ NoNewWaiter /\ SameAnswers
      BY <2>1 DEF SameRuns, NoNewWaiter, SameAnswers
    <2>3. QED BY <2>1, <2>2, CallSettles
  <1>2. ASSUME NEW t \in Tasks,
               CallerStep(t) \/ Request(t) \/ UserCancel(t) \/ DropCaller(t) \/ WaitTimesOut(t)
        PROVE  SettleInv'
    BY <1>2, CallersSettle, AcquirePermitSettles, DropCallerSettles, FinishOverdueSettles,
       WaiterLosesSenderSettles
    DEF CallerStep
  <1>3. ASSUME NEW r \in Runs,
               \/ LaunchStep(r) \/ ClaimStep(r) \/ DriveStep(r)
               \/ InsertFails(r) \/ PersistFails(r) \/ ResumeOneFails(r)
        PROVE  SettleInv'
    BY <1>3, InsertRowSettles, RegisterHandleSettles, JoinTaskSettles, ClaimSettles,
       ClaimRejectedSettles, InsertFailsSettles, PersistFailsSettles, ResumeOneFailsSettles,
       DriveSettles, PersistSettles, RetireSettles
    DEF LaunchStep, ClaimStep, DriveStep
  <1>4. ASSUME NEW e \in Executors, ResumeStep(e) \/ ResumeFails(e) \/ LegacyFails(e)
        PROVE  SettleInv'
    BY <1>4, AdoptOrphansSettles, ScanSettles, ResumeFailsSettles, PickResumeSettles,
       SkipSettles, LegacySettles, ResumePermitSettles
    DEF ResumeStep
  <1>5. ASSUME NEW e \in Executors, NEW c \in Calls, ShutdownStep(e, c) \/ ShutdownFires(e, c)
        PROVE  SettleInv'
    BY <1>5, ShutdownSettles, ShutdownAbortsSettles DEF ShutdownStep
  <1>6. ASSUME NEW stuck \in SUBSET Tasks, RecoverStuck(stuck)
        PROVE  SettleInv'
    BY <1>6, RecoverStuckSettles
  <1>7. CASE Restart
    BY <1>7, RestartSettles
  <1>8. QED BY <1>1, <1>2, <1>3, <1>4, <1>5, <1>6, <1>7 DEF Next, Environment, Fault

LEMMA SettleInvariant == SingleHost /\ Spec => []SettleInv
  <1>1. Init => SettleInv
    BY InitSettles
  <1>2. SingleHost /\ TypeOK /\ SafetyInv /\ SettleInv /\ [Next]_vars => SettleInv'
    BY StepSettles
  <1>3. SingleHost /\ [Next]_vars => SingleHost'
    BY DEF SingleHost
  <1>4. QED BY <1>1, <1>2, <1>3, TypesHold, SafetyInvariant, PTL DEF Spec

------------------------------------------------------------------------------
(* A blocking caller is handed the record of a task that has settled, unless *)
(* an aborted shutdown took the run or the store lost its last write         *)
(* (signal_completion, load_after_timeout).                                  *)
THEOREM BlockingAnswersAreSettledHolds == SingleHost /\ Spec => []BlockingAnswersAreSettled
  <1>1. SettleInv => BlockingAnswersAreSettled
    BY DEF SettleInv
  <1>2. QED BY <1>1, SettleInvariant, PTL

(* Where no spawn call is dropped, a Running row has a run behind it once    *)
(* the host has booted (launch_run, drive_one_task, resume_one).             *)
THEOREM RunningRowsAreBackedHolds ==
  SingleHost /\ (\A t \in Tasks : Undroppable(t)) /\ Spec => []RunningRowsAreBacked
  <1>1. SingleHost /\ (\A t \in Tasks : Undroppable(t)) /\ SafetyInv /\ SettleInv
          => RunningRowsAreBacked
    <2> SUFFICES ASSUME SingleHost, \A t \in Tasks : Undroppable(t), SafetyInv, SettleInv,
                        NEW t \in Tasks, row[t].status = "running", Booted,
                        ~Aborted(AgentOf[t]), faults = 0
                 PROVE  \E r \in Runs : run[r].task = t /\
                          run[r].phase \in {"stored", "handled", "decided"} \cup LivePhases
      BY DEF RunningRowsAreBacked
    <2>1. boot[AgentOf[t]] = "done" /\ current[AgentOf[t]] # t
      BY ExecutorAssumption DEF Booted, SafetyInv, BootInv
    <2>2. Backing(t) # {}
      BY <2>1 DEF SettleInv, BackedInv
    <2>3. QED BY <2>2 DEF Backing
  <1>2. SingleHost /\ (\A t \in Tasks : Undroppable(t)) /\ [Next]_vars =>
          (SingleHost /\ \A t \in Tasks : Undroppable(t))'
    BY DEF SingleHost, Undroppable
  <1>3. QED BY <1>1, <1>2, SafetyInvariant, SettleInvariant, PTL DEF Spec

------------------------------------------------------------------------------
(* The refinement of TaskLifecycle: what every step does to the abstract     *)
(* state, which is the rows' statuses and the set of executed tasks.         *)

ExecPhases == {"stored", "handled"} \cup LivePhases

Status == [t \in Tasks |-> row[t].status]
Active == {t \in Tasks : Executing(t) # {}}

AbstractStep == [Lifecycle!Next]_(Lifecycle!vars)

(* No run begins to execute a task. *)
NoneStarts ==
  \A q \in Runs : run'[q].phase \in ExecPhases =>
    run[q].phase \in ExecPhases /\ run'[q].task = run[q].task

(* The same runs execute the same tasks. *)
SameExecution ==
  /\ NoneStarts
  /\ \A q \in Runs : run[q].phase \in ExecPhases => run'[q].phase \in ExecPhases

LEMMA AbstractActions ==
  /\ \A t \in Tasks : Lifecycle!Start(t) => AbstractStep
  /\ \A t \in Tasks : Lifecycle!GiveUp(t) => AbstractStep
  /\ \A t \in Tasks : Lifecycle!Condemn(t) => AbstractStep
  /\ \A t \in Tasks, s \in {"done", "failed", "paused"} : Lifecycle!Settle(t, s) => AbstractStep
  /\ \A S \in SUBSET Tasks : Lifecycle!Stop(S) => AbstractStep
  /\ \A S \in SUBSET Tasks : Lifecycle!Adopt(S) => AbstractStep
  /\ \A S \in SUBSET Tasks : Lifecycle!Overrule(S) => AbstractStep
  BY DEF AbstractStep, Lifecycle!Next, Lifecycle!Final

LEMMA SameActive ==
  ASSUME SameExecution
  PROVE  Active' = Active
  <1>1. \A t \in Tasks : Executing(t)' = Executing(t)
    BY DEF SameExecution, NoneStarts, Executing, ExecPhases
  <1>2. QED BY <1>1 DEF Active

(* Where no row changes its status and no run starts, some tasks may stop. *)
LEMMA StopStep ==
  ASSUME SameStatus, NoneStarts
  PROVE  AbstractStep
  <1> DEFINE S == Active \ Active'
  <1>1. \A t \in Tasks : Executing(t)' \subseteq Executing(t)
    BY DEF NoneStarts, Executing, ExecPhases
  <1>2. Active' \subseteq Active
    BY <1>1 DEF Active
  <1>3. S \in SUBSET Tasks /\ S \subseteq Active /\ Active' = Active \ S
    BY <1>2 DEF Active
  <1>4. Status' = Status
    BY DEF SameStatus, Status
  <1>5. Lifecycle!Stop(S)
    BY <1>3, <1>4 DEF Lifecycle!Stop, Active, Status
  <1>6. QED BY <1>3, <1>5, AbstractActions

(* One row changes its status. *)
StatusSet(t, s) ==
  /\ row'[t].status = s
  /\ \A u \in Tasks : u # t => row'[u].status = row[u].status

LEMMA StatusUpdate ==
  ASSUME NEW t \in Tasks, NEW s, StatusSet(t, s)
  PROVE  Status' = [Status EXCEPT ![t] = s]
  BY DEF StatusSet, Status

LEMMA StartStep ==
  ASSUME NEW t \in Tasks, NEW r \in Runs,
         StatusSet(t, "running"), row[t].status \in {"absent", "paused"}, Executing(t) = {},
         run'[r].task = t, run'[r].phase = "stored", run[r].phase \notin ExecPhases,
         \A q \in Runs \ {r} : run'[q] = run[q]
  PROVE  AbstractStep
  <1>1. Status' = [Status EXCEPT ![t] = "running"]
    BY StatusUpdate
  <1>2. \A u \in Tasks : u # t => Executing(u)' = Executing(u)
    BY DEF Executing, ExecPhases
  <1>3. r \in Executing(t)'
    BY DEF Executing
  <1>4. Active' = Active \cup {t}
    BY <1>2, <1>3 DEF Active
  <1>5. Lifecycle!Start(t)
    BY <1>1, <1>4 DEF Lifecycle!Start, Status, Active
  <1>6. QED BY <1>5, AbstractActions

LEMMA SettleStep ==
  ASSUME NEW t \in Tasks, NEW s \in {"done", "failed", "paused"},
         StatusSet(t, s), SameExecution, Executing(t) = {},
         \/ row[t].status = "running"
         \/ (t \in Blocking \/ Sweeper) /\ Terminal(row[t]) /\ s # "paused"
  PROVE  AbstractStep
  <1>1. Status' = [Status EXCEPT ![t] = s] /\ Active' = Active
    BY StatusUpdate, SameActive
  <1>2. Lifecycle!Settle(t, s)
    BY <1>1, ExecutorAssumption DEF Lifecycle!Settle, Lifecycle!Final, Status, Active, Terminal
  <1>3. QED BY <1>2, AbstractActions

LEMMA OverruleStep ==
  ASSUME SameExecution, NEW S \in SUBSET Tasks,
         \A t \in S : /\ t \in Blocking \/ Sweeper
                      /\ row[t].status # "absent"
                      /\ row'[t].status = "failed",
         \A t \in Tasks \ S : row'[t].status = row[t].status
  PROVE  AbstractStep
  <1>1. Active' = Active
    BY SameActive
  <1>2. Status' = [t \in Tasks |-> IF t \in S THEN "failed" ELSE Status[t]]
    BY DEF Status
  <1>3. S \subseteq (IF Sweeper THEN Tasks ELSE Blocking)
    OBVIOUS
  <1>4. Lifecycle!Overrule(S)
    BY <1>1, <1>2, <1>3 DEF Lifecycle!Overrule, Status, Active
  <1>5. QED BY <1>4, AbstractActions

LEMMA AdoptStep ==
  ASSUME SameExecution, Active = {}, NEW S \in SUBSET Tasks,
         \A t \in S : row[t].status = "running" /\ row'[t].status = "paused",
         \A t \in Tasks \ S : row'[t].status = row[t].status
  PROVE  AbstractStep
  <1>1. Active' = Active
    BY SameActive
  <1>2. Status' = [t \in Tasks |-> IF t \in S THEN "paused" ELSE Status[t]]
    BY DEF Status
  <1>3. Lifecycle!Adopt(S)
    BY <1>1, <1>2 DEF Lifecycle!Adopt, Status, Active
  <1>4. QED BY <1>3, AbstractActions

(* A paused task is given up on, or claimed by a scan that cannot run it. *)
LEMMA PausedStep ==
  ASSUME SameExecution, NEW t \in Tasks, row[t].status = "paused", Executing(t) = {},
         StatusSet(t, "failed") \/ StatusSet(t, "running")
  PROVE  AbstractStep
  <1>1. Active' = Active /\ t \notin Active
    BY SameActive DEF Active
  <1>2. CASE StatusSet(t, "failed")
    <2>1. Status' = [Status EXCEPT ![t] = "failed"]
      BY <1>2, StatusUpdate
    <2>2. Lifecycle!GiveUp(t)
      BY <1>1, <2>1 DEF Lifecycle!GiveUp, Status, Active
    <2>3. QED BY <2>2, AbstractActions
  <1>3. CASE StatusSet(t, "running")
    <2>1. Status' = [Status EXCEPT ![t] = "running"]
      BY <1>3, StatusUpdate
    <2>2. Lifecycle!Condemn(t)
      BY <1>1, <2>1 DEF Lifecycle!Condemn, Status, Active
    <2>3. QED BY <2>2, AbstractActions
  <1>4. QED BY <1>2, <1>3

------------------------------------------------------------------------------
(* What the actions of the executor are in the abstract. *)

LEMMA FreshRunSteps ==
  ASSUME SingleHost, TypeOK, SafetyInv, SettleInv, NEW r \in Runs,
         InsertRow(r) \/ Claim(r)
  PROVE  AbstractStep
  <1> DEFINE t == run[r].task
  <1>1. /\ run[r].phase \in {"spawning", "claiming"}
        /\ Moved(r, "stored")
    BY MovedRun DEF InsertRow, Claim
  <1>2. t \in Tasks /\ row[t] \in Row
    BY <1>1 DEF SafetyInv, RunsInv, TypeOK
  <1>3. Executing(t) = {}
    BY <1>1 DEF SafetyInv, RunsInv, Executing, LivePhases
  <1>4. StatusSet(t, "running") /\ row[t].status \in {"absent", "paused"}
    <2>1. CASE InsertRow(r)
      <3>1. row' = [row EXCEPT ![t] = FreshRow] /\ row[t].status = "absent"
        BY <2>1, <1>1 DEF InsertRow, SettleInv, FreshInv
      <3>2. QED BY <3>1, <1>2 DEF StatusSet, FreshRow, AbsentRow, TypeOK
    <2>2. CASE Claim(r)
      <3>1. row' = [row EXCEPT ![t] = ClaimedRow(row[t])] /\ row[t].status = "paused"
        BY <2>2 DEF Claim, Claimable
      <3>2. QED BY <3>1, <1>2, ClaimedShape DEF StatusSet, TypeOK
    <2>3. QED BY <2>1, <2>2
  <1>5. /\ run'[r].task = t /\ run'[r].phase = "stored"
        /\ run[r].phase \notin ExecPhases
        /\ \A q \in Runs \ {r} : run'[q] = run[q]
    BY <1>1 DEF Moved, ExecPhases, LivePhases
  <1>6. QED BY <1>2, <1>3, <1>4, <1>5, StartStep

LEMMA PersistStep ==
  ASSUME TypeOK, SafetyInv, SettleInv, NEW r \in Runs,
         Persist(r)
  PROVE  AbstractStep
  <1> DEFINE t == run[r].task
             v == run[r].verdict
  <1>1. run[r].phase = "decided" /\ Moved(r, "persisted")
    BY MovedRun DEF Persist
  <1>2. t \in Tasks /\ row[t] \in Row /\ v \in Verdicts
    BY <1>1 DEF SafetyInv, RunsInv, TypeOK, RunState
  <1>3. Executing(t) = {} /\ SameExecution
    <2>1. Executing(t) = {}
      BY <1>1 DEF SafetyInv, RunsInv, Executing, LivePhases
    <2>2. SameExecution
      BY <1>1 DEF SameExecution, NoneStarts, Moved, ExecPhases, LivePhases
    <2>3. QED BY <2>1, <2>2
  <1>4. /\ row'[t] = Written(row[t], v)
        /\ \A u \in Tasks : u # t => row'[u] = row[u]
    BY <1>2 DEF Persist, TypeOK
  <1>5. \/ row[t].status = "running"
        \/ Terminal(row[t]) /\ (t \in Blocking \/ Sweeper)
    BY <1>1 DEF SettleInv, VerdictInv
  <1>6. row[t].status # "absent"
    BY <1>5 DEF Terminal
  <1>7. CASE v.status = "paused" /\ row[t].status # "running"
    <2>1. SameStatus
      BY <1>2, <1>4, <1>7, WrittenShape DEF SameStatus
    <2>2. QED BY <2>1, <1>3, StopStep DEF SameExecution
  <1>8. CASE v.status = "paused" /\ row[t].status = "running"
    <2>1. StatusSet(t, "paused")
      BY <1>2, <1>4, <1>8, WrittenShape DEF StatusSet
    <2>2. QED BY <2>1, <1>2, <1>3, <1>8, SettleStep
  <1>9. CASE v.status # "paused"
    <2>1. Written(row[t], v).status \in {"done", "failed"}
      BY <1>2, <1>6, <1>9, WrittenShape
    <2>2. PICK s \in {"done", "failed"} : StatusSet(t, s)
      BY <2>1, <1>4 DEF StatusSet
    <2>3. QED BY <2>2, <1>2, <1>3, <1>5, SettleStep
  <1>10. QED BY <1>7, <1>8, <1>9

LEMMA FinishOverdueStep ==
  ASSUME TypeOK, SafetyInv, NEW t \in Tasks,
         FinishOverdue(t)
  PROVE  AbstractStep
  <1>1. UNCHANGED run /\ t \in Blocking /\ row[t] \in Row
    BY DEF FinishOverdue, SafetyInv, CallerInv, TypeOK
  <1>2. SameExecution
    BY <1>1 DEF SameExecution, NoneStarts
  <1>3. /\ row'[t] = Finished(row[t], "failed", "timed_out")
        /\ \A u \in Tasks : u # t => row'[u] = row[u]
    BY DEF FinishOverdue, TypeOK
  <1>4. CASE row[t].status = "absent"
    <2>1. SameStatus
      BY <1>3, <1>4 DEF SameStatus, Finished
    <2>2. QED BY <2>1, <1>2, StopStep DEF SameExecution
  <1>5. CASE row[t].status # "absent"
    <2>1. row'[t].status = "failed"
      BY <1>1, <1>3, <1>5, FinishedShape
    <2>2. {t} \in SUBSET Tasks
      OBVIOUS
    <2>3. QED BY <2>1, <2>2, <1>1, <1>2, <1>3, <1>5, OverruleStep
  <1>6. QED BY <1>4, <1>5

LEMMA RecoverStuckStep ==
  ASSUME TypeOK, NEW stuck \in SUBSET Tasks,
         RecoverStuck(stuck)
  PROVE  AbstractStep
  <1>1. UNCHANGED run /\ Sweeper
    BY DEF RecoverStuck
  <1>2. SameExecution
    BY <1>1 DEF SameExecution, NoneStarts
  <1>3. \A w \in Row : SweptRow(w).status = "failed"
    BY DEF SweptRow, Row
  <1>4. \A t \in Tasks : row'[t] = IF t \in stuck THEN SweptRow(row[t]) ELSE row[t]
    BY DEF RecoverStuck
  <1>5. /\ \A t \in stuck : row[t].status # "absent" /\ row'[t].status = "failed"
        /\ \A t \in Tasks \ stuck : row'[t].status = row[t].status
    BY <1>3, <1>4 DEF RecoverStuck, TypeOK
  <1>6. QED BY <1>1, <1>2, <1>5, OverruleStep

LEMMA AdoptOrphansStep ==
  ASSUME TypeOK, SafetyInv, NEW e \in Executors,
         AdoptOrphans(e)
  PROVE  AbstractStep
  <1> DEFINE S == {t \in Tasks : row[t].status = "running"}
  <1>1. /\ UNCHANGED run
        /\ \A q \in Runs : run[q].phase = "free"
        /\ \A t \in Tasks : row'[t] = FoldedRow(row[t])
    BY DEF AdoptOrphans, SafetyInv, BootInv
  <1>2. SameExecution
    BY <1>1 DEF SameExecution, NoneStarts
  <1>3. Active = {}
    BY <1>1 DEF Active, Executing, LivePhases
  <1>4. \A w \in Row : FoldedRow(w).status = IF w.status = "running" THEN "paused" ELSE w.status
    BY DEF FoldedRow, PausedRow, Row
  <1>5. /\ \A t \in S : row[t].status = "running" /\ row'[t].status = "paused"
        /\ \A t \in Tasks \ S : row'[t].status = row[t].status
    BY <1>1, <1>4 DEF TypeOK
  <1>6. S \in SUBSET Tasks
    OBVIOUS
  <1>7. QED BY <1>2, <1>3, <1>5, <1>6, AdoptStep

LEMMA LegacySteps ==
  ASSUME TypeOK, SafetyInv, NEW e \in Executors,
         ClaimLegacy(e) \/ FinishLegacy(e)
  PROVE  AbstractStep
  <1> DEFINE t == current[e]
  <1>1. UNCHANGED run /\ t \in Legacy /\ t \in Tasks
    BY ExecutorAssumption DEF ClaimLegacy, FinishLegacy
  <1>2. row[t] \in Row
    BY <1>1 DEF TypeOK
  <1>3. SameExecution
    BY <1>1 DEF SameExecution, NoneStarts
  <1>4. Executing(t) = {}
    BY <1>1 DEF SafetyInv, CallerInv, RunsOf, Executing, LivePhases
  <1>5. CASE FinishLegacy(e)
    <2>1. /\ row[t].status = "running"
          /\ row'[t] = Finished(row[t], "failed", "not_resumable")
          /\ \A u \in Tasks : u # t => row'[u] = row[u]
      BY <1>5, <1>1 DEF FinishLegacy, TypeOK
    <2>2. StatusSet(t, "failed")
      BY <2>1, <1>2, FinishedShape DEF StatusSet
    <2>3. QED BY <2>1, <2>2, <1>1, <1>3, <1>4, SettleStep
  <1>6. CASE ClaimLegacy(e) /\ ~Claimable(row[t], MaxResumes)
    <2>1. SameStatus
      BY <1>6 DEF ClaimLegacy, SameStatus
    <2>2. QED BY <2>1, <1>3, StopStep DEF SameExecution
  <1>7. CASE ClaimLegacy(e) /\ Claimable(row[t], MaxResumes)
    <2>1. /\ row[t].status = "paused"
          /\ row'[t] = ClaimedRow(row[t])
          /\ \A u \in Tasks : u # t => row'[u] = row[u]
      BY <1>7, <1>1 DEF ClaimLegacy, Claimable, TypeOK
    <2>2. StatusSet(t, "running")
      BY <2>1, <1>2, ClaimedShape DEF StatusSet
    <2>3. QED BY <2>1, <2>2, <1>1, <1>3, <1>4, PausedStep
  <1>8. QED BY <1>5, <1>6, <1>7

LEMMA ClaimRejectedStep ==
  ASSUME TypeOK, SafetyInv, NEW r \in Runs,
         ClaimRejected(r)
  PROVE  AbstractStep
  <1> DEFINE t == run[r].task
  <1>1. run[r].phase = "claiming" /\ Freed({r})
    BY DEF ClaimRejected, Release, Freed, TypeOK
  <1>2. t \in Tasks /\ row[t] \in Row
    BY <1>1 DEF SafetyInv, RunsInv, TypeOK
  <1>3. SameExecution
    BY <1>1 DEF SameExecution, NoneStarts, Freed, FreeRun, ExecPhases, LivePhases
  <1>4. /\ row'[t] = IF CapExhausted(row[t], MaxResumes)
                     THEN Finished(row[t], "failed", "resume_limit") ELSE row[t]
        /\ \A u \in Tasks : u # t => row'[u] = row[u]
    BY <1>2 DEF ClaimRejected, TypeOK
  <1>5. CASE ~CapExhausted(row[t], MaxResumes)
    <2>1. SameStatus
      BY <1>4, <1>5 DEF SameStatus
    <2>2. QED BY <2>1, <1>3, StopStep DEF SameExecution
  <1>6. CASE CapExhausted(row[t], MaxResumes)
    <2>1. row[t].status = "paused" /\ StatusSet(t, "failed")
      BY <1>2, <1>4, <1>6, FinishedShape DEF CapExhausted, StatusSet
    <2>2. Executing(t) = {}
      BY <1>1 DEF SafetyInv, RunsInv, Executing, LivePhases
    <2>3. QED BY <2>1, <2>2, <1>2, <1>3, PausedStep
  <1>7. QED BY <1>5, <1>6

LEMMA QuietStep ==
  ASSUME UNCHANGED row, NoneStarts
  PROVE  AbstractStep
  <1>1. SameStatus
    BY DEF SameStatus
  <1>2. QED BY <1>1, StopStep

LEMMA NoStart ==
  /\ SameRuns => NoneStarts
  /\ \A r \in Runs, p \in RunPhases :
       Moved(r, p) /\ (p \in ExecPhases => run[r].phase \in ExecPhases) => NoneStarts
  /\ \A S \in SUBSET Runs : Freed(S) => NoneStarts
  BY DEF SameRuns, Moved, Freed, FreeRun, NoneStarts, ExecPhases, LivePhases

LEMMA CallerSteps ==
  ASSUME TypeOK, NEW t \in Tasks,
         \/ Request(t) \/ RejectSpawn(t) \/ UserCancel(t) \/ WaitTimesOut(t)
         \/ LoadAfterTimeout(t) \/ PollReturns(t) \/ WaiterLosesSender(t)
  PROVE  AbstractStep
  <1>1. UNCHANGED row
    BY DEF Request, RejectSpawn, UserCancel, WaitTimesOut, LoadAfterTimeout, PollReturns,
           WaiterLosesSender, store
  <1>2. SameRuns
    <2>1. UNCHANGED run => SameRuns
      BY DEF SameRuns
    <2>2. QED BY <2>1, DoCancelRuns
          DEF Request, RejectSpawn, UserCancel, WaitTimesOut, LoadAfterTimeout, PollReturns,
              WaiterLosesSender
  <1>3. QED BY <1>1, <1>2, NoStart, QuietStep

(* A permit starts a run that has no row to execute yet. *)
LEMMA PermitSteps ==
  ASSUME TypeOK, NEW r \in Runs,
         (\E t \in Tasks : AcquirePermit(t, r)) \/ (\E e \in Executors : ResumePermit(e, r))
  PROVE  AbstractStep
  <1>1. /\ UNCHANGED row
        /\ \A q \in Runs \ {r} : run'[q] = run[q]
        /\ run'[r].phase \in {"spawning", "claiming"}
    <2>1. ASSUME NEW t \in Tasks, AcquirePermit(t, r)
          PROVE  /\ UNCHANGED row
                 /\ \A q \in Runs \ {r} : run'[q] = run[q]
                 /\ run'[r].phase = "spawning"
      BY <2>1 DEF AcquirePermit, TypeOK, FreeRun, store
    <2>2. ASSUME NEW e \in Executors, ResumePermit(e, r)
          PROVE  /\ UNCHANGED row
                 /\ \A q \in Runs \ {r} : run'[q] = run[q]
                 /\ run'[r].phase = "claiming"
      BY <2>2 DEF ResumePermit, TypeOK, FreeRun, store
    <2>3. QED BY <2>1, <2>2
  <1>2. NoneStarts
    BY <1>1 DEF NoneStarts, ExecPhases, LivePhases
  <1>3. QED BY <1>1, <1>2, QuietStep

LEMMA DropStep ==
  ASSUME TypeOK, NEW t \in Tasks,
         DropCaller(t)
  PROVE  AbstractStep
  <1>1. UNCHANGED row
    BY DEF DropCaller, store
  <1>2. \E S \in SUBSET Runs : run' = [q \in Runs |-> IF q \in S THEN FreeRun ELSE run[q]]
    <2> DEFINE launching == {q \in Runs : /\ caller[t] = "launching"
                                          /\ run[q].task = t
                                          /\ run[q].origin # "resume"
                                          /\ run[q].phase \in {"spawning", "stored", "handled"}}
    <2>1. run' = [q \in Runs |-> IF q \in launching THEN FreeRun ELSE run[q]]
      BY DEF DropCaller
    <2>2. launching \in SUBSET Runs
      OBVIOUS
    <2>3. QED BY <2>1, <2>2
  <1>3. PICK S \in SUBSET Runs : Freed(S)
    BY <1>2 DEF Freed
  <1>4. QED BY <1>1, <1>3, NoStart, QuietStep

(* A run moves on without leaving its task, or lets go of it. *)
LEMMA RunSteps ==
  ASSUME TypeOK, NEW r \in Runs,
         \/ RegisterHandle(r) \/ JoinTask(r) \/ ObserveCancel(r) \/ TimeoutFires(r)
         \/ DriveEnds(r) \/ PersistFails(r)
  PROVE  AbstractStep
  <1>1. UNCHANGED row
    BY DEF RegisterHandle, JoinTask, ObserveCancel, TimeoutFires, DriveEnds, DrainEnds,
           CancelDrainEnds, Decide, PersistFails, store
  <1>2. \E p \in {"handled", "drain", "cancelling", "decided", "persisted"} :
          Moved(r, p) /\ (p \in ExecPhases => run[r].phase \in ExecPhases)
    <2>1. CASE RegisterHandle(r)
      BY <2>1, MovedRun DEF RegisterHandle, ExecPhases
    <2>2. CASE JoinTask(r)
      BY <2>2, MovedRun DEF JoinTask, ExecPhases
    <2>3. CASE ObserveCancel(r)
      BY <2>3, MovedRun DEF ObserveCancel, ExecPhases, LivePhases
    <2>4. CASE PersistFails(r)
      BY <2>4, MovedRun DEF PersistFails, ExecPhases, LivePhases
    <2>5. CASE TimeoutFires(r)
      <3>1. Moved(r, "decided")
        BY <2>5, DecidedRun DEF TimeoutFires
      <3>2. QED BY <3>1 DEF ExecPhases, LivePhases
    <2>6. CASE DriveEnds(r)
      <3>1. Moved(r, "decided")
        BY <2>6, DecidedRun DEF DriveEnds, DrainEnds, CancelDrainEnds, Decide
      <3>2. QED BY <3>1 DEF ExecPhases, LivePhases
    <2>7. QED BY <2>1, <2>2, <2>3, <2>4, <2>5, <2>6
  <1>3. NoneStarts
    BY <1>2, NoStart DEF RunPhases
  <1>4. QED BY <1>1, <1>3, QuietStep

LEMMA EndSteps ==
  ASSUME TypeOK, NEW r \in Runs,
         InsertFails(r) \/ Retire(r) \/ ResumeOneFails(r)
  PROVE  AbstractStep
  <1>1. UNCHANGED row
    BY DEF InsertFails, Retire, ResumeOneFails, store
  <1>2. Freed({r})
    BY DEF InsertFails, Retire, ResumeOneFails, Release, Freed, TypeOK
  <1>3. {r} \in SUBSET Runs
    OBVIOUS
  <1>4. QED BY <1>1, <1>2, <1>3, NoStart, QuietStep

LEMMA ScanSteps ==
  ASSUME NEW e \in Executors,
         \/ ScanPaused(e) \/ ScanDone(e) \/ ResumeFails(e) \/ LegacyFails(e) \/ RejectResume(e)
         \/ \E t \in Tasks : PickResume(e, t)
  PROVE  AbstractStep
  <1>1. UNCHANGED <<row, run>>
    BY DEF ScanPaused, ScanDone, ResumeFails, LegacyFails, RejectResume, PickResume, store
  <1>2. QED BY <1>1, QuietStep DEF NoneStarts

LEMMA ShutdownSteps ==
  ASSUME TypeOK, NEW e \in Executors, NEW c \in Calls,
         ShutdownFires(e, c) \/ ShutdownStep(e, c)
  PROVE  AbstractStep
  <1>1. UNCHANGED row
    BY DEF ShutdownFires, ShutdownStep, ShutdownTakes, ShutdownDrained, ForceCancelStragglers,
           ShutdownAborts, store
  <1>2. NoneStarts
    <2>1. CASE ShutdownTakes(e, c)
      BY <2>1, NoStart DEF ShutdownTakes, SameRuns, TypeOK, RunState
    <2>2. CASE ForceCancelStragglers(e, c)
      BY <2>2, NoStart DEF ForceCancelStragglers, SameRuns, TypeOK, RunState
    <2>3. CASE ShutdownFires(e, c) \/ ShutdownDrained(e, c)
      BY <2>3, NoStart DEF ShutdownFires, ShutdownDrained, SameRuns
    <2>4. CASE ShutdownAborts(e, c)
      <3>1. Freed(Taken(e, c)) /\ Taken(e, c) \in SUBSET Runs
        BY <2>4 DEF ShutdownAborts, Freed, Taken
      <3>2. QED BY <3>1 DEF NoneStarts, Freed, FreeRun, ExecPhases, LivePhases
    <2>5. QED BY <2>1, <2>2, <2>3, <2>4 DEF ShutdownStep
  <1>3. QED BY <1>1, <1>2, QuietStep

(* Every step of the executor is a step of the lifecycle, or leaves it alone. *)
LEMMA StepRefines ==
  SingleHost /\ TypeOK /\ SafetyInv /\ SettleInv /\ [Next]_vars => AbstractStep
  <1> SUFFICES ASSUME SingleHost, TypeOK, SafetyInv, SettleInv, [Next]_vars PROVE AbstractStep
    OBVIOUS
  <1>1. CASE UNCHANGED vars
    BY <1>1, QuietStep DEF vars, NoneStarts
  <1>2. ASSUME NEW t \in Tasks,
               CallerStep(t) \/ Request(t) \/ UserCancel(t) \/ DropCaller(t) \/ WaitTimesOut(t)
        PROVE  AbstractStep
    BY <1>2, CallerSteps, PermitSteps, DropStep, FinishOverdueStep DEF CallerStep
  <1>3. ASSUME NEW r \in Runs,
               \/ LaunchStep(r) \/ ClaimStep(r) \/ DriveStep(r)
               \/ InsertFails(r) \/ PersistFails(r) \/ ResumeOneFails(r)
        PROVE  AbstractStep
    BY <1>3, FreshRunSteps, RunSteps, EndSteps, PersistStep, ClaimRejectedStep
    DEF LaunchStep, ClaimStep, DriveStep
  <1>4. ASSUME NEW e \in Executors, ResumeStep(e) \/ ResumeFails(e) \/ LegacyFails(e)
        PROVE  AbstractStep
    BY <1>4, AdoptOrphansStep, LegacySteps, ScanSteps, PermitSteps DEF ResumeStep
  <1>5. ASSUME NEW e \in Executors, NEW c \in Calls, ShutdownStep(e, c) \/ ShutdownFires(e, c)
        PROVE  AbstractStep
    BY <1>5, ShutdownSteps
  <1>6. ASSUME NEW stuck \in SUBSET Tasks, RecoverStuck(stuck)
        PROVE  AbstractStep
    BY <1>6, RecoverStuckStep
  <1>7. CASE Restart
    <2>1. UNCHANGED row /\ \A q \in Runs : run'[q].phase = "free"
      BY <1>7 DEF Restart, FreeRun
    <2>2. QED BY <2>1, QuietStep DEF NoneStarts, ExecPhases, LivePhases
  <1>8. QED BY <1>1, <1>2, <1>3, <1>4, <1>5, <1>6, <1>7 DEF Next, Environment, Fault

LEMMA InitRefines == Init => Lifecycle!Init
  <1> SUFFICES ASSUME Init PROVE Lifecycle!Init
    OBVIOUS
  <1>1. Active = {}
    BY DEF Init, FreeRun, Active, Executing, LivePhases
  <1>2. \A t \in Tasks : row[t].status \in {"absent", "running"}
    BY DEF Init, FreshRow, AbsentRow
  <1>3. QED BY <1>1, <1>2 DEF Lifecycle!Init, Active

(* The task executors implement the lifecycle each task is promised: one     *)
(* run at a time behind a Running row, a row settled only once its run let   *)
(* go, no finished task started again, whatever cancels, times out, shuts    *)
(* down or crashes (drive_one_task, resume_paused, shutdown).                *)
THEOREM ExecutorImplementsLifecycle == SingleHost /\ Spec => ImplementsLifecycle
  <1>1. Init => Lifecycle!Init
    BY InitRefines
  <1>2. SingleHost /\ TypeOK /\ SafetyInv /\ SettleInv /\ [Next]_vars
          => [Lifecycle!Next]_(Lifecycle!vars)
    BY StepRefines DEF AbstractStep
  <1>3. SingleHost /\ [Next]_vars => SingleHost'
    BY DEF SingleHost
  <1>4. QED BY <1>1, <1>2, <1>3, TypesHold, SafetyInvariant, SettleInvariant, PTL
        DEF Spec, ImplementsLifecycle, Lifecycle!Spec

------------------------------------------------------------------------------
(* The walk of tree_depth (NestingIsBounded, OrderInv).  Its definition is a *)
(* recursive function on 0 .. MaxDepthWalk: that it exists, and where it     *)
(* leads, is shown by induction over the links followed.                     *)

(* A set that holds zero, and the successor of each of its members below m, *)
(* holds every number up to m.                                              *)
LEMMA UpTo ==
  ASSUME NEW m \in Nat, NEW S, 0 \in S,
         \A n \in 0 .. m : n < m /\ n \in S => n + 1 \in S
  PROVE  0 .. m \subseteq S
  <1> DEFINE Out == {n \in 0 .. m : n \notin S}
  <1>1. SUFFICES ASSUME Out # {} PROVE FALSE
    OBVIOUS
  <1>2. Out \subseteq Nat
    OBVIOUS
  <1>3. PICK x \in Out : \A y \in Out : ~(<<y, x>> \in OpToRel(<, Nat))
    <2> HIDE DEF Out
    <2> QED BY <1>1, <1>2, NatLessThanWellFounded, WFMin
  <1>4. x # 0 /\ x \in Nat
    OBVIOUS
  <1>5. x - 1 \notin Out
    <2>1. x - 1 \in Nat /\ x - 1 < x
      BY <1>4
    <2>2. <<x - 1, x>> \in OpToRel(<, Nat)
      BY <2>1, <1>4 DEF OpToRel
    <2>3. QED BY <2>2, <1>3
  <1>6. x \in 0 .. m /\ x \notin S
    OBVIOUS
  <1>7. x - 1 \in 0 .. m /\ x - 1 < m /\ (x - 1) + 1 = x
    BY <1>4, <1>6
  <1>8. QED BY <1>5, <1>6, <1>7

(* One link of the walk. *)
Link(sel, p) == IF p \in sel THEN ParentOf[p] ELSE NoTask

(* f is the walk from t as far as link m. *)
Walks(f, sel, t, m) ==
  f = [n \in 0 .. m |-> IF n = 0 THEN t ELSE Link(sel, f[n - 1])]

LEMMA WalkExists ==
  ASSUME NEW sel, NEW t
  PROVE  \E f : Walks(f, sel, t, MaxDepthWalk)
  <1> DEFINE S == {m \in Nat : \E f : Walks(f, sel, t, m)}
  <1>1. 0 \in S
    <2>1. [n \in 0 .. 0 |-> t] =
            [n \in 0 .. 0 |-> IF n = 0 THEN t ELSE Link(sel, [i \in 0 .. 0 |-> t][n - 1])]
      OBVIOUS
    <2>2. QED BY <2>1 DEF Walks
  <1>2. ASSUME NEW m \in 0 .. MaxDepthWalk, m < MaxDepthWalk, m \in S
        PROVE  m + 1 \in S
    <2>1. PICK f : Walks(f, sel, t, m)
      BY <1>2
    <2> DEFINE g == [n \in 0 .. m + 1 |-> IF n = 0 THEN t ELSE Link(sel, f[n - 1])]
    <2>2. m \in Nat /\ m + 1 \in Nat
      BY DEF MaxDepthWalk
    <2>3. ASSUME NEW n \in 0 .. m PROVE f[n] = g[n]
      <3>1. n \in 0 .. m + 1
        BY <2>2
      <3>2. f[n] = IF n = 0 THEN t ELSE Link(sel, f[n - 1])
        BY <2>1 DEF Walks
      <3>3. QED BY <3>1, <3>2
    <2>4. ASSUME NEW n \in 0 .. m + 1, n # 0 PROVE f[n - 1] = g[n - 1]
      <3>1. n - 1 \in 0 .. m
        BY <2>2, <2>4
      <3>2. QED BY <2>3, <3>1
    <2>5. g = [n \in 0 .. m + 1 |-> IF n = 0 THEN t ELSE Link(sel, g[n - 1])]
      <3> HIDE DEF g
      <3>1. ASSUME NEW n \in 0 .. m + 1
            PROVE  (IF n = 0 THEN t ELSE Link(sel, f[n - 1])) =
                     (IF n = 0 THEN t ELSE Link(sel, g[n - 1]))
        BY <2>4
      <3>2. g = [n \in 0 .. m + 1 |-> IF n = 0 THEN t ELSE Link(sel, f[n - 1])]
        BY DEF g
      <3>3. QED BY <3>1, <3>2
    <2>6. Walks(g, sel, t, m + 1)
      BY <2>5 DEF Walks
    <2>7. QED BY <2>2, <2>6
  <1>3. MaxDepthWalk \in Nat
    BY DEF MaxDepthWalk
  <1>4. 0 .. MaxDepthWalk \subseteq S
    <2> HIDE DEF S
    <2> QED BY <1>1, <1>2, <1>3, UpTo
  <1>5. MaxDepthWalk \in S
    BY <1>3, <1>4
  <1>6. QED BY <1>5

LEMMA WalkUnfolds ==
  ASSUME NEW sel, NEW t, NEW n \in 0 .. MaxDepthWalk
  PROVE  /\ AncestorWalk(sel, t)[0] = t
         /\ n < MaxDepthWalk =>
              AncestorWalk(sel, t)[n + 1] = Link(sel, AncestorWalk(sel, t)[n])
  <1> DEFINE walk == CHOOSE f : Walks(f, sel, t, MaxDepthWalk)
  <1>1. Walks(walk, sel, t, MaxDepthWalk)
    BY WalkExists
  <1>2. AncestorWalk(sel, t) = walk
    BY DEF AncestorWalk, Walks, Link
  <1> HIDE DEF walk
  <1>3. MaxDepthWalk \in Nat /\ 0 \in 0 .. MaxDepthWalk
    BY DEF MaxDepthWalk
  <1>4. \A k \in 0 .. MaxDepthWalk : walk[k] = IF k = 0 THEN t ELSE Link(sel, walk[k - 1])
    BY <1>1 DEF Walks
  <1>5. walk[0] = t
    BY <1>3, <1>4
  <1>6. ASSUME n < MaxDepthWalk PROVE walk[n + 1] = Link(sel, walk[n])
    <2>1. n + 1 \in 0 .. MaxDepthWalk /\ n + 1 # 0 /\ (n + 1) - 1 = n
      BY <1>3, <1>6
    <2>2. QED BY <1>4, <2>1
  <1>7. QED BY <1>2, <1>5, <1>6

(* The walk from a child is the walk from its parent, one link later. *)
LEMMA ChildWalk ==
  ASSUME NEW sel, NEW t, NEW u \in sel, ParentOf[u] = t
  PROVE  \A n \in 0 .. MaxDepthWalk - 1 :
           AncestorWalk(sel, u)[n + 1] = AncestorWalk(sel, t)[n]
  <1> DEFINE up == AncestorWalk(sel, u)
             at == AncestorWalk(sel, t)
             m == MaxDepthWalk - 1
             S == {n \in Nat : up[n + 1] = at[n]}
  <1>1. m \in Nat /\ m + 1 = MaxDepthWalk /\ 0 \in 0 .. MaxDepthWalk /\ 0 < MaxDepthWalk
    BY DEF MaxDepthWalk
  <1>2. 0 \in S
    <2>1. up[0 + 1] = Link(sel, up[0]) /\ up[0] = u /\ at[0] = t
      BY <1>1, WalkUnfolds
    <2>2. QED BY <2>1 DEF Link
  <1>3. ASSUME NEW n \in 0 .. m, n < m, n \in S
        PROVE  n + 1 \in S
    <2>1. /\ n \in 0 .. MaxDepthWalk /\ n < MaxDepthWalk
          /\ n + 1 \in 0 .. MaxDepthWalk /\ n + 1 < MaxDepthWalk
          /\ n + 1 \in Nat
      BY <1>1, <1>3
    <2>2. up[n + 1] = at[n]
      BY <1>3
    <2>3. at[n + 1] = Link(sel, at[n]) /\ up[(n + 1) + 1] = Link(sel, up[n + 1])
      BY <2>1, WalkUnfolds
    <2>4. QED BY <2>1, <2>2, <2>3
  <1>4. 0 .. m \subseteq S
    <2> HIDE DEF S, m
    <2> QED BY <1>1, <1>2, <1>3, UpTo
  <1>5. QED BY <1>4

(* With bounded nesting the walk from a task that is itself a parent has    *)
(* left the tasks before its last link.                                     *)
LEMMA WalkEnds ==
  ASSUME NEW level \in [Tasks -> 1 .. MaxDepthWalk + 1],
         \A x \in Tasks : ParentOf[x] # NoTask => level[ParentOf[x]] < level[x],
         NEW sel \in SUBSET Tasks, NEW t \in Tasks, level[t] <= MaxDepthWalk
  PROVE  AncestorWalk(sel, t)[MaxDepthWalk] = NoTask
  <1> DEFINE at == AncestorWalk(sel, t)
             Low(n) == at[n] # NoTask => at[n] \in Tasks /\ level[at[n]] <= MaxDepthWalk - n
             S == {n \in Nat : Low(n)}
  <1>1. MaxDepthWalk \in Nat /\ 0 \in 0 .. MaxDepthWalk
    BY DEF MaxDepthWalk
  <1>2. 0 \in S
    <2>1. at[0] = t
      BY <1>1, WalkUnfolds
    <2>2. MaxDepthWalk - 0 = MaxDepthWalk
      BY <1>1
    <2>3. QED BY <2>1, <2>2
  <1>3. ASSUME NEW n \in 0 .. MaxDepthWalk, n < MaxDepthWalk, n \in S
        PROVE  n + 1 \in S
    <2>1. Low(n)
      BY <1>3
    <2>2. at[n + 1] = Link(sel, at[n])
      BY <1>3, WalkUnfolds
    <2>3. n \in Nat /\ n + 1 \in Nat
      BY <1>1
    <2>4. ASSUME at[n + 1] # NoTask
          PROVE  at[n + 1] \in Tasks /\ level[at[n + 1]] <= MaxDepthWalk - (n + 1)
      <3>1. at[n] \in sel /\ at[n + 1] = ParentOf[at[n]]
        BY <2>2, <2>4 DEF Link
      <3>2. at[n] \in Tasks /\ at[n] # NoTask
        BY <3>1, ExecutorAssumption
      <3>3. at[n + 1] \in Tasks
        BY <3>1, <3>2, <2>4, ExecutorAssumption
      <3>4. level[at[n + 1]] < level[at[n]] /\ level[at[n]] <= MaxDepthWalk - n
        BY <3>1, <3>2, <2>1, <2>4
      <3>5. level[at[n + 1]] \in Nat /\ level[at[n]] \in Nat
        <4>1. \A x \in Tasks : level[x] \in 1 .. MaxDepthWalk + 1
          OBVIOUS
        <4>2. QED BY <4>1, <3>2, <3>3, <1>1
      <3> HIDE DEF at
      <3>6. QED BY <1>1, <2>3, <3>3, <3>4, <3>5
    <2> HIDE DEF at
    <2>5. QED BY <2>3, <2>4
  <1>4. 0 .. MaxDepthWalk \subseteq S
    <2> HIDE DEF S
    <2> QED BY <1>1, <1>2, <1>3, UpTo
  <1>5. Low(MaxDepthWalk)
    BY <1>1, <1>4
  <1>6. ASSUME at[MaxDepthWalk] # NoTask PROVE FALSE
    <2>1. at[MaxDepthWalk] \in Tasks /\ level[at[MaxDepthWalk]] <= MaxDepthWalk - MaxDepthWalk
      BY <1>5, <1>6
    <2>2. level[at[MaxDepthWalk]] \in 1 .. MaxDepthWalk + 1
      BY <2>1
    <2> HIDE DEF at
    <2>3. QED BY <2>1, <2>2, <1>1
  <1>7. QED BY <1>6

LEMMA DepthType ==
  ASSUME NEW sel, NEW t
  PROVE  TreeDepth(sel, t) \in Nat
  <1> DEFINE A == {n \in 1 .. MaxDepthWalk : AncestorWalk(sel, t)[n] # NoTask}
  <1>1. IsFiniteSet(1 .. MaxDepthWalk)
    <2>1. 1 \in Int /\ MaxDepthWalk \in Int
      BY DEF MaxDepthWalk
    <2>2. QED BY <2>1, FS_Interval
  <1>2. A \subseteq 1 .. MaxDepthWalk
    OBVIOUS
  <1>3. TreeDepth(sel, t) = Cardinality(A)
    BY DEF TreeDepth
  <1> HIDE DEF A
  <1>4. QED BY <1>1, <1>2, <1>3, FS_Subset, FS_CardinalityType

(* A child of a selected task lies one level deeper than the task. *)
LEMMA ChildrenAreDeeper ==
  ASSUME NestingIsBounded, NEW sel \in SUBSET Tasks,
         NEW t \in Tasks, NEW u \in sel, ParentOf[u] = t
  PROVE  TreeDepth(sel, t) < TreeDepth(sel, u)
  <1> DEFINE up == AncestorWalk(sel, u)
             at == AncestorWalk(sel, t)
             A == {n \in 1 .. MaxDepthWalk : at[n] # NoTask}
             B == {n \in 1 .. MaxDepthWalk : up[n] # NoTask}
             f == [n \in A |-> n + 1]
  <1>1. MaxDepthWalk \in Nat /\ MaxDepthWalk >= 1
    BY DEF MaxDepthWalk
  <1>2. \A n \in 0 .. MaxDepthWalk - 1 : up[n + 1] = at[n]
    BY ChildWalk
  <1>3. at[MaxDepthWalk] = NoTask
    <2>1. PICK level \in [Tasks -> 1 .. MaxDepthWalk + 1] :
                 \A x \in Tasks : ParentOf[x] # NoTask => level[ParentOf[x]] < level[x]
      BY DEF NestingIsBounded
    <2>2. u \in Tasks /\ t # NoTask
      BY ExecutorAssumption
    <2>3. level[t] < level[u] /\ level[t] \in 1 .. MaxDepthWalk + 1
          /\ level[u] \in 1 .. MaxDepthWalk + 1
      BY <2>1, <2>2
    <2>4. level[t] <= MaxDepthWalk
      BY <2>3, <1>1
    <2>5. QED BY <2>1, <2>4, WalkEnds
  <1>4. 1 \in B
    <2>1. up[0 + 1] = at[0] /\ at[0] = t /\ t # NoTask
      BY <1>1, <1>2, WalkUnfolds, ExecutorAssumption
    <2>2. QED BY <2>1, <1>1
  <1> HIDE DEF up, at
  <1>5. ASSUME NEW n \in A PROVE n + 1 \in B \ {1}
    <2>1. n \in 1 .. MaxDepthWalk /\ n # MaxDepthWalk /\ at[n] # NoTask
      BY <1>3
    <2>2. n \in 0 .. MaxDepthWalk - 1 /\ n + 1 \in 1 .. MaxDepthWalk /\ n + 1 # 1
      BY <2>1, <1>1
    <2>3. QED BY <2>1, <2>2, <1>2
  <1>6. IsFiniteSet(A) /\ IsFiniteSet(B)
    <2>1. IsFiniteSet(1 .. MaxDepthWalk)
      <3>1. 1 \in Int /\ MaxDepthWalk \in Int
        BY <1>1
      <3>2. QED BY <3>1, FS_Interval
    <2>2. A \subseteq 1 .. MaxDepthWalk /\ B \subseteq 1 .. MaxDepthWalk
      OBVIOUS
    <2> HIDE DEF A, B
    <2>3. QED BY <2>1, <2>2, FS_Subset
  <1>7. f \in Injection(A, B \ {1})
    <2>1. f \in [A -> B \ {1}]
      BY <1>5
    <2>2. ASSUME NEW x \in A, NEW y \in A, f[x] = f[y] PROVE x = y
      <3>1. x \in 1 .. MaxDepthWalk /\ y \in 1 .. MaxDepthWalk
        OBVIOUS
      <3>2. x + 1 = y + 1
        BY <2>2
      <3>3. QED BY <1>1, <3>1, <3>2
    <2> HIDE DEF f, A, B
    <2>3. QED BY <2>1, <2>2 DEF Injection, IsInjective
  <1>8. TreeDepth(sel, t) = Cardinality(A) /\ TreeDepth(sel, u) = Cardinality(B)
    BY DEF TreeDepth, at, up
  <1> HIDE DEF A, B, f
  <1>9. /\ IsFiniteSet(B \ {1})
        /\ Cardinality(B \ {1}) = Cardinality(B) - 1
    BY <1>4, <1>6, FS_RemoveElement
  <1>10. Cardinality(A) <= Cardinality(B \ {1})
    BY <1>7, <1>9, FS_Injection
  <1>11. Cardinality(A) \in Nat /\ Cardinality(B) \in Nat
    BY <1>6, FS_CardinalityType
  <1>12. QED BY <1>8, <1>9, <1>10, <1>11

------------------------------------------------------------------------------
(* The order of the resume scan. *)

(* What a step does to the scan of every executor: at most the task at hand *)
(* is put down. *)
ScanRests ==
  /\ UNCHANGED <<boot, selected, pending>>
  /\ \A e \in Executors : current'[e] \in {current[e], NoTask}

LEMMA RestingKeepsOrder ==
  ASSUME OrderInv, ScanRests
  PROVE  OrderInv'
  BY DEF OrderInv, ScanRests, ChildrenResumeFirst

(* Only the scan itself chooses tasks. *)
LEMMA OthersRest ==
  ASSUME TypeOK,
         \/ \E t \in Tasks : \/ CallerStep(t) \/ Request(t) \/ UserCancel(t) \/ DropCaller(t)
                             \/ WaitTimesOut(t)
         \/ \E r \in Runs : \/ LaunchStep(r) \/ DriveStep(r) \/ ClaimStep(r)
                            \/ InsertFails(r) \/ PersistFails(r) \/ ResumeOneFails(r)
         \/ \E e \in Executors : \/ ClaimLegacy(e) \/ FinishLegacy(e) \/ LegacyFails(e)
                                 \/ RejectResume(e) \/ \E r \in Runs : ResumePermit(e, r)
         \/ \E e \in Executors, c \in Calls : ShutdownStep(e, c) \/ ShutdownFires(e, c)
         \/ \E stuck \in SUBSET Tasks : RecoverStuck(stuck)
  PROVE  ScanRests
  <1> USE DEF ScanRests, TypeOK
  <1>1. ASSUME NEW t \in Tasks,
               \/ CallerStep(t) \/ Request(t) \/ UserCancel(t) \/ DropCaller(t) \/ WaitTimesOut(t)
        PROVE  UNCHANGED scan
    <2>1. CASE CallerStep(t)
      BY <2>1 DEF CallerStep, RejectSpawn, AcquirePermit, LoadAfterTimeout, PollReturns,
                  FinishOverdue, WaiterLosesSender
    <2>2. CASE Request(t) \/ UserCancel(t) \/ DropCaller(t) \/ WaitTimesOut(t)
      BY <2>2 DEF Request, UserCancel, DropCaller, WaitTimesOut
    <2>3. QED BY <1>1, <2>1, <2>2
  <1>2. ASSUME NEW r \in Runs, DriveStep(r) \/ InsertFails(r) \/ PersistFails(r)
        PROVE  UNCHANGED scan
    BY <1>2 DEF DriveStep, DriveEnds, DrainEnds, CancelDrainEnds, Decide, ObserveCancel,
                TimeoutFires, Persist, Retire, InsertFails, PersistFails
  <1>3. ASSUME NEW r \in Runs, LaunchStep(r) \/ ClaimStep(r) \/ ResumeOneFails(r)
        PROVE  ScanRests
    BY <1>3 DEF LaunchStep, InsertRow, RegisterHandle, JoinTask, ClaimStep, Claim,
                ClaimRejected, ResumeOneFails, Skip, scan
  <1>4. ASSUME NEW e \in Executors,
               \/ ClaimLegacy(e) \/ FinishLegacy(e) \/ LegacyFails(e)
               \/ RejectResume(e) \/ \E r \in Runs : ResumePermit(e, r)
        PROVE  ScanRests
    BY <1>4 DEF ClaimLegacy, FinishLegacy, LegacyFails, RejectResume, ResumePermit, Skip, scan
  <1>5. ASSUME NEW e \in Executors, NEW c \in Calls, ShutdownStep(e, c) \/ ShutdownFires(e, c)
        PROVE  UNCHANGED scan
    BY <1>5 DEF ShutdownStep, ShutdownFires, ShutdownTakes, ShutdownDrained,
                ForceCancelStragglers, ShutdownAborts
  <1>6. ASSUME NEW stuck \in SUBSET Tasks, RecoverStuck(stuck) PROVE UNCHANGED scan
    BY <1>6 DEF RecoverStuck
  <1>7. UNCHANGED scan => ScanRests
    BY DEF scan
  <1>8. QED BY <1>1, <1>2, <1>3, <1>4, <1>5, <1>6, <1>7

(* A task is chosen when no waiting task lies deeper, and its children do. *)
LEMMA PickKeepsOrder ==
  ASSUME NestingIsBounded, TypeOK, OrderInv, NEW e \in Executors, NEW t \in Tasks,
         PickResume(e, t)
  PROVE  OrderInv'
  <1>1. /\ boot'[e] = "resuming"
        /\ UNCHANGED <<boot, selected>>
        /\ \A d \in Executors \ {e} : pending'[d] = pending[d] /\ current'[d] = current[d]
        /\ pending'[e] = pending[e] \ {t}
        /\ current'[e] = t
    BY DEF PickResume, TypeOK
  <1>2. ASSUME NEW u \in pending[e], ParentOf[u] = t PROVE FALSE
    <2>1. selected[e] \in SUBSET Tasks /\ u \in selected[e]
      BY <1>2 DEF OrderInv, TypeOK
    <2>2. TreeDepth(selected[e], t) < TreeDepth(selected[e], u)
      BY <1>2, <2>1, ChildrenAreDeeper
    <2>3. TreeDepth(selected[e], u) <= TreeDepth(selected[e], t)
      BY <1>2 DEF PickResume
    <2>4. TreeDepth(selected[e], t) \in Nat /\ TreeDepth(selected[e], u) \in Nat
      BY DepthType
    <2>5. QED BY <2>2, <2>3, <2>4
  <1>3. ChildrenResumeFirst'
    BY <1>1, <1>2 DEF OrderInv, ChildrenResumeFirst
  <1>4. QED BY <1>1, <1>3 DEF OrderInv

LEMMA ScanKeepsOrder ==
  ASSUME NestingIsBounded, TypeOK, OrderInv, NEW e \in Executors,
         \/ AdoptOrphans(e) \/ ScanPaused(e) \/ ScanDone(e) \/ ResumeFails(e)
         \/ \E t \in Tasks : PickResume(e, t)
  PROVE  OrderInv'
  <1>1. CASE \E t \in Tasks : PickResume(e, t)
    BY <1>1, PickKeepsOrder
  <1>2. CASE AdoptOrphans(e) \/ ScanDone(e) \/ ResumeFails(e)
    BY <1>2 DEF AdoptOrphans, ScanDone, ResumeFails, OrderInv, ChildrenResumeFirst, TypeOK
  <1>3. CASE ScanPaused(e)
    <2>1. current[e] = NoTask /\ UNCHANGED current
      BY <1>3 DEF ScanPaused, OrderInv
    <2>2. /\ \A d \in Executors \ {e} :
               /\ boot'[d] = boot[d]
               /\ selected'[d] = selected[d]
               /\ pending'[d] = pending[d]
          /\ boot'[e] = "resuming"
          /\ pending'[e] = selected'[e]
      BY <1>3 DEF ScanPaused, TypeOK
    <2>3. QED BY <2>1, <2>2 DEF OrderInv, ChildrenResumeFirst
  <1>4. QED BY <1>1, <1>2, <1>3

LEMMA StepKeepsOrder ==
  NestingIsBounded /\ TypeOK /\ OrderInv /\ [Next]_vars => OrderInv'
  <1> SUFFICES ASSUME NestingIsBounded, TypeOK, OrderInv, [Next]_vars PROVE OrderInv'
    OBVIOUS
  <1>1. CASE UNCHANGED vars
    BY <1>1, RestingKeepsOrder DEF vars, scan, ScanRests
  <1>2. CASE Restart
    BY <1>2 DEF Restart, OrderInv, ChildrenResumeFirst
  <1>3. ASSUME NEW e \in Executors, ResumeStep(e) \/ ResumeFails(e)
        PROVE  OrderInv'
    BY <1>3, ScanKeepsOrder, OthersRest, RestingKeepsOrder DEF ResumeStep
  <1>4. QED BY <1>1, <1>2, <1>3, OthersRest, RestingKeepsOrder DEF Next, Environment, Fault

(* The resume scan takes children before their parents, for every set of     *)
(* paused tasks and every forest of parent links that ensure_depth_allowed   *)
(* lets in, with any number of executors (order_children_first).             *)
THEOREM ChildrenResumeFirstHolds == NestingIsBounded /\ Spec => []ChildrenResumeFirst
  <1>1. Init => OrderInv
    BY DEF Init, OrderInv, ChildrenResumeFirst
  <1>2. OrderInv => ChildrenResumeFirst
    BY DEF OrderInv
  <1>3. NestingIsBounded /\ [Next]_vars => NestingIsBounded'
    BY DEF NestingIsBounded
  <1>4. QED BY <1>1, <1>2, <1>3, TypesHold, StepKeepsOrder, PTL DEF Spec

==============================================================================
