------------------------- MODULE TaskExecutor_proofs -------------------------
(***************************************************************************)
(* Type correctness of TaskExecutor, for every value of its constants.      *)
(***************************************************************************)
EXTENDS TaskExecutor, TLAPS

(* The words the row operators use are members of their sets. *)
LEMMA Words ==
  /\ {"absent", "running", "paused", "done", "failed"} \subseteq Statuses
  /\ {"none", "shutdown", "forced", "crash"} \subseteq Causes
  /\ {"none", "cancelled", "timed_out", "no_final", "run_error",
      "resume_limit", "stuck", "not_resumable"} \subseteq Errors
  BY DEF Statuses, Causes, Errors

(* Every store operation maps a row to a row. *)
LEMMA RowTypes ==
  ASSUME NEW w \in Row
  PROVE  /\ FreshRow \in Row
         /\ AbsentRow \in Row
         /\ \A s \in {"done", "failed"}, x \in Errors : Finished(w, s, x) \in Row
         /\ \A c \in Causes : PausedRow(w, c) \in Row
         /\ ClaimedRow(w) \in Row
         /\ FoldedRow(w) \in Row
         /\ SweptRow(w) \in Row
  <1>1. FreshRow \in Row /\ AbsentRow \in Row
    BY Words DEF Row, FreshRow, AbsentRow
  <1>2. \A s \in {"done", "failed"}, x \in Errors : Finished(w, s, x) \in Row
    BY Words DEF Row, Finished
  <1>3. \A c \in Causes : PausedRow(w, c) \in Row
    BY Words DEF Row, PausedRow
  <1>4. ClaimedRow(w) \in Row
    <2> DEFINE n == IF CountsTowardCap(w) THEN w.resumes + 1 ELSE w.resumes
    <2>1. n \in Nat
      BY DEF Row
    <2>2. ClaimedRow(w) = [w EXCEPT !.status = "running", !.cause = "none", !.resumes = n]
      BY DEF ClaimedRow
    <2> HIDE DEF n
    <2>3. QED BY <2>1, <2>2, Words DEF Row
  <1>5. FoldedRow(w) \in Row
    BY <1>3, Words DEF FoldedRow
  <1>6. SweptRow(w) \in Row
    BY Words DEF Row, SweptRow
  <1>7. QED BY <1>1, <1>2, <1>3, <1>4, <1>5, <1>6

(* classify_outcome returns a verdict. *)
LEMMA ClassifyType ==
  ASSUME NEW o \in {"paused", "timed_out", "cancelled", "error", "closed", "final"},
         NEW p, NEW s
  PROVE  Classify(o, p, s) \in Verdicts
  BY Words DEF Classify, Verdicts, Done, Failed, Paused

(* Writing a verdict leaves a row. *)
LEMMA WrittenType ==
  ASSUME NEW w \in Row, NEW v \in Verdicts
  PROVE  Written(w, v) \in Row
  BY RowTypes DEF Written, Verdicts

(* A free slot is a run state. *)
LEMMA FreeRunType == FreeRun \in RunState
  BY Words DEF FreeRun, RunState, Verdicts, Done, RunPhases

(* The updates the actions make to one run leave run states. *)
LEMMA RunUpdateTypes ==
  ASSUME NEW f \in [Runs -> RunState], NEW r \in Runs
  PROVE  /\ \A p \in RunPhases : [f EXCEPT ![r].phase = p] \in [Runs -> RunState]
         /\ \A v \in Verdicts :
              /\ [f EXCEPT ![r].phase = "decided", ![r].verdict = v] \in [Runs -> RunState]
              /\ [f EXCEPT ![r].phase = "decided", ![r].fired = TRUE, ![r].verdict = v]
                   \in [Runs -> RunState]
         /\ [f EXCEPT ![r] = FreeRun] \in [Runs -> RunState]
         /\ \A t \in Tasks, p \in RunPhases, o \in {"spawn", "blocking", "resume"} :
              [f EXCEPT ![r] = [FreeRun EXCEPT !.task = t, !.phase = p, !.origin = o]]
                \in [Runs -> RunState]
         /\ [f EXCEPT ![r].fired = TRUE, ![r].reason = IF @ = "unset" THEN "stop" ELSE @]
              \in [Runs -> RunState]
  <1>0. "decided" \in RunPhases
    BY DEF RunPhases
  <1>1. \A p \in RunPhases : [f EXCEPT ![r].phase = p] \in [Runs -> RunState]
    BY DEF RunState
  <1>2. ASSUME NEW v \in Verdicts
        PROVE  /\ [f EXCEPT ![r].phase = "decided", ![r].verdict = v] \in [Runs -> RunState]
               /\ [f EXCEPT ![r].phase = "decided", ![r].fired = TRUE, ![r].verdict = v]
                    \in [Runs -> RunState]
    <2>1. \A x \in RunState :
            /\ [x EXCEPT !.phase = "decided", !.verdict = v] \in RunState
            /\ [x EXCEPT !.phase = "decided", !.fired = TRUE, !.verdict = v] \in RunState
      BY <1>0 DEF RunState
    <2>2. QED BY <2>1
  <1>3. [f EXCEPT ![r] = FreeRun] \in [Runs -> RunState]
    BY FreeRunType
  <1>4. ASSUME NEW t \in Tasks, NEW p \in RunPhases, NEW o \in {"spawn", "blocking", "resume"}
        PROVE  [f EXCEPT ![r] = [FreeRun EXCEPT !.task = t, !.phase = p, !.origin = o]]
                 \in [Runs -> RunState]
    <2>1. [FreeRun EXCEPT !.task = t, !.phase = p, !.origin = o] \in RunState
      BY FreeRunType DEF RunState
    <2>2. QED BY <2>1
  <1>5. [f EXCEPT ![r].fired = TRUE, ![r].reason = IF @ = "unset" THEN "stop" ELSE @]
          \in [Runs -> RunState]
    BY ZenonT(60) DEF RunState
  <1>6. QED BY <1>1, <1>2, <1>3, <1>4, <1>5

------------------------------------------------------------------------------
(* Callers and permits. *)
LEMMA SpawnTypes ==
  ASSUME TypeOK, NEW t \in Tasks,
         \/ Request(t) \/ RejectSpawn(t) \/ DropCaller(t)
         \/ \E r \in Runs : AcquirePermit(t, r)
  PROVE  TypeOK'
  <1> USE DEF TypeOK, store, control, scan, ghost
  <1>0. "spawning" \in RunPhases
    BY DEF RunPhases
  <1>1. CASE Request(t)
    BY <1>1 DEF Request
  <1>2. CASE RejectSpawn(t)
    BY <1>2 DEF RejectSpawn
  <1>3. ASSUME NEW r \in Runs, AcquirePermit(t, r)
        PROVE  TypeOK'
    <2>1. run' \in [Runs -> RunState]
      BY <1>0, <1>3, RunUpdateTypes, ZenonT(60) DEF AcquirePermit
    <2>2. QED BY <1>3, <2>1 DEF AcquirePermit
  <1>4. CASE DropCaller(t)
    <2>1. run' \in [Runs -> RunState]
      BY <1>4, FreeRunType DEF DropCaller
    <2>2. handles' \in [Tasks -> Runs \cup {NoRun, StaleRun}]
      BY <1>4 DEF DropCaller
    <2>3. QED BY <1>4, <2>1, <2>2 DEF DropCaller
  <1>5. QED BY <1>1, <1>2, <1>3, <1>4

(* The store insert and the two locks of launch_run. *)
LEMMA LaunchTypes ==
  ASSUME TypeOK, NEW r \in Runs,
         InsertRow(r) \/ InsertFails(r) \/ RegisterHandle(r) \/ JoinTask(r)
  PROVE  TypeOK'
  <1> USE DEF TypeOK, store, control, scan, ghost
  <1>0. {"stored", "handled", "drain"} \subseteq RunPhases
    BY DEF RunPhases
  <1>1. CASE InsertRow(r)
    <2>1. run' \in [Runs -> RunState]
      BY <1>0, <1>1, RunUpdateTypes DEF InsertRow
    <2>2. row' \in [Tasks -> Row]
      <3>1. FreshRow \in Row
        BY Words DEF Row, FreshRow, AbsentRow
      <3>2. QED BY <1>1, <3>1 DEF InsertRow
    <2>3. QED BY <1>1, <2>1, <2>2 DEF InsertRow
  <1>2. CASE InsertFails(r)
    <2>1. run' \in [Runs -> RunState]
      BY <1>2, RunUpdateTypes DEF InsertFails, Release
    <2>2. faults' \in Nat
      BY <1>2 DEF InsertFails, StoreFault
    <2>3. QED BY <1>2, <2>1, <2>2 DEF InsertFails
  <1>3. CASE RegisterHandle(r)
    <2>1. run' \in [Runs -> RunState]
      BY <1>0, <1>3, RunUpdateTypes DEF RegisterHandle
    <2>2. QED BY <1>3, <2>1 DEF RegisterHandle
  <1>4. CASE JoinTask(r)
    <2>1. run' \in [Runs -> RunState]
      BY <1>0, <1>4, RunUpdateTypes DEF JoinTask
    <2>2. QED BY <1>4, <2>1 DEF JoinTask
  <1>5. QED BY <1>1, <1>2, <1>3, <1>4

(* The drain, the verdict, its write and the retirement. *)
LEMMA DriveTypes ==
  ASSUME TypeOK, NEW r \in Runs,
         DriveStep(r) \/ PersistFails(r)
  PROVE  TypeOK'
  <1> USE DEF TypeOK, store, control, scan, ghost
  <1>0. {"cancelling", "persisted"} \subseteq RunPhases
    BY DEF RunPhases
  <1>1. ASSUME NEW o \in {"paused", "timed_out", "cancelled", "error", "closed", "final"},
               Decide(r, o)
        PROVE  TypeOK'
    <2>1. run' \in [Runs -> RunState]
      BY <1>1, RunUpdateTypes, ClassifyType DEF Decide
    <2>2. QED BY <1>1, <2>1 DEF Decide
  <1>2. CASE DriveEnds(r)
    <2>1. PICK o \in {"final", "paused", "error", "closed", "cancelled"} :
            DrainEnds(r, o) \/ CancelDrainEnds(r, o)
      BY <1>2 DEF DriveEnds
    <2>2. Decide(r, o)
      BY <2>1 DEF DrainEnds, CancelDrainEnds
    <2>3. QED BY <1>1, <2>2
  <1>3. CASE ObserveCancel(r)
    <2>1. run' \in [Runs -> RunState]
      BY <1>0, <1>3, RunUpdateTypes DEF ObserveCancel
    <2>2. QED BY <1>3, <2>1 DEF ObserveCancel
  <1>4. CASE TimeoutFires(r)
    <2>1. run' \in [Runs -> RunState]
      BY <1>4, RunUpdateTypes, ClassifyType DEF TimeoutFires
    <2>2. QED BY <1>4, <2>1 DEF TimeoutFires
  <1>5. CASE Persist(r)
    <2>1. run' \in [Runs -> RunState]
      BY <1>0, <1>5, RunUpdateTypes DEF Persist
    <2>2. row' \in [Tasks -> Row]
      <3>1. run[r].verdict \in Verdicts
        BY DEF RunState
      <3>2. \A u \in Tasks : Written(row[u], run[r].verdict) \in Row
        BY <3>1, WrittenType
      <3>3. row' = [row EXCEPT ![run[r].task] = Written(row[run[r].task], run[r].verdict)]
        BY <1>5 DEF Persist
      <3>4. CASE run[r].task \in Tasks
        <4>1. Written(row[run[r].task], run[r].verdict) \in Row
          BY <3>2, <3>4
        <4>2. QED BY <3>3, <4>1
      <3>5. CASE run[r].task \notin Tasks
        BY <3>3, <3>5
      <3>6. QED BY <3>4, <3>5
    <2>3. hits' \in [Tasks -> Nat]
      <3>1. \A u \in Tasks : hits'[u] \in {hits[u], hits[u] + 1}
        BY <1>5 DEF Persist
      <3>2. hits' = [u \in Tasks |-> hits'[u]]
        BY <1>5 DEF Persist
      <3>3. hits \in [Tasks -> Nat]
        OBVIOUS
      <3>4. QED BY ONLY <3>1, <3>2, <3>3
    <2>4. QED BY <1>5, <2>1, <2>2, <2>3 DEF Persist
  <1>6. CASE PersistFails(r)
    <2>1. run' \in [Runs -> RunState]
      BY <1>0, <1>6, RunUpdateTypes DEF PersistFails
    <2>2. faults' \in Nat
      BY <1>6 DEF PersistFails, StoreFault
    <2>3. QED BY <1>6, <2>1, <2>2 DEF PersistFails
  <1>7. CASE Retire(r)
    <2>1. run' \in [Runs -> RunState]
      BY <1>7, RunUpdateTypes DEF Retire, Release
    <2>2. answer' \in [Tasks -> {"none"} \cup Statuses]
      BY <1>7 DEF Retire, Row
    <2>3. caller' \in [Tasks -> {"idle", "queued", "launching", "waiting",
                                 "expired", "polling", "overdue", "gone"}]
      BY <1>7 DEF Retire
    <2>4. QED BY <1>7, <2>1, <2>2, <2>3 DEF Retire
  <1>8. QED BY <1>2, <1>3, <1>4, <1>5, <1>6, <1>7 DEF DriveStep

(* Cancels and blocking callers. *)
LEMMA WaitTypes ==
  ASSUME TypeOK, NEW t \in Tasks,
         \/ UserCancel(t) \/ WaitTimesOut(t) \/ LoadAfterTimeout(t) \/ PollReturns(t)
         \/ FinishOverdue(t) \/ WaiterLosesSender(t)
  PROVE  TypeOK'
  <1> USE DEF TypeOK, store, control, scan, ghost
  <1>1. ASSUME DoCancel(t)
        PROVE  /\ run' \in [Runs -> RunState]
               /\ handles' \in [Tasks -> Runs \cup {NoRun, StaleRun}]
               /\ stamped' \in SUBSET Tasks
    <2>1. CASE handles[t] \in Runs
      <3>1. [run EXCEPT ![handles[t]].fired = TRUE,
                        ![handles[t]].reason = IF @ = "unset" THEN "stop" ELSE @]
              \in [Runs -> RunState]
        BY <2>1, RunUpdateTypes
      <3>2. run' \in [Runs -> RunState]
        BY <1>1, <2>1, <3>1 DEF DoCancel
      <3>3. handles' \in [Tasks -> Runs \cup {NoRun, StaleRun}]
        BY <1>1 DEF DoCancel
      <3>4. stamped' \in SUBSET Tasks
        BY <1>1, <2>1 DEF DoCancel
      <3>5. QED BY <3>2, <3>3, <3>4
    <2>2. CASE handles[t] \notin Runs
      BY <1>1, <2>2 DEF DoCancel
    <2>3. QED BY <2>1, <2>2
  <1>2. ASSUME Answer(t)
        PROVE  /\ answer' \in [Tasks -> {"none"} \cup Statuses]
               /\ caller' \in [Tasks -> {"idle", "queued", "launching", "waiting",
                                         "expired", "polling", "overdue", "gone"}]
    BY <1>2 DEF Answer, Row
  <1>3. CASE UserCancel(t)
    BY <1>1, <1>3 DEF UserCancel
  <1>4. CASE WaitTimesOut(t)
    BY <1>4 DEF WaitTimesOut
  <1>5. CASE LoadAfterTimeout(t)
    BY <1>1, <1>2, <1>5 DEF LoadAfterTimeout
  <1>6. CASE PollReturns(t)
    BY <1>2, <1>6 DEF PollReturns
  <1>7. CASE FinishOverdue(t)
    <2>1. row' \in [Tasks -> Row]
      BY <1>7, Words, RowTypes DEF FinishOverdue
    <2>2. "failed" \in Statuses
      BY Words
    <2>3. QED BY <1>7, <2>1, <2>2 DEF FinishOverdue
  <1>8. CASE WaiterLosesSender(t)
    BY <1>2, <1>8 DEF WaiterLosesSender
  <1>9. QED BY <1>3, <1>4, <1>5, <1>6, <1>7, <1>8

(* Adoption and scan. *)
LEMMA ResumeTypes ==
  ASSUME TypeOK, NEW e \in Executors,
         ResumeStep(e) \/ ResumeFails(e) \/ LegacyFails(e)
  PROVE  TypeOK'
  <1> USE DEF TypeOK, store, control, scan, ghost
  <1>0. "claiming" \in RunPhases
    BY DEF RunPhases
  <1>1. CASE AdoptOrphans(e)
    <2>1. row' \in [Tasks -> Row]
      BY <1>1, RowTypes DEF AdoptOrphans
    <2>2. QED BY <1>1, <2>1 DEF AdoptOrphans
  <1>2. CASE ScanPaused(e)
    BY <1>2 DEF ScanPaused
  <1>3. CASE ResumeFails(e)
    <2>1. faults' \in Nat
      BY <1>3 DEF ResumeFails, StoreFault
    <2>2. QED BY <1>3, <2>1 DEF ResumeFails
  <1>4. ASSUME NEW u \in Tasks, PickResume(e, u)
        PROVE  TypeOK'
    BY <1>4 DEF PickResume
  <1>5. CASE ScanDone(e)
    BY <1>5 DEF ScanDone
  <1>6. CASE ClaimLegacy(e)
    <2>1. row' \in [Tasks -> Row]
      <3>1. \A u \in Tasks : ClaimedRow(row[u]) \in Row
        BY RowTypes
      <3>2. QED BY <1>6, <3>1 DEF ClaimLegacy
    <2>2. current' \in [Executors -> Tasks \cup {NoTask}]
      BY <1>6 DEF ClaimLegacy, Skip
    <2>3. QED BY <1>6, <2>1, <2>2 DEF ClaimLegacy
  <1>7. CASE FinishLegacy(e)
    <2>1. row' \in [Tasks -> Row]
      <3>1. \A u \in Tasks : Finished(row[u], "failed", "not_resumable") \in Row
        BY Words, RowTypes
      <3>2. QED BY <1>7, <3>1 DEF FinishLegacy
    <2>2. QED BY <1>7, <2>1 DEF FinishLegacy, Skip
  <1>8. CASE LegacyFails(e)
    <2>1. faults' \in Nat
      BY <1>8 DEF LegacyFails, StoreFault
    <2>2. QED BY <1>8, <2>1 DEF LegacyFails, Skip
  <1>9. CASE RejectResume(e)
    BY <1>9 DEF RejectResume, Skip
  <1>10. ASSUME NEW q \in Runs, ResumePermit(e, q)
         PROVE  TypeOK'
    <2>1. current[e] \in Tasks
      BY <1>10 DEF ResumePermit
    <2>2. run' \in [Runs -> RunState]
      BY <1>0, <1>10, <2>1, RunUpdateTypes DEF ResumePermit
    <2>3. QED BY <1>10, <2>2 DEF ResumePermit
  <1>11. QED
    BY <1>1, <1>2, <1>3, <1>4, <1>5, <1>6, <1>7, <1>8, <1>9, <1>10 DEF ResumeStep

(* The claim of one resume. *)
LEMMA ClaimTypes ==
  ASSUME TypeOK, NEW r \in Runs,
         ClaimStep(r) \/ ResumeOneFails(r)
  PROVE  TypeOK'
  <1> USE DEF TypeOK, store, control, scan, ghost
  <1>0. "stored" \in RunPhases
    BY DEF RunPhases
  <1>1. CASE Claim(r)
    <2>1. run' \in [Runs -> RunState]
      BY <1>0, <1>1, RunUpdateTypes DEF Claim
    <2>2. row' \in [Tasks -> Row]
      <3>1. \A u \in Tasks : ClaimedRow(row[u]) \in Row
        BY RowTypes
      <3>2. QED BY <1>1, <3>1 DEF Claim
    <2>3. QED BY <1>1, <2>1, <2>2 DEF Claim
  <1>2. CASE ClaimRejected(r)
    <2>1. run' \in [Runs -> RunState]
      BY <1>2, RunUpdateTypes DEF ClaimRejected, Release
    <2>2. row' \in [Tasks -> Row]
      <3>1. \A u \in Tasks : Finished(row[u], "failed", "resume_limit") \in Row
        BY Words, RowTypes
      <3>2. QED BY <1>2, <3>1 DEF ClaimRejected
    <2>3. QED BY <1>2, <2>1, <2>2 DEF ClaimRejected, Skip
  <1>3. CASE ResumeOneFails(r)
    <2>1. run' \in [Runs -> RunState]
      BY <1>3, RunUpdateTypes DEF ResumeOneFails, Release
    <2>2. faults' \in Nat
      BY <1>3 DEF ResumeOneFails, StoreFault
    <2>3. QED BY <1>3, <2>1, <2>2 DEF ResumeOneFails, Skip
  <1>4. QED BY <1>1, <1>2, <1>3 DEF ClaimStep

(* Progress of one shutdown call. *)
LEMMA AdvanceType ==
  ASSUME TypeOK, NEW e \in Executors, NEW c \in Calls, NEW from,
         NEW to \in {"firing", "draining", "forcing", "returned", "aborted"},
         Advance(e, c, from, to)
  PROVE  shut' \in [Executors -> [Calls -> {"idle", "firing", "draining", "forcing",
                                           "returned", "aborted"}]]
  <1> DEFINE P == {"idle", "firing", "draining", "forcing", "returned", "aborted"}
  <1>1. shut \in [Executors -> [Calls -> P]]
    BY DEF TypeOK
  <1>2. shut' = [shut EXCEPT ![e] = [shut[e] EXCEPT ![c] = to]]
    BY DEF Advance
  <1>3. to \in P
    OBVIOUS
  <1> HIDE DEF P
  <1>4. [shut[e] EXCEPT ![c] = to] \in [Calls -> P]
    BY <1>1, <1>3
  <1>5. shut' \in [Executors -> [Calls -> P]]
    BY <1>1, <1>2, <1>4
  <1>6. QED BY <1>5 DEF P

(* Pause, cancel and abort. *)
LEMMA ShutdownTypes ==
  ASSUME TypeOK, NEW e \in Executors, NEW c \in Calls,
         ShutdownFires(e, c) \/ ShutdownStep(e, c)
  PROVE  TypeOK'
  <1> USE DEF TypeOK, store, control, scan, ghost
  <1>1. CASE ShutdownFires(e, c)
    BY <1>1 DEF ShutdownFires, Advance
  <1>2. CASE ShutdownTakes(e, c)
    <2>1. run' \in [Runs -> RunState]
      <3>1. \A x \in RunState : [x EXCEPT !.set = c] \in RunState
        BY DEF RunState
      <3>2. \A q \in Runs : run'[q] \in {run[q], [run[q] EXCEPT !.set = c]}
        BY <1>2 DEF ShutdownTakes
      <3>3. \A q \in Runs : run'[q] \in RunState
        BY <3>1, <3>2, SMTT(30)
      <3>4. run' = [q \in Runs |-> run'[q]]
        BY <1>2 DEF ShutdownTakes
      <3>5. QED BY <3>3, <3>4
    <2>2. \/ Advance(e, c, "firing", "returned") /\ FireRoot(e)
          \/ Advance(e, c, "firing", "draining") /\ UNCHANGED cancelled
      BY <1>2 DEF ShutdownTakes
    <2>3. shut' \in [Executors -> [Calls -> {"idle", "firing", "draining", "forcing",
                                            "returned", "aborted"}]]
      BY <2>2, AdvanceType
    <2>4. cancelled' \in [Executors -> BOOLEAN]
      BY <2>2 DEF FireRoot
    <2>5. UNCHANGED <<store, handles, caller, answer, pausing, scan, boots, ghost>>
      BY <1>2 DEF ShutdownTakes
    <2>6. QED BY <2>1, <2>3, <2>4, <2>5
  <1>3. CASE ShutdownDrained(e, c)
    <2>1. shut' \in [Executors -> [Calls -> {"idle", "firing", "draining", "forcing",
                                            "returned", "aborted"}]]
      BY <1>3, AdvanceType DEF ShutdownDrained
    <2>2. cancelled' \in [Executors -> BOOLEAN]
      BY <1>3 DEF ShutdownDrained, FireRoot
    <2>3. QED BY <1>3, <2>1, <2>2 DEF ShutdownDrained
  <1>4. CASE ForceCancelStragglers(e, c)
    <2>1. run' \in [Runs -> RunState]
      <3>1. \A x \in RunState : [x EXCEPT !.reason = "shutdown"] \in RunState
        BY DEF RunState
      <3>2. QED BY <1>4, <3>1 DEF ForceCancelStragglers
    <2>2. QED BY <1>4, <2>1 DEF ForceCancelStragglers, Advance, FireRoot
  <1>5. CASE ShutdownAborts(e, c)
    <2>1. run' \in [Runs -> RunState]
      BY <1>5, FreeRunType DEF ShutdownAborts
    <2>2. QED BY <1>5, <2>1 DEF ShutdownAborts, Advance
  <1>6. QED BY <1>1, <1>2, <1>3, <1>4, <1>5 DEF ShutdownStep

(* The sweeper and the process. *)
LEMMA HostTypes ==
  ASSUME TypeOK, NEW stuck \in SUBSET Tasks,
         RecoverStuck(stuck) \/ Restart
  PROVE  TypeOK'
  <1> USE DEF TypeOK
  <1>1. CASE RecoverStuck(stuck)
    <2>1. row' \in [Tasks -> Row]
      BY <1>1, RowTypes DEF RecoverStuck
    <2>2. QED BY <1>1, <2>1 DEF RecoverStuck, control, scan, ghost
  <1>2. CASE Restart
    <2>1. run' \in [Runs -> RunState]
      BY <1>2, FreeRunType DEF Restart
    <2>2. hits' \in [Tasks -> Nat]
      BY <1>2 DEF Restart
    <2>3. boots' \in Nat
      BY <1>2 DEF Restart
    <2>4. /\ caller' \in [Tasks -> {"idle", "queued", "launching", "waiting",
                                   "expired", "polling", "overdue", "gone"}]
          /\ handles' \in [Tasks -> Runs \cup {NoRun, StaleRun}]
          /\ answer' \in [Tasks -> {"none"} \cup Statuses]
      BY <1>2 DEF Restart
    <2>5. /\ pausing' \in [Executors -> BOOLEAN]
          /\ cancelled' \in [Executors -> BOOLEAN]
          /\ shut' \in [Executors -> [Calls -> {"idle", "firing", "draining", "forcing",
                                               "returned", "aborted"}]]
      BY <1>2 DEF Restart
    <2>6. /\ boot' \in [Executors -> {"idle", "adopted", "resuming", "done"}]
          /\ selected' \in [Executors -> SUBSET Tasks]
          /\ pending' \in [Executors -> SUBSET Tasks]
          /\ current' \in [Executors -> Tasks \cup {NoTask}]
      BY <1>2 DEF Restart
    <2>7. UNCHANGED <<row, faults>> /\ stamped' = {} /\ accepted' = {}
      BY <1>2 DEF Restart
    <2>8. QED BY <2>1, <2>2, <2>3, <2>4, <2>5, <2>6, <2>7
  <1>3. QED BY <1>1, <1>2

------------------------------------------------------------------------------
(* The first boot. *)
LEMMA InitTypes == Init => TypeOK
  <1> SUFFICES ASSUME Init PROVE TypeOK
    OBVIOUS
  <1>1. row \in [Tasks -> Row]
    <2>1. FreshRow \in Row /\ AbsentRow \in Row
      BY Words DEF Row, FreshRow, AbsentRow
    <2>2. QED BY <2>1 DEF Init
  <1>2. run \in [Runs -> RunState]
    BY FreeRunType DEF Init
  <1>3. QED BY <1>1, <1>2 DEF Init, TypeOK

(* Every action, and stuttering. *)
LEMMA StepTypes == TypeOK /\ [Next]_vars => TypeOK'
  <1> SUFFICES ASSUME TypeOK, [Next]_vars PROVE TypeOK'
    OBVIOUS
  <1>1. CASE UNCHANGED vars
    BY <1>1 DEF TypeOK, vars, control, scan, ghost
  <1>2. CASE Next
    <2>1. ASSUME NEW t \in Tasks, CallerStep(t) PROVE TypeOK'
      BY <2>1, SpawnTypes, WaitTypes DEF CallerStep
    <2>2. ASSUME NEW r \in Runs, LaunchStep(r) \/ DriveStep(r) \/ ClaimStep(r) PROVE TypeOK'
      BY <2>2, LaunchTypes, DriveTypes, ClaimTypes DEF LaunchStep
    <2>3. ASSUME NEW e \in Executors, ResumeStep(e) PROVE TypeOK'
      BY <2>3, ResumeTypes
    <2>4. ASSUME NEW e \in Executors, NEW c \in Calls, ShutdownStep(e, c) PROVE TypeOK'
      BY <2>4, ShutdownTypes
    <2>5. CASE Environment
      <3>1. ASSUME NEW t \in Tasks, Request(t) \/ UserCancel(t) \/ DropCaller(t) \/ WaitTimesOut(t)
            PROVE  TypeOK'
        BY <3>1, SpawnTypes, WaitTypes
      <3>2. ASSUME NEW e \in Executors, NEW c \in Calls, ShutdownFires(e, c) PROVE TypeOK'
        BY <3>2, ShutdownTypes
      <3>3. CASE Restart \/ \E stuck \in SUBSET Tasks : RecoverStuck(stuck)
        BY <3>3, HostTypes
      <3>4. CASE Fault
        BY <3>4, LaunchTypes, DriveTypes, ClaimTypes, ResumeTypes DEF Fault
      <3>5. QED BY <2>5, <3>1, <3>2, <3>3, <3>4 DEF Environment
    <2>6. QED BY <1>2, <2>1, <2>2, <2>3, <2>4, <2>5 DEF Next
  <1>3. QED BY <1>1, <1>2

(* Rows, runs, handles, callers and shutdown progress keep their types through *)
(* every spawn, drive, cancel, resume, shutdown, fault and restart.          *)
THEOREM TypesHold == Spec => []TypeOK
  BY InitTypes, StepTypes, PTL DEF Spec
==============================================================================
