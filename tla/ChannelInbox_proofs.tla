------------------------- MODULE ChannelInbox_proofs -------------------------
(***************************************************************************)
(* Types and safety of ChannelInbox, for every set of messages and          *)
(* conversations and every number of permits, turns and faults.             *)
(*                                                                          *)
(* RunsOwnTheirConv is not inductive: a run only owns its conversation      *)
(* because its receive() owned it while it waited for the permit, and       *)
(* release_conv only spares a successor because both cannot be the entry's  *)
(* run.  NextTurnSeesInjected speaks of a call that is over: the invariant  *)
(* says of the time before it that the message is still queued.             *)
(***************************************************************************)
EXTENDS ChannelInbox, TLAPS

USE DEF Handled, Moves, inflow, control

------------------------------------------------------------------------------
(* Types *)

(* Every action keeps every variable in its type, and a message that waits  *)
(* to be injected, or was injected, has a run as its target.                *)
LEMMA TypeStep ==
  ASSUME TypeOK, TargetsAreRuns, [Next]_vars
  PROVE  TypeOK' /\ TargetsAreRuns'
  <1>1. ASSUME NEW m \in Messages, ReceiveStop(m) PROVE TypeOK' /\ TargetsAreRuns'
    BY <1>1, InboxAssumption DEF TypeOK, TargetsAreRuns, ReceiveStop,
         HandlerEnds
  <1>2. ASSUME NEW m \in Messages, Receive(m) PROVE TypeOK' /\ TargetsAreRuns'
    BY <1>2 DEF TypeOK, TargetsAreRuns, Receive, HandlerEnds
  <1>3. ASSUME NEW m \in Messages, PolicyDenies(m) PROVE TypeOK' /\ TargetsAreRuns'
    BY <1>3 DEF TypeOK, TargetsAreRuns, PolicyDenies, HandlerEnds
  <1>4. ASSUME NEW m \in Messages, TryClaim(m) PROVE TypeOK' /\ TargetsAreRuns'
    BY <1>4, InboxAssumption DEF TypeOK, TargetsAreRuns, TryClaim, HandlerEnds
  <1>5. ASSUME NEW m \in Messages, Submit(m) PROVE TypeOK' /\ TargetsAreRuns'
    BY <1>5, InboxAssumption DEF TypeOK, TargetsAreRuns, Submit, HandlerEnds
  <1>6. ASSUME NEW m \in Messages, AcquirePermit(m) PROVE TypeOK' /\ TargetsAreRuns'
    BY <1>6 DEF TypeOK, TargetsAreRuns, AcquirePermit, HandlerEnds
  <1>7. ASSUME NEW m \in Messages, RejectPermit(m) PROVE TypeOK' /\ TargetsAreRuns'
    BY <1>7 DEF TypeOK, TargetsAreRuns, RejectPermit, HandlerEnds
  <1>8. ASSUME NEW m \in Messages, SpawnRun(m) PROVE TypeOK' /\ TargetsAreRuns'
    BY <1>8 DEF TypeOK, TargetsAreRuns, SpawnRun, HandlerEnds, RunPhases,
         JoinedPhases, OwningPhases, DriverPhases
  <1>9. ASSUME NEW m \in Messages, DropHandler(m) PROVE TypeOK' /\ TargetsAreRuns'
    BY <1>9 DEF TypeOK, TargetsAreRuns, DropHandler, Fault, HandlerEnds
  <1>10. ASSUME NEW m \in Messages, BeforeLlm(m) PROVE TypeOK' /\ TargetsAreRuns'
    BY <1>10 DEF TypeOK, TargetsAreRuns, BeforeLlm, RunPhases, JoinedPhases,
         OwningPhases, DriverPhases
  <1>11. ASSUME NEW m \in Messages, LlmCallsTools(m) PROVE TypeOK' /\ TargetsAreRuns'
    BY <1>11 DEF TypeOK, TargetsAreRuns, LlmCallsTools, RunPhases,
         JoinedPhases, OwningPhases, DriverPhases
  <1>12. ASSUME NEW m \in Messages, LlmFinishes(m) PROVE TypeOK' /\ TargetsAreRuns'
    BY <1>12 DEF TypeOK, TargetsAreRuns, LlmFinishes, Ends, RunPhases,
         JoinedPhases, OwningPhases, DriverPhases
  <1>13. ASSUME NEW m \in Messages, TurnsExhausted(m) PROVE TypeOK' /\ TargetsAreRuns'
    BY <1>13 DEF TypeOK, TargetsAreRuns, TurnsExhausted, Ends, RunPhases,
         JoinedPhases, OwningPhases, DriverPhases
  <1>14. ASSUME NEW m \in Messages, TurnFails(m) PROVE TypeOK' /\ TargetsAreRuns'
    BY <1>14 DEF TypeOK, TargetsAreRuns, TurnFails, Ends, RunPhases,
         JoinedPhases, OwningPhases, DriverPhases
  <1>15. ASSUME NEW m \in Messages, CancelRun(m) PROVE TypeOK' /\ TargetsAreRuns'
    BY <1>15 DEF TypeOK, TargetsAreRuns, CancelRun, Ends, RunPhases,
         JoinedPhases, OwningPhases, DriverPhases
  <1>16. ASSUME NEW m \in Messages, OnStop(m) PROVE TypeOK' /\ TargetsAreRuns'
    BY <1>16 DEF TypeOK, TargetsAreRuns, OnStop, RunPhases, JoinedPhases,
         OwningPhases, DriverPhases
  <1>17. ASSUME NEW m \in Messages, DriverPanics(m) PROVE TypeOK' /\ TargetsAreRuns'
    BY <1>17 DEF TypeOK, TargetsAreRuns, DriverPanics, Fault, RunPhases,
         JoinedPhases, OwningPhases, DriverPhases
  <1>18. ASSUME NEW m \in Messages, Deliver(m) PROVE TypeOK' /\ TargetsAreRuns'
    BY <1>18 DEF TypeOK, TargetsAreRuns, Deliver, RunPhases, JoinedPhases,
         OwningPhases
  <1>19. ASSUME NEW m \in Messages, ReleaseConv(m) PROVE TypeOK' /\ TargetsAreRuns'
    BY <1>19, InboxAssumption DEF TypeOK, TargetsAreRuns, ReleaseConv,
         RunPhases, JoinedPhases, OwningPhases
  <1>20. ASSUME NEW m \in Messages, Report(m) PROVE TypeOK' /\ TargetsAreRuns'
    BY <1>20 DEF TypeOK, TargetsAreRuns, Report, RunPhases, JoinedPhases,
         OwningPhases
  <1>21. ASSUME NEW m \in Messages, RunPanics(m) PROVE TypeOK' /\ TargetsAreRuns'
    BY <1>21 DEF TypeOK, TargetsAreRuns, RunPanics, Fault, Gone, RunPhases,
         JoinedPhases, OwningPhases, DriverPhases
  <1>22. ASSUME NEW m \in Messages, DriverStops(m) PROVE TypeOK' /\ TargetsAreRuns'
    BY <1>22 DEF TypeOK, TargetsAreRuns, DriverStops, RunPhases, JoinedPhases,
         OwningPhases
  <1>23. ASSUME ShutdownCancels PROVE TypeOK' /\ TargetsAreRuns'
    BY <1>23 DEF TypeOK, TargetsAreRuns, ShutdownCancels, Shut
  <1>24. ASSUME ShutdownLocks PROVE TypeOK' /\ TargetsAreRuns'
    BY <1>24 DEF TypeOK, TargetsAreRuns, ShutdownLocks, Shut
  <1>25. ASSUME ShutdownDrained PROVE TypeOK' /\ TargetsAreRuns'
    BY <1>25 DEF TypeOK, TargetsAreRuns, ShutdownDrained, Shut
  <1>26. ASSUME ShutdownAborts PROVE TypeOK' /\ TargetsAreRuns'
    BY <1>26 DEF TypeOK, TargetsAreRuns, ShutdownAborts, Shut, Gone,
         RunPhases, JoinedPhases, OwningPhases, DriverPhases
  <1>27. CASE UNCHANGED vars
    BY <1>27 DEF TypeOK, TargetsAreRuns, vars
  <1>28. QED
    BY <1>1, <1>2, <1>3, <1>4, <1>5, <1>6, <1>7, <1>8, <1>9, <1>10, <1>11,
         <1>12, <1>13, <1>14, <1>15, <1>16, <1>17, <1>18, <1>19, <1>20, <1>21,
         <1>22, <1>23, <1>24, <1>25, <1>26, <1>27 DEF Next, HandlerStep,
         RunStep, LlmAnswers, SinkStep, ShutdownStep, Environment

(* THEOREM: every reachable state is well typed; in particular a stop of an *)
(* idle conversation fires no token, and every message that joins a running *)
(* conversation joins a run that exists (try_claim_conv, cancel_conv).      *)
THEOREM TypesHold == Spec => []TypeOK
  <1>1. Init => TypeOK /\ TargetsAreRuns
    BY InboxAssumption DEF Init, TypeOK, TargetsAreRuns, HandlerEnds, RunPhases
  <1>2. (TypeOK /\ TargetsAreRuns) /\ [Next]_vars => (TypeOK /\ TargetsAreRuns)'
    BY TypeStep
  <1>3. QED BY <1>1, <1>2, PTL DEF Spec

------------------------------------------------------------------------------
(* Safety: one lemma per action, one step per conjunct it can disturb *)

(* A stop message: the run that loses its entry is stopped. *)
LEMMA ReceiveStopSafe ==
  ASSUME InboxInv, TypeOK' /\ TargetsAreRuns', NEW m \in Messages, ReceiveStop(m)
  PROVE  InboxInv'
  <1>1. RunsAreLaunched'
    BY DEF InboxInv, TypeOK, RunsAreLaunched, ReceiveStop
  <1>2. ClaimsAreLocal'
    BY InboxAssumption DEF InboxInv, TypeOK, ClaimsAreLocal, ReceiveStop
  <1>3. CandidatesOwnTheirConv'
    BY InboxAssumption DEF InboxInv, TypeOK, CandidatesOwnTheirConv,
         ReceiveStop
  <1>4. RunsOwnTheirConv'
    BY InboxAssumption DEF InboxInv, TypeOK, RunsOwnTheirConv, OwningRuns,
         ReceiveStop, OwningPhases, DriverPhases
  <1>5. ClaimsHaveOwners'
    BY DEF InboxInv, TypeOK, ClaimsHaveOwners, OwningRuns, ReceiveStop,
         OwningPhases, DriverPhases
  <1>6. PendingMessagesAreQueued'
    BY DEF InboxInv, TypeOK, PendingMessagesAreQueued, MayCall, ReceiveStop
  <1>7. ShutdownLeavesNoRun'
    BY DEF InboxInv, ShutdownLeavesNoRun, Joined, ReceiveStop
  <1>8. QED BY <1>1, <1>2, <1>3, <1>4, <1>5, <1>6, <1>7 DEF InboxInv

(* A new message waits for the policy, or is refused. *)
LEMMA ReceiveSafe ==
  ASSUME InboxInv, TypeOK' /\ TargetsAreRuns', NEW m \in Messages, Receive(m)
  PROVE  InboxInv'
  <1>1. RunsAreLaunched'
    BY DEF InboxInv, TypeOK, RunsAreLaunched, Receive, IsShutdown
  <1>2. CandidatesOwnTheirConv'
    BY DEF InboxInv, TypeOK, CandidatesOwnTheirConv, Receive, IsShutdown
  <1>3. ClaimsHaveOwners'
    BY DEF InboxInv, TypeOK, ClaimsHaveOwners, OwningRuns, Receive,
         OwningPhases, DriverPhases, IsShutdown
  <1>4. PendingMessagesAreQueued'
    BY DEF InboxInv, TypeOK, PendingMessagesAreQueued, MayCall, Receive,
         IsShutdown
  <1>5. /\ ClaimsAreLocal'
       /\ RunsOwnTheirConv'
       /\ ShutdownLeavesNoRun'
    BY DEF InboxInv, ClaimsAreLocal, RunsOwnTheirConv, ShutdownLeavesNoRun,
         OwningRuns, Joined, Receive
  <1>6. QED BY <1>1, <1>2, <1>3, <1>4, <1>5 DEF InboxInv

(* A denied message owned nothing. *)
LEMMA PolicyDeniesSafe ==
  ASSUME InboxInv, TypeOK' /\ TargetsAreRuns', NEW m \in Messages, PolicyDenies(m)
  PROVE  InboxInv'
  <1>1. RunsAreLaunched'
    BY DEF InboxInv, TypeOK, RunsAreLaunched, PolicyDenies
  <1>2. CandidatesOwnTheirConv'
    BY DEF InboxInv, TypeOK, CandidatesOwnTheirConv, PolicyDenies
  <1>3. ClaimsHaveOwners'
    BY DEF InboxInv, TypeOK, ClaimsHaveOwners, OwningRuns, PolicyDenies,
         OwningPhases, DriverPhases
  <1>4. PendingMessagesAreQueued'
    BY DEF InboxInv, TypeOK, PendingMessagesAreQueued, MayCall, PolicyDenies
  <1>5. /\ ClaimsAreLocal'
       /\ RunsOwnTheirConv'
       /\ ShutdownLeavesNoRun'
    BY DEF InboxInv, ClaimsAreLocal, RunsOwnTheirConv, ShutdownLeavesNoRun,
         OwningRuns, Joined, PolicyDenies
  <1>6. QED BY <1>1, <1>2, <1>3, <1>4, <1>5 DEF InboxInv

(* A claim is only taken while nobody owns the conversation. *)
LEMMA TryClaimSafe ==
  ASSUME InboxInv, TypeOK' /\ TargetsAreRuns', NEW m \in Messages, TryClaim(m)
  PROVE  InboxInv'
  <1>1. RunsAreLaunched'
    BY DEF InboxInv, TypeOK, RunsAreLaunched, TryClaim
  <1>2. ClaimsAreLocal'
    BY InboxAssumption DEF InboxInv, TypeOK, ClaimsAreLocal, TryClaim
  <1>3. CandidatesOwnTheirConv'
    BY InboxAssumption DEF InboxInv, TypeOK, CandidatesOwnTheirConv, TryClaim
  <1>4. RunsOwnTheirConv'
    BY InboxAssumption DEF InboxInv, TypeOK, RunsOwnTheirConv, OwningRuns,
         TryClaim, OwningPhases, DriverPhases
  <1>5. ClaimsHaveOwners'
    BY InboxAssumption DEF InboxInv, TypeOK, ClaimsHaveOwners, OwningRuns,
         TryClaim, OwningPhases, DriverPhases
  <1>6. PendingMessagesAreQueued'
    BY DEF InboxInv, TypeOK, PendingMessagesAreQueued, MayCall, TryClaim
  <1>7. ShutdownLeavesNoRun'
    BY DEF InboxInv, ShutdownLeavesNoRun, Joined, TryClaim
  <1>8. QED BY <1>1, <1>2, <1>3, <1>4, <1>5, <1>6, <1>7 DEF InboxInv

(* The message is queued, or its target makes no further call. *)
LEMMA SubmitSafe ==
  ASSUME InboxInv, TypeOK' /\ TargetsAreRuns', NEW m \in Messages, Submit(m)
  PROVE  InboxInv'
  <1>1. RunsAreLaunched'
    BY DEF InboxInv, TypeOK, RunsAreLaunched, Submit
  <1>2. CandidatesOwnTheirConv'
    BY DEF InboxInv, TypeOK, CandidatesOwnTheirConv, Submit
  <1>3. ClaimsHaveOwners'
    BY DEF InboxInv, TypeOK, ClaimsHaveOwners, OwningRuns, Submit,
         OwningPhases, DriverPhases
  <1>4. PendingMessagesAreQueued'
    BY DEF InboxInv, TypeOK, PendingMessagesAreQueued, MayCall,
         TargetsAreRuns, Submit
  <1>5. /\ ClaimsAreLocal'
       /\ RunsOwnTheirConv'
       /\ ShutdownLeavesNoRun'
    BY DEF InboxInv, ClaimsAreLocal, RunsOwnTheirConv, ShutdownLeavesNoRun,
         OwningRuns, Joined, Submit
  <1>6. QED BY <1>1, <1>2, <1>3, <1>4, <1>5 DEF InboxInv

(* The candidate keeps its claim. *)
LEMMA AcquirePermitSafe ==
  ASSUME InboxInv, TypeOK' /\ TargetsAreRuns', NEW m \in Messages, AcquirePermit(m)
  PROVE  InboxInv'
  <1>1. RunsAreLaunched'
    BY DEF InboxInv, TypeOK, RunsAreLaunched, AcquirePermit
  <1>2. CandidatesOwnTheirConv'
    BY DEF InboxInv, TypeOK, CandidatesOwnTheirConv, AcquirePermit
  <1>3. ClaimsHaveOwners'
    BY DEF InboxInv, TypeOK, ClaimsHaveOwners, OwningRuns, AcquirePermit,
         OwningPhases, DriverPhases
  <1>4. PendingMessagesAreQueued'
    BY DEF InboxInv, TypeOK, PendingMessagesAreQueued, MayCall, AcquirePermit
  <1>5. /\ ClaimsAreLocal'
       /\ RunsOwnTheirConv'
       /\ ShutdownLeavesNoRun'
    BY DEF InboxInv, ClaimsAreLocal, RunsOwnTheirConv, ShutdownLeavesNoRun,
         OwningRuns, Joined, AcquirePermit
  <1>6. QED BY <1>1, <1>2, <1>3, <1>4, <1>5 DEF InboxInv

(* The claim stays behind, but the inbox is shut down. *)
LEMMA RejectPermitSafe ==
  ASSUME InboxInv, TypeOK' /\ TargetsAreRuns', NEW m \in Messages, RejectPermit(m)
  PROVE  InboxInv'
  <1>1. RunsAreLaunched'
    BY DEF InboxInv, TypeOK, RunsAreLaunched, RejectPermit, IsShutdown
  <1>2. CandidatesOwnTheirConv'
    BY DEF InboxInv, TypeOK, CandidatesOwnTheirConv, RejectPermit, IsShutdown
  <1>3. ClaimsHaveOwners'
    BY DEF InboxInv, TypeOK, ClaimsHaveOwners, OwningRuns, RejectPermit,
         OwningPhases, DriverPhases, IsShutdown
  <1>4. PendingMessagesAreQueued'
    BY DEF InboxInv, TypeOK, PendingMessagesAreQueued, MayCall, RejectPermit,
         IsShutdown
  <1>5. /\ ClaimsAreLocal'
       /\ RunsOwnTheirConv'
       /\ ShutdownLeavesNoRun'
    BY DEF InboxInv, ClaimsAreLocal, RunsOwnTheirConv, ShutdownLeavesNoRun,
         OwningRuns, Joined, RejectPermit
  <1>6. QED BY <1>1, <1>2, <1>3, <1>4, <1>5 DEF InboxInv

(* The run inherits the claim; after a shutdown it is refused. *)
LEMMA SpawnRunSafe ==
  ASSUME InboxInv, TypeOK' /\ TargetsAreRuns', NEW m \in Messages, SpawnRun(m)
  PROVE  InboxInv'
  <1>1. RunsAreLaunched'
    BY DEF InboxInv, TypeOK, RunsAreLaunched, SpawnRun, IsShutdown
  <1>2. CandidatesOwnTheirConv'
    BY DEF InboxInv, TypeOK, CandidatesOwnTheirConv, SpawnRun, IsShutdown
  <1>3. RunsOwnTheirConv'
    BY DEF InboxInv, TypeOK, RunsOwnTheirConv, OwningRuns,
         CandidatesOwnTheirConv, SpawnRun, OwningPhases, DriverPhases,
         IsShutdown
  <1>4. ClaimsHaveOwners'
    BY DEF InboxInv, TypeOK, ClaimsHaveOwners, OwningRuns, SpawnRun,
         OwningPhases, DriverPhases, IsShutdown
  <1>5. PendingMessagesAreQueued'
    BY DEF InboxInv, TypeOK, PendingMessagesAreQueued, MayCall,
         RunsAreLaunched, TargetsAreRuns, SpawnRun, IsShutdown
  <1>6. ShutdownLeavesNoRun'
    BY DEF InboxInv, TypeOK, ShutdownLeavesNoRun, Joined, SpawnRun,
         JoinedPhases, OwningPhases, DriverPhases, IsShutdown
  <1>7. ClaimsAreLocal'
    BY DEF InboxInv, ClaimsAreLocal, SpawnRun
  <1>8. QED BY <1>1, <1>2, <1>3, <1>4, <1>5, <1>6, <1>7 DEF InboxInv

(* A dropped call is a fault. *)
LEMMA DropHandlerSafe ==
  ASSUME InboxInv, TypeOK' /\ TargetsAreRuns', NEW m \in Messages, DropHandler(m)
  PROVE  InboxInv'
  <1>1. RunsAreLaunched'
    BY DEF InboxInv, TypeOK, RunsAreLaunched, DropHandler, Fault
  <1>2. CandidatesOwnTheirConv'
    BY DEF InboxInv, TypeOK, CandidatesOwnTheirConv, DropHandler, Fault
  <1>3. ClaimsHaveOwners'
    BY DEF InboxInv, TypeOK, ClaimsHaveOwners, OwningRuns, DropHandler, Fault,
         OwningPhases, DriverPhases
  <1>4. PendingMessagesAreQueued'
    BY DEF InboxInv, TypeOK, PendingMessagesAreQueued, MayCall, DropHandler,
         Fault
  <1>5. /\ ClaimsAreLocal'
       /\ RunsOwnTheirConv'
       /\ ShutdownLeavesNoRun'
    BY DEF InboxInv, ClaimsAreLocal, RunsOwnTheirConv, ShutdownLeavesNoRun,
         OwningRuns, Joined, DropHandler, Fault
  <1>6. QED BY <1>1, <1>2, <1>3, <1>4, <1>5 DEF InboxInv

(* What was queued for the run becomes part of its request. *)
LEMMA BeforeLlmSafe ==
  ASSUME InboxInv, TypeOK' /\ TargetsAreRuns', NEW m \in Messages, BeforeLlm(m)
  PROVE  InboxInv'
  <1>1. RunsAreLaunched'
    BY DEF InboxInv, TypeOK, RunsAreLaunched, BeforeLlm
  <1>2. RunsOwnTheirConv'
    BY DEF InboxInv, TypeOK, RunsOwnTheirConv, OwningRuns, BeforeLlm,
         OwningPhases, DriverPhases
  <1>3. ClaimsHaveOwners'
    BY DEF InboxInv, TypeOK, ClaimsHaveOwners, OwningRuns, BeforeLlm,
         OwningPhases, DriverPhases
  <1>4. PendingMessagesAreQueued'
    BY DEF InboxInv, TypeOK, PendingMessagesAreQueued, MayCall,
         TargetsAreRuns, BeforeLlm
  <1>5. ShutdownLeavesNoRun'
    BY DEF InboxInv, TypeOK, ShutdownLeavesNoRun, Joined, BeforeLlm,
         JoinedPhases, OwningPhases, DriverPhases
  <1>6. ClaimsAreLocal' /\ CandidatesOwnTheirConv'
    BY DEF InboxInv, ClaimsAreLocal, CandidatesOwnTheirConv, BeforeLlm
  <1>7. QED BY <1>1, <1>2, <1>3, <1>4, <1>5, <1>6 DEF InboxInv

(* The run goes on. *)
LEMMA LlmCallsToolsSafe ==
  ASSUME InboxInv, TypeOK' /\ TargetsAreRuns', NEW m \in Messages, LlmCallsTools(m)
  PROVE  InboxInv'
  <1>1. RunsAreLaunched'
    BY DEF InboxInv, TypeOK, RunsAreLaunched, LlmCallsTools
  <1>2. RunsOwnTheirConv'
    BY DEF InboxInv, TypeOK, RunsOwnTheirConv, OwningRuns, LlmCallsTools,
         OwningPhases, DriverPhases
  <1>3. ClaimsHaveOwners'
    BY DEF InboxInv, TypeOK, ClaimsHaveOwners, OwningRuns, LlmCallsTools,
         OwningPhases, DriverPhases
  <1>4. PendingMessagesAreQueued'
    BY DEF InboxInv, TypeOK, PendingMessagesAreQueued, MayCall, LlmCallsTools
  <1>5. ShutdownLeavesNoRun'
    BY DEF InboxInv, TypeOK, ShutdownLeavesNoRun, Joined, LlmCallsTools,
         JoinedPhases, OwningPhases, DriverPhases
  <1>6. ClaimsAreLocal' /\ CandidatesOwnTheirConv'
    BY DEF InboxInv, ClaimsAreLocal, CandidatesOwnTheirConv, LlmCallsTools
  <1>7. QED BY <1>1, <1>2, <1>3, <1>4, <1>5, <1>6 DEF InboxInv

(* The run stops. *)
LEMMA LlmFinishesSafe ==
  ASSUME InboxInv, TypeOK' /\ TargetsAreRuns', NEW m \in Messages, LlmFinishes(m)
  PROVE  InboxInv'
  <1>1. RunsAreLaunched'
    BY DEF InboxInv, TypeOK, RunsAreLaunched, LlmFinishes, Ends
  <1>2. RunsOwnTheirConv'
    BY DEF InboxInv, TypeOK, RunsOwnTheirConv, OwningRuns, LlmFinishes, Ends,
         OwningPhases, DriverPhases
  <1>3. ClaimsHaveOwners'
    BY DEF InboxInv, TypeOK, ClaimsHaveOwners, OwningRuns, LlmFinishes, Ends,
         OwningPhases, DriverPhases
  <1>4. PendingMessagesAreQueued'
    BY DEF InboxInv, TypeOK, PendingMessagesAreQueued, MayCall, LlmFinishes,
         Ends
  <1>5. ShutdownLeavesNoRun'
    BY DEF InboxInv, TypeOK, ShutdownLeavesNoRun, Joined, LlmFinishes, Ends,
         JoinedPhases, OwningPhases, DriverPhases
  <1>6. ClaimsAreLocal' /\ CandidatesOwnTheirConv'
    BY DEF InboxInv, ClaimsAreLocal, CandidatesOwnTheirConv, LlmFinishes, Ends
  <1>7. QED BY <1>1, <1>2, <1>3, <1>4, <1>5, <1>6 DEF InboxInv

(* The run stops. *)
LEMMA TurnsExhaustedSafe ==
  ASSUME InboxInv, TypeOK' /\ TargetsAreRuns', NEW m \in Messages, TurnsExhausted(m)
  PROVE  InboxInv'
  <1>1. RunsAreLaunched'
    BY DEF InboxInv, TypeOK, RunsAreLaunched, TurnsExhausted, Ends
  <1>2. RunsOwnTheirConv'
    BY DEF InboxInv, TypeOK, RunsOwnTheirConv, OwningRuns, TurnsExhausted,
         Ends, OwningPhases, DriverPhases
  <1>3. ClaimsHaveOwners'
    BY DEF InboxInv, TypeOK, ClaimsHaveOwners, OwningRuns, TurnsExhausted,
         Ends, OwningPhases, DriverPhases
  <1>4. PendingMessagesAreQueued'
    BY DEF InboxInv, TypeOK, PendingMessagesAreQueued, MayCall,
         TurnsExhausted, Ends
  <1>5. ShutdownLeavesNoRun'
    BY DEF InboxInv, TypeOK, ShutdownLeavesNoRun, Joined, TurnsExhausted,
         Ends, JoinedPhases, OwningPhases, DriverPhases
  <1>6. ClaimsAreLocal' /\ CandidatesOwnTheirConv'
    BY DEF InboxInv, ClaimsAreLocal, CandidatesOwnTheirConv, TurnsExhausted,
         Ends
  <1>7. QED BY <1>1, <1>2, <1>3, <1>4, <1>5, <1>6 DEF InboxInv

(* The run stops. *)
LEMMA TurnFailsSafe ==
  ASSUME InboxInv, TypeOK' /\ TargetsAreRuns', NEW m \in Messages, TurnFails(m)
  PROVE  InboxInv'
  <1>1. RunsAreLaunched'
    BY DEF InboxInv, TypeOK, RunsAreLaunched, TurnFails, Ends
  <1>2. RunsOwnTheirConv'
    BY DEF InboxInv, TypeOK, RunsOwnTheirConv, OwningRuns, TurnFails, Ends,
         OwningPhases, DriverPhases
  <1>3. ClaimsHaveOwners'
    BY DEF InboxInv, TypeOK, ClaimsHaveOwners, OwningRuns, TurnFails, Ends,
         OwningPhases, DriverPhases
  <1>4. PendingMessagesAreQueued'
    BY DEF InboxInv, TypeOK, PendingMessagesAreQueued, MayCall, TurnFails,
         Ends
  <1>5. ShutdownLeavesNoRun'
    BY DEF InboxInv, TypeOK, ShutdownLeavesNoRun, Joined, TurnFails, Ends,
         JoinedPhases, OwningPhases, DriverPhases
  <1>6. ClaimsAreLocal' /\ CandidatesOwnTheirConv'
    BY DEF InboxInv, ClaimsAreLocal, CandidatesOwnTheirConv, TurnFails, Ends
  <1>7. QED BY <1>1, <1>2, <1>3, <1>4, <1>5, <1>6 DEF InboxInv

(* The run stops. *)
LEMMA CancelRunSafe ==
  ASSUME InboxInv, TypeOK' /\ TargetsAreRuns', NEW m \in Messages, CancelRun(m)
  PROVE  InboxInv'
  <1>1. RunsAreLaunched'
    BY DEF InboxInv, TypeOK, RunsAreLaunched, CancelRun, Ends
  <1>2. RunsOwnTheirConv'
    BY DEF InboxInv, TypeOK, RunsOwnTheirConv, OwningRuns, CancelRun, Ends,
         OwningPhases, DriverPhases
  <1>3. ClaimsHaveOwners'
    BY DEF InboxInv, TypeOK, ClaimsHaveOwners, OwningRuns, CancelRun, Ends,
         OwningPhases, DriverPhases
  <1>4. PendingMessagesAreQueued'
    BY DEF InboxInv, TypeOK, PendingMessagesAreQueued, MayCall, CancelRun,
         Ends
  <1>5. ShutdownLeavesNoRun'
    BY DEF InboxInv, TypeOK, ShutdownLeavesNoRun, Joined, CancelRun, Ends,
         JoinedPhases, OwningPhases, DriverPhases
  <1>6. ClaimsAreLocal' /\ CandidatesOwnTheirConv'
    BY DEF InboxInv, ClaimsAreLocal, CandidatesOwnTheirConv, CancelRun, Ends
  <1>7. QED BY <1>1, <1>2, <1>3, <1>4, <1>5, <1>6 DEF InboxInv

(* The queue of a run that makes no further call is cleared. *)
LEMMA OnStopSafe ==
  ASSUME InboxInv, TypeOK' /\ TargetsAreRuns', NEW m \in Messages, OnStop(m)
  PROVE  InboxInv'
  <1>1. RunsAreLaunched'
    BY DEF InboxInv, TypeOK, RunsAreLaunched, OnStop
  <1>2. RunsOwnTheirConv'
    BY DEF InboxInv, TypeOK, RunsOwnTheirConv, OwningRuns, OnStop,
         OwningPhases, DriverPhases
  <1>3. ClaimsHaveOwners'
    BY DEF InboxInv, TypeOK, ClaimsHaveOwners, OwningRuns, OnStop,
         OwningPhases, DriverPhases
  <1>4. PendingMessagesAreQueued'
    BY DEF InboxInv, TypeOK, PendingMessagesAreQueued, MayCall,
         TargetsAreRuns, OnStop
  <1>5. ShutdownLeavesNoRun'
    BY DEF InboxInv, TypeOK, ShutdownLeavesNoRun, Joined, OnStop,
         JoinedPhases, OwningPhases, DriverPhases
  <1>6. ClaimsAreLocal' /\ CandidatesOwnTheirConv'
    BY DEF InboxInv, ClaimsAreLocal, CandidatesOwnTheirConv, OnStop
  <1>7. QED BY <1>1, <1>2, <1>3, <1>4, <1>5, <1>6 DEF InboxInv

(* A panic is a fault; the run task goes on to release. *)
LEMMA DriverPanicsSafe ==
  ASSUME InboxInv, TypeOK' /\ TargetsAreRuns', NEW m \in Messages, DriverPanics(m)
  PROVE  InboxInv'
  <1>1. RunsAreLaunched'
    BY DEF InboxInv, TypeOK, RunsAreLaunched, DriverPanics, Fault,
         DriverPhases
  <1>2. RunsOwnTheirConv'
    BY DEF InboxInv, TypeOK, RunsOwnTheirConv, OwningRuns, DriverPanics,
         Fault, OwningPhases, DriverPhases
  <1>3. ClaimsHaveOwners'
    BY DEF InboxInv, TypeOK, ClaimsHaveOwners, OwningRuns, DriverPanics,
         Fault, OwningPhases, DriverPhases
  <1>4. PendingMessagesAreQueued'
    BY DEF InboxInv, TypeOK, PendingMessagesAreQueued, MayCall, DriverPanics,
         Fault, DriverPhases
  <1>5. ShutdownLeavesNoRun'
    BY DEF InboxInv, TypeOK, ShutdownLeavesNoRun, Joined, DriverPanics, Fault,
         JoinedPhases, OwningPhases, DriverPhases
  <1>6. ClaimsAreLocal' /\ CandidatesOwnTheirConv'
    BY DEF InboxInv, ClaimsAreLocal, CandidatesOwnTheirConv, DriverPanics,
         Fault
  <1>7. QED BY <1>1, <1>2, <1>3, <1>4, <1>5, <1>6 DEF InboxInv

(* The run still owns its conversation. *)
LEMMA DeliverSafe ==
  ASSUME InboxInv, TypeOK' /\ TargetsAreRuns', NEW m \in Messages, Deliver(m)
  PROVE  InboxInv'
  <1>1. RunsAreLaunched'
    BY DEF InboxInv, TypeOK, RunsAreLaunched, Deliver
  <1>2. RunsOwnTheirConv'
    BY DEF InboxInv, TypeOK, RunsOwnTheirConv, OwningRuns, Deliver,
         OwningPhases, DriverPhases
  <1>3. ClaimsHaveOwners'
    BY DEF InboxInv, TypeOK, ClaimsHaveOwners, OwningRuns, Deliver,
         OwningPhases, DriverPhases
  <1>4. PendingMessagesAreQueued'
    BY DEF InboxInv, TypeOK, PendingMessagesAreQueued, MayCall, Deliver
  <1>5. ShutdownLeavesNoRun'
    BY DEF InboxInv, TypeOK, ShutdownLeavesNoRun, Joined, Deliver,
         JoinedPhases, OwningPhases, DriverPhases
  <1>6. ClaimsAreLocal' /\ CandidatesOwnTheirConv'
    BY DEF InboxInv, ClaimsAreLocal, CandidatesOwnTheirConv, Deliver
  <1>7. QED BY <1>1, <1>2, <1>3, <1>4, <1>5, <1>6 DEF InboxInv

(* The run gives its entry back, and nobody else's. *)
LEMMA ReleaseConvSafe ==
  ASSUME InboxInv, TypeOK' /\ TargetsAreRuns', NEW m \in Messages, ReleaseConv(m)
  PROVE  InboxInv'
  <1>1. RunsAreLaunched'
    BY DEF InboxInv, TypeOK, RunsAreLaunched, ReleaseConv
  <1>2. ClaimsAreLocal'
    BY InboxAssumption DEF InboxInv, TypeOK, ClaimsAreLocal, ReleaseConv
  <1>3. CandidatesOwnTheirConv'
    BY InboxAssumption DEF InboxInv, TypeOK, CandidatesOwnTheirConv,
         RunsAreLaunched, ReleaseConv
  <1>4. RunsOwnTheirConv'
    BY InboxAssumption DEF InboxInv, TypeOK, RunsOwnTheirConv, OwningRuns,
         ReleaseConv, OwningPhases, DriverPhases
  <1>5. ClaimsHaveOwners'
    BY InboxAssumption DEF InboxInv, TypeOK, ClaimsHaveOwners, OwningRuns,
         ClaimsAreLocal, ReleaseConv, OwningPhases, DriverPhases
  <1>6. PendingMessagesAreQueued'
    BY DEF InboxInv, TypeOK, PendingMessagesAreQueued, MayCall, ReleaseConv
  <1>7. ShutdownLeavesNoRun'
    BY DEF InboxInv, TypeOK, ShutdownLeavesNoRun, Joined, ReleaseConv,
         JoinedPhases, OwningPhases, DriverPhases
  <1>8. QED BY <1>1, <1>2, <1>3, <1>4, <1>5, <1>6, <1>7 DEF InboxInv

(* A run that owns nothing any more ends. *)
LEMMA ReportSafe ==
  ASSUME InboxInv, TypeOK' /\ TargetsAreRuns', NEW m \in Messages, Report(m)
  PROVE  InboxInv'
  <1>1. RunsAreLaunched'
    BY DEF InboxInv, TypeOK, RunsAreLaunched, Report
  <1>2. RunsOwnTheirConv'
    BY DEF InboxInv, TypeOK, RunsOwnTheirConv, OwningRuns, Report,
         OwningPhases, DriverPhases
  <1>3. ClaimsHaveOwners'
    BY DEF InboxInv, TypeOK, ClaimsHaveOwners, OwningRuns, Report,
         OwningPhases, DriverPhases
  <1>4. PendingMessagesAreQueued'
    BY DEF InboxInv, TypeOK, PendingMessagesAreQueued, MayCall, Report
  <1>5. ShutdownLeavesNoRun'
    BY DEF InboxInv, TypeOK, ShutdownLeavesNoRun, Joined, Report,
         JoinedPhases, OwningPhases, DriverPhases
  <1>6. ClaimsAreLocal' /\ CandidatesOwnTheirConv'
    BY DEF InboxInv, ClaimsAreLocal, CandidatesOwnTheirConv, Report
  <1>7. QED BY <1>1, <1>2, <1>3, <1>4, <1>5, <1>6 DEF InboxInv

(* A panic is a fault; the entry stays behind. *)
LEMMA RunPanicsSafe ==
  ASSUME InboxInv, TypeOK' /\ TargetsAreRuns', NEW m \in Messages, RunPanics(m)
  PROVE  InboxInv'
  <1>1. RunsAreLaunched'
    BY DEF InboxInv, TypeOK, RunsAreLaunched, RunPanics, Fault, Gone,
         DriverPhases, Joined, JoinedPhases, OwningPhases
  <1>2. RunsOwnTheirConv'
    BY DEF InboxInv, TypeOK, RunsOwnTheirConv, OwningRuns, RunPanics, Fault,
         Gone, OwningPhases, DriverPhases, Joined, JoinedPhases
  <1>3. ClaimsHaveOwners'
    BY DEF InboxInv, TypeOK, ClaimsHaveOwners, OwningRuns, RunPanics, Fault,
         Gone, OwningPhases, DriverPhases, Joined, JoinedPhases
  <1>4. PendingMessagesAreQueued'
    BY DEF InboxInv, TypeOK, PendingMessagesAreQueued, MayCall, RunPanics,
         Fault, Gone, DriverPhases, Joined, JoinedPhases, OwningPhases
  <1>5. ShutdownLeavesNoRun'
    BY DEF InboxInv, TypeOK, ShutdownLeavesNoRun, Joined, RunPanics, Fault,
         Gone, JoinedPhases, OwningPhases, DriverPhases
  <1>6. ClaimsAreLocal' /\ CandidatesOwnTheirConv'
    BY DEF InboxInv, ClaimsAreLocal, CandidatesOwnTheirConv, RunPanics, Fault,
         Gone
  <1>7. QED BY <1>1, <1>2, <1>3, <1>4, <1>5, <1>6 DEF InboxInv

(* The run task was gone already. *)
LEMMA DriverStopsSafe ==
  ASSUME InboxInv, TypeOK' /\ TargetsAreRuns', NEW m \in Messages, DriverStops(m)
  PROVE  InboxInv'
  <1>1. RunsAreLaunched'
    BY DEF InboxInv, TypeOK, RunsAreLaunched, DriverStops
  <1>2. RunsOwnTheirConv'
    BY DEF InboxInv, TypeOK, RunsOwnTheirConv, OwningRuns, DriverStops,
         OwningPhases, DriverPhases
  <1>3. ClaimsHaveOwners'
    BY DEF InboxInv, TypeOK, ClaimsHaveOwners, OwningRuns, DriverStops,
         OwningPhases, DriverPhases
  <1>4. PendingMessagesAreQueued'
    BY DEF InboxInv, TypeOK, PendingMessagesAreQueued, MayCall, DriverStops
  <1>5. ShutdownLeavesNoRun'
    BY DEF InboxInv, TypeOK, ShutdownLeavesNoRun, Joined, DriverStops,
         JoinedPhases, OwningPhases, DriverPhases
  <1>6. ClaimsAreLocal' /\ CandidatesOwnTheirConv'
    BY DEF InboxInv, ClaimsAreLocal, CandidatesOwnTheirConv, DriverStops
  <1>7. QED BY <1>1, <1>2, <1>3, <1>4, <1>5, <1>6 DEF InboxInv

(* All tokens fire. *)
LEMMA ShutdownCancelsSafe ==
  ASSUME InboxInv, TypeOK' /\ TargetsAreRuns', ShutdownCancels
  PROVE  InboxInv'
  <1>1. ClaimsHaveOwners'
    BY DEF InboxInv, TypeOK, ClaimsHaveOwners, OwningRuns, ShutdownCancels,
         Shut, OwningPhases, DriverPhases
  <1>2. ShutdownLeavesNoRun'
    BY DEF InboxInv, TypeOK, ShutdownLeavesNoRun, Joined, ShutdownCancels,
         Shut, JoinedPhases, OwningPhases, DriverPhases
  <1>3. /\ RunsAreLaunched'
       /\ ClaimsAreLocal'
       /\ CandidatesOwnTheirConv'
       /\ RunsOwnTheirConv'
       /\ PendingMessagesAreQueued'
    BY DEF InboxInv, RunsAreLaunched, ClaimsAreLocal, CandidatesOwnTheirConv,
         RunsOwnTheirConv, PendingMessagesAreQueued, OwningRuns, MayCall,
         ShutdownCancels, Shut
  <1>4. QED BY <1>1, <1>2, <1>3 DEF InboxInv

(* With no run task the shutdown is over. *)
LEMMA ShutdownLocksSafe ==
  ASSUME InboxInv, TypeOK' /\ TargetsAreRuns', ShutdownLocks
  PROVE  InboxInv'
  <1>1. ClaimsHaveOwners'
    BY DEF InboxInv, TypeOK, ClaimsHaveOwners, OwningRuns, ShutdownLocks,
         Shut, OwningPhases, DriverPhases, Joined
  <1>2. ShutdownLeavesNoRun'
    BY DEF InboxInv, TypeOK, ShutdownLeavesNoRun, Joined, ShutdownLocks, Shut,
         JoinedPhases, OwningPhases, DriverPhases
  <1>3. /\ RunsAreLaunched'
       /\ ClaimsAreLocal'
       /\ CandidatesOwnTheirConv'
       /\ RunsOwnTheirConv'
       /\ PendingMessagesAreQueued'
    BY DEF InboxInv, RunsAreLaunched, ClaimsAreLocal, CandidatesOwnTheirConv,
         RunsOwnTheirConv, PendingMessagesAreQueued, OwningRuns, MayCall,
         ShutdownLocks, Shut
  <1>4. QED BY <1>1, <1>2, <1>3 DEF InboxInv

(* The last run task ended. *)
LEMMA ShutdownDrainedSafe ==
  ASSUME InboxInv, TypeOK' /\ TargetsAreRuns', ShutdownDrained
  PROVE  InboxInv'
  <1>1. ClaimsHaveOwners'
    BY DEF InboxInv, TypeOK, ClaimsHaveOwners, OwningRuns, ShutdownDrained,
         Shut, OwningPhases, DriverPhases, Joined
  <1>2. ShutdownLeavesNoRun'
    BY DEF InboxInv, TypeOK, ShutdownLeavesNoRun, Joined, ShutdownDrained,
         Shut, JoinedPhases, OwningPhases, DriverPhases
  <1>3. /\ RunsAreLaunched'
       /\ ClaimsAreLocal'
       /\ CandidatesOwnTheirConv'
       /\ RunsOwnTheirConv'
       /\ PendingMessagesAreQueued'
    BY DEF InboxInv, RunsAreLaunched, ClaimsAreLocal, CandidatesOwnTheirConv,
         RunsOwnTheirConv, PendingMessagesAreQueued, OwningRuns, MayCall,
         ShutdownDrained, Shut
  <1>4. QED BY <1>1, <1>2, <1>3 DEF InboxInv

(* All run tasks are aborted. *)
LEMMA ShutdownAbortsSafe ==
  ASSUME InboxInv, TypeOK' /\ TargetsAreRuns', ShutdownAborts
  PROVE  InboxInv'
  <1>1. RunsAreLaunched'
    BY DEF InboxInv, TypeOK, RunsAreLaunched, ShutdownAborts, Shut, Gone,
         DriverPhases, Joined, JoinedPhases, OwningPhases
  <1>2. RunsOwnTheirConv'
    BY DEF InboxInv, TypeOK, RunsOwnTheirConv, OwningRuns, ShutdownAborts,
         Shut, Gone, OwningPhases, DriverPhases, Joined, JoinedPhases
  <1>3. ClaimsHaveOwners'
    BY DEF InboxInv, TypeOK, ClaimsHaveOwners, OwningRuns, ShutdownAborts,
         Shut, Gone, OwningPhases, DriverPhases, Joined, JoinedPhases
  <1>4. PendingMessagesAreQueued'
    BY DEF InboxInv, TypeOK, PendingMessagesAreQueued, MayCall,
         ShutdownAborts, Shut, Gone, DriverPhases, Joined, JoinedPhases,
         OwningPhases
  <1>5. ShutdownLeavesNoRun'
    BY DEF InboxInv, TypeOK, ShutdownLeavesNoRun, Joined, ShutdownAborts,
         Shut, Gone, JoinedPhases, OwningPhases, DriverPhases
  <1>6. ClaimsAreLocal' /\ CandidatesOwnTheirConv'
    BY DEF InboxInv, ClaimsAreLocal, CandidatesOwnTheirConv, ShutdownAborts,
         Shut, Gone
  <1>7. QED BY <1>1, <1>2, <1>3, <1>4, <1>5, <1>6 DEF InboxInv

------------------------------------------------------------------------------
(* The inductive invariant and what follows from it *)

(* The inbox starts in the invariant, and every step keeps it. *)
LEMMA InboxInvariant == Spec => []InboxInv
  <1>1. Init => InboxInv
    BY InboxAssumption
       DEF Init, InboxInv, TypeOK, HandlerEnds, RunPhases, JoinedPhases,
           OwningPhases, DriverPhases, RunsAreLaunched, ClaimsAreLocal,
           CandidatesOwnTheirConv, RunsOwnTheirConv, OwningRuns,
           ClaimsHaveOwners, TargetsAreRuns, PendingMessagesAreQueued,
           ShutdownLeavesNoRun
  <1>2. InboxInv /\ [Next]_vars => InboxInv'
    <2>1. SUFFICES ASSUME InboxInv, [Next]_vars PROVE InboxInv'
      OBVIOUS
    <2>2. TypeOK' /\ TargetsAreRuns'
      BY <2>1, TypeStep DEF InboxInv
    <2>3. CASE UNCHANGED vars
      BY <2>1, <2>3
         DEF vars, InboxInv, TypeOK, RunsAreLaunched, ClaimsAreLocal,
             CandidatesOwnTheirConv, RunsOwnTheirConv, OwningRuns,
             ClaimsHaveOwners, TargetsAreRuns, PendingMessagesAreQueued,
             MayCall, ShutdownLeavesNoRun, Joined
    <2>4. CASE \E m \in Messages : HandlerStep(m) \/ AcquirePermit(m)
      BY <2>1, <2>2, <2>4, TryClaimSafe, SubmitSafe, RejectPermitSafe,
         SpawnRunSafe, AcquirePermitSafe
         DEF HandlerStep
    <2>5. CASE \E m \in Messages : RunStep(m) \/ LlmAnswers(m) \/ SinkStep(m)
      BY <2>1, <2>2, <2>5, BeforeLlmSafe, TurnsExhaustedSafe, CancelRunSafe,
         OnStopSafe, ReleaseConvSafe, DriverStopsSafe, LlmCallsToolsSafe,
         LlmFinishesSafe, DeliverSafe, ReportSafe
         DEF RunStep, LlmAnswers, SinkStep
    <2>6. CASE ShutdownStep
      BY <2>1, <2>2, <2>6, ShutdownLocksSafe, ShutdownDrainedSafe,
         ShutdownAbortsSafe
         DEF ShutdownStep
    <2>7. CASE Environment
      BY <2>1, <2>2, <2>7, ReceiveStopSafe, ReceiveSafe, PolicyDeniesSafe,
         TurnFailsSafe, DropHandlerSafe, DriverPanicsSafe, RunPanicsSafe,
         ShutdownCancelsSafe
         DEF Environment
    <2>8. QED BY <2>1, <2>3, <2>4, <2>5, <2>6, <2>7 DEF Next
  <1>3. QED BY <1>1, <1>2, PTL DEF Spec

(* A run nobody stopped owns its conversation until it releases it, so a    *)
(* conversation never has two such runs, whatever stop messages, shutdowns, *)
(* panics and dropped calls interleave (try_claim_conv, release_conv,       *)
(* cancel_conv).                                                            *)
THEOREM RunsOwnTheirConvHolds == Spec => []RunsOwnTheirConv
  <1>1. InboxInv => RunsOwnTheirConv
    BY DEF InboxInv
  <1>2. QED BY <1>1, InboxInvariant, PTL

(* A claimed conversation has a receive() or a run that will release it,    *)
(* while the inbox is up and nothing panicked or was dropped.               *)
THEOREM ClaimsHaveOwnersHolds == Spec => []ClaimsHaveOwners
  <1>1. InboxInv => ClaimsHaveOwners
    BY DEF InboxInv
  <1>2. QED BY <1>1, InboxInvariant, PTL

(* An injected message is part of the next LLM request of the run it was    *)
(* queued for, if there is one (submit, drain, before_llm).                 *)
THEOREM NextTurnSeesInjectedHolds == Spec => []NextTurnSeesInjected
  <1>1. InboxInv => NextTurnSeesInjected
    BY DEF InboxInv, NextTurnSeesInjected, PendingMessagesAreQueued,
           TargetsAreRuns, TypeOK
  <1>2. QED BY <1>1, InboxInvariant, PTL

(* After shutdown has returned no run task exists: spawn_run checks the     *)
(* token under the lock that the drain held.                                *)
THEOREM ShutdownLeavesNoRunHolds == Spec => []ShutdownLeavesNoRun
  <1>1. InboxInv => ShutdownLeavesNoRun
    BY DEF InboxInv
  <1>2. QED BY <1>1, InboxInvariant, PTL
==============================================================================
