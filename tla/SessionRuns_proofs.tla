-------------------------- MODULE SessionRuns_proofs --------------------------
(***************************************************************************)
(* SessionRuns, proved for any number of runs, sessions, turns, fallbacks,  *)
(* commands, failures, shutdowns and restarts: types, control, that no      *)
(* response mixes the calls of two provider attempts, that no stored        *)
(* history has an open call, that every request is well-formed, and that    *)
(* the runs implement AgentRun.                                             *)
(***************************************************************************)
EXTENDS SessionSurvival, SessionHistory, Transcript_proofs

(* The types, and where a run stands agrees with what its loop holds. *)
LoopInv == TypeOK /\ ControlInv

------------------------------------------------------------------------------
(* Messages *)

LEMMA MessageTypes ==
  /\ \A r \in Runs : User(r) \in Messages
  /\ \A c \in CallIds : /\ Attachment(c) \in Messages
                        /\ ToolResult(c) \in Messages
                        /\ Interrupted(c) \in Messages
                        /\ \A s \in Sessions : ChannelOutbound(c, s) \in Messages
  /\ Summary \in Messages
  /\ \A i \in Nat : CommandInput(i) \in Messages
  /\ \A calls \in Responses : Assistant(calls) \in Messages
  /\ \A r \in Runs, t \in Nat : ProviderBlock(r, t) \in Messages
<1>1. \A r \in Runs : User(r) \in Messages
  BY DEF User, Messages
<1>2. \A c \in CallIds : Attachment(c) \in Messages
  BY DEF Attachment, Messages
<1>3. \A c \in CallIds : ToolResult(c) \in Messages
  BY DEF ToolResult, Messages
<1>4. \A c \in CallIds : Interrupted(c) \in Messages
  BY DEF Interrupted, Messages
<1>5. \A c \in CallIds, s \in Sessions : ChannelOutbound(c, s) \in Messages
  BY DEF ChannelOutbound, Messages
<1>6. Summary \in Messages
  BY DEF Summary, Messages
<1>7. \A i \in Nat : CommandInput(i) \in Messages
  BY DEF CommandInput, Messages
<1>8. \A calls \in Responses : Assistant(calls) \in Messages
  BY DEF Assistant, Messages
<1>9. \A r \in Runs, t \in Nat : ProviderBlock(r, t) \in Messages
  BY DEF ProviderBlock, Messages
<1>10. QED
  BY <1>1, <1>2, <1>3, <1>4, <1>5, <1>6, <1>7, <1>8, <1>9

LEMMA MessageKinds ==
  ASSUME NEW m \in Messages
  PROVE  /\ m.kind = "assistant" => m.calls \in Responses
         /\ m.kind = "outbound" => m.call \in CallIds /\ m.to \in Sessions
         /\ m.kind = "outbound" => NotifyRecord(m) \in Messages
<1>1. m.kind = "assistant" => m.calls \in Responses
  BY DEF Messages
<1>2. m.kind = "outbound" => m.call \in CallIds /\ m.to \in Sessions
  BY DEF Messages
<1>3. m.kind = "outbound" => NotifyRecord(m) \in Messages
  BY <1>2 DEF NotifyRecord, Messages
<1>4. QED
  BY <1>1, <1>2, <1>3

LEMMA ResponseTypes ==
  /\ <<>> \in Responses
  /\ \A calls \in Responses : calls \in Seq(CallIds)
  /\ \A calls \in Responses : calls # <<>> => Tail(calls) \in Responses /\ Head(calls) \in CallIds
<1>1. <<>> \in Responses
  BY DEF Responses
<1>2. \A calls \in Responses : calls \in Seq(CallIds)
  BY DEF Responses
<1>3. ASSUME NEW calls \in Responses, calls # <<>>
      PROVE  Tail(calls) \in Responses /\ Head(calls) \in CallIds
  <2>1. calls \in Seq(CallIds) /\ \A i, j \in DOMAIN calls : calls[i][3] = calls[j][3]
    BY DEF Responses
  <2>2. /\ Head(calls) \in CallIds /\ Tail(calls) \in Seq(CallIds)
        /\ Len(Tail(calls)) = Len(calls) - 1
        /\ \A i \in 1..Len(Tail(calls)) : Tail(calls)[i] = calls[i + 1]
    BY <1>3, <2>1, HeadTailProperties
  <2>3. Len(calls) \in Nat /\ DOMAIN calls = 1..Len(calls) /\ DOMAIN Tail(calls) = 1..Len(Tail(calls))
    BY <2>1, <2>2, InSeq
  <2>4. \A i \in DOMAIN Tail(calls) : i + 1 \in DOMAIN calls /\ Tail(calls)[i] = calls[i + 1]
    BY <2>2, <2>3
  <2>5. \A i, j \in DOMAIN Tail(calls) : Tail(calls)[i][3] = Tail(calls)[j][3]
    BY <2>1, <2>4
  <2>6. QED
    BY <2>2, <2>5 DEF Responses
<1>4. QED
  BY <1>1, <1>2, <1>3

(* The functions of Transcript keep to the messages of a log. *)
LEMMA LogTypes ==
  ASSUME NEW msgs \in Seq(Messages), SessionAssumption
  PROVE  /\ safe_prefix(msgs) \in Seq(Messages)
         /\ repaired_paused_log(msgs) \in Seq(Messages)
         /\ CompactedLog(msgs, KeepRecent) \in Seq(Messages)
         /\ ToSet(Compacted(msgs, KeepRecent)) \subseteq Messages
         /\ \A snap \in Seq(Messages) : longest_safe_prefix(snap, msgs) \in Seq(Messages)
<1>1. safe_prefix(msgs) \in Seq(Messages)
  BY SafePrefixIs
<1>2. repaired_paused_log(msgs) \in Seq(Messages)
  <2>1. \A m \in Messages : m.kind = "assistant" => m.calls \in Seq(CallIds)
    BY MessageKinds, ResponseTypes
  <2>2. \A c \in CallIds : Interrupted(c) \in Messages
    BY MessageTypes
  <2>3. QED
    BY <2>1, <2>2, RepairedLogIs
<1>3. KeepRecent \in Nat /\ Summary \in Messages
  BY MessageTypes DEF SessionAssumption
<1>4. /\ CompactedLog(msgs, KeepRecent) \in Seq(Messages)
      /\ Compacted(msgs, KeepRecent) \in Seq(Messages)
  BY <1>3, CompactionKeepsSafePrefix
<1>5. ToSet(Compacted(msgs, KeepRecent)) \subseteq Messages
  BY <1>4, InSeq
<1>6. QED
  BY <1>1, <1>2, <1>4, <1>5 DEF longest_safe_prefix

------------------------------------------------------------------------------
(* Updates *)

LEMMA SpendTypes ==
  ASSUME budget \in BudgetType, NEW n \in Nat,
         NEW event \in {"starts", "extras", "fallbacks", "injects", "cancels", "commands",
                        "faults", "shutdowns", "reboots"},
         Spend(event, n)
  PROVE  budget' \in BudgetType
<1>1. budget[event] \in Nat /\ budget[event] >= n
  BY DEF BudgetType, Spend
<1>2. budget[event] - n \in Nat
  BY <1>1
<1>3. budget' = [budget EXCEPT ![event] = budget[event] - n]
  BY DEF Spend
<1>4. QED
  BY <1>2, <1>3 DEF BudgetType

LEMMA FaultTypes ==
  ASSUME budget \in BudgetType, Fault
  PROVE  budget' \in BudgetType
<1>1. Spend("faults", 1)
  BY DEF Fault
<1>2. QED
  BY <1>1, SpendTypes

LEMMA LoopFields ==
  ASSUME TypeOK, NEW r \in Runs
  PROVE  /\ loop[r] \in Loops
         /\ loop[r].log \in Seq(Messages) /\ loop[r].todo \in Seq(Messages)
         /\ loop[r].batch \in Responses /\ loop[r].accum \in Responses
         /\ loop[r].turn \in Nat /\ loop[r].attempt \in Nat
<1>1. loop[r] \in Loops
  BY DEF TypeOK
<1>2. QED
  BY <1>1 DEF Loops

LEMMA NoLoopTypes ==
  /\ NoLoop \in Loops
  /\ NoLoop.todo = <<>> /\ NoLoop.batch = <<>> /\ NoLoop.accum = <<>>
<1>1. <<>> \in Responses /\ <<>> \in Seq(Messages)
  BY ResponseTypes
<1>2. QED
  BY <1>1 DEF NoLoop, Loops

(* What the types say of the values a step reads. *)
LEMMA ValueTypes ==
  ASSUME TypeOK, SessionAssumption, NEW r \in Runs
  PROVE  /\ SessionOf[r] \in Sessions
         /\ store[SessionOf[r]] \in Seq(Messages)
         /\ archive[SessionOf[r]] \subseteq Messages
         /\ cached[r] \in Seq(Messages) /\ snapshot[r] \in Seq(Messages)
         /\ fan[r] \in Seq(Messages) /\ copy[r] \in Seq(Messages)
         /\ history[r] \in Seq(Messages)
<1>1. SessionOf[r] \in Sessions
  BY DEF SessionAssumption
<1>2. QED
  BY <1>1 DEF TypeOK

LEMMA ControlStep ==
  ASSUME ControlInv, NEW r \in Runs, Control(r)',
         \A q \in Runs \ {r} : /\ pc'[q] = pc[q] /\ loop'[q] = loop[q]
                              /\ outcome'[q] = outcome[q] /\ fan'[q] = fan[q]
  PROVE  ControlInv'
<1>1. ASSUME NEW q \in Runs, q # r
      PROVE  Control(q)'
  BY <1>1 DEF ControlInv, Control
<1>2. QED
  BY <1>1 DEF ControlInv

LEMMA FinishKeeps ==
  ASSUME LoopInv, NEW r \in Runs, NEW how \in {"completed", "paused", "failed"}, Finish(r, how),
         fan' = fan
  PROVE  /\ pc' \in [Runs -> {"idle"} \cup LivePhases \cup EndPhases]
         /\ loop' \in [Runs -> Loops]
         /\ outcome' \in [Runs -> Outcomes]
         /\ ControlInv'
<1>1. /\ pc' = [pc EXCEPT ![r] = "stop"]
      /\ outcome' = [outcome EXCEPT ![r] = how]
      /\ loop' = [loop EXCEPT ![r] = NoLoop]
  BY DEF Finish, Goto
<1>2. /\ pc' \in [Runs -> {"idle"} \cup LivePhases \cup EndPhases]
      /\ loop' \in [Runs -> Loops]
      /\ outcome' \in [Runs -> Outcomes]
  BY <1>1, NoLoopTypes DEF LoopInv, TypeOK, LivePhases, FinalPhases, Outcomes
<1>3. Control(r)'
  <2>1. pc'[r] = "stop" /\ outcome'[r] = how /\ loop'[r] = NoLoop
    BY <1>1 DEF LoopInv, TypeOK
  <2>2. DOMAIN NoLoop.accum = {} /\ DOMAIN NoLoop.batch = {}
    BY NoLoopTypes
  <2>3. QED
    BY <2>1, <2>2, NoLoopTypes DEF AppendPhases, Control
<1>4. ControlInv'
  <2>1. \A q \in Runs \ {r} : /\ pc'[q] = pc[q] /\ loop'[q] = loop[q]
                              /\ outcome'[q] = outcome[q] /\ fan'[q] = fan[q]
    BY <1>1 DEF LoopInv, TypeOK
  <2>2. QED
    BY <1>3, <2>1, ControlStep DEF LoopInv
<1>5. QED
  BY <1>2, <1>4

(* A step inside the loop, from a run's phase and locals to p and l. *)
LEMMA LoopStep ==
  ASSUME LoopInv, NEW r \in Runs, NEW p \in InnerPhases, NEW l \in Loops,
         pc' = [pc EXCEPT ![r] = p], loop' = [loop EXCEPT ![r] = l],
         outcome' = outcome, fan' = fan,
         p \in AppendPhases <=> l.todo # <<>>,
         p \in {"tool", "execute"} => l.batch # <<>>,
         \A i \in DOMAIN l.accum : l.accum[i][1] = r /\ l.accum[i][3] = l.attempt,
         \A i \in DOMAIN l.batch : l.batch[i][1] = r
  PROVE  /\ pc' \in [Runs -> {"idle"} \cup LivePhases \cup EndPhases]
         /\ loop' \in [Runs -> Loops]
         /\ ControlInv'
<1>1. /\ pc' \in [Runs -> {"idle"} \cup LivePhases \cup EndPhases]
      /\ loop' \in [Runs -> Loops]
  BY DEF LoopInv, TypeOK, LivePhases
<1>2. pc'[r] = p /\ loop'[r] = l
  BY DEF LoopInv, TypeOK
<1>3. p \notin {"fanwrite", "stop"}
  BY DEF InnerPhases
<1>4. Control(r)'
  BY <1>2, <1>3 DEF Control
<1>5. ControlInv'
  BY <1>4, ControlStep DEF LoopInv, TypeOK
<1>6. QED
  BY <1>1, <1>5

(* What Control says of the calls of run r. *)
LEMMA OwnCalls ==
  ASSUME LoopInv, NEW r \in Runs
  PROVE  /\ \A i \in DOMAIN loop[r].accum :
              loop[r].accum[i][1] = r /\ loop[r].accum[i][3] = loop[r].attempt
         /\ \A i \in DOMAIN loop[r].batch : loop[r].batch[i][1] = r
         /\ pc[r] \in AppendPhases <=> loop[r].todo # <<>>
         /\ pc[r] \in {"tool", "execute"} => loop[r].batch # <<>>
  BY DEF LoopInv, ControlInv, Control

------------------------------------------------------------------------------
(* One lemma per action of a driver *)

LEMMA SpawnDriverTypes ==
  ASSUME LoopInv, SessionAssumption, NEW r \in Runs, SpawnDriver(r)
  PROVE  LoopInv'
<1>1. budget' \in BudgetType
  BY SpendTypes DEF SpawnDriver, LoopInv, TypeOK
<1>2. PICK p \in {"start", "refused"} : pc' = [pc EXCEPT ![r] = p]
  BY DEF SpawnDriver, Goto
<1>3. /\ pc[r] = "idle"
      /\ UNCHANGED <<store, archive, loop, opened, cached, snapshot, muted, pending, outcome, fan,
                     copy, cancelled, dropped, kernel, paused, command, history, ready, executed,
                     recorded, arrived, tainted>>
  BY DEF SpawnDriver, stores, hooks, fanout, signals, observed
<1>4. TypeOK'
  BY <1>1, <1>2, <1>3 DEF LoopInv, TypeOK, LivePhases, InnerPhases, EndPhases
<1>5. Control(r)'
  <2>1. pc'[r] = p /\ loop' = loop /\ outcome' = outcome /\ fan' = fan
    BY <1>2, <1>3 DEF LoopInv, TypeOK
  <2>2. pc[r] \notin AppendPhases /\ pc'[r] \notin AppendPhases
    BY <1>3, <2>1 DEF AppendPhases
  <2>3. QED
    BY <2>1, <2>2 DEF LoopInv, ControlInv, Control
<1>6. ControlInv'
  BY <1>2, <1>3, <1>5, ControlStep DEF LoopInv, TypeOK
<1>7. QED
  BY <1>4, <1>6 DEF LoopInv

LEMMA OpenSessionTypes ==
  ASSUME LoopInv, SessionAssumption, NEW r \in Runs, OpenSession(r)
  PROVE  LoopInv'
<1>1. PICK todo : /\ loop' = [loop EXCEPT ![r].todo = todo]
                  /\ todo \in Seq(Messages) /\ todo # <<>>
  <2>1. User(r) \in Messages /\ store[SessionOf[r]] \in Seq(Messages)
    BY MessageTypes, ValueTypes DEF LoopInv
  <2>2. /\ Append(store[SessionOf[r]], User(r)) \in Seq(Messages)
        /\ Append(store[SessionOf[r]], User(r)) # <<>>
    BY <2>1, AppendProperties
  <2>3. <<User(r)>> \in Seq(Messages) /\ <<User(r)>> # <<>>
    BY <2>1
  <2>4. \/ loop' = [loop EXCEPT ![r].todo = Append(store[SessionOf[r]], User(r))]
        \/ loop' = [loop EXCEPT ![r].todo = <<User(r)>>]
    BY DEF OpenSession
  <2>5. QED
    BY <2>2, <2>3, <2>4
<1>2. /\ pc[r] = "start" /\ pc' = [pc EXCEPT ![r] = "replay"]
      /\ UNCHANGED <<store, archive, muted, pending, outcome, fan, copy, cancelled, dropped,
                     kernel, paused, command, ready, executed, recorded, arrived>>
  BY DEF OpenSession, At, Goto, stores, hooks, fanout, signals, observed
<1>3. loop' \in [Runs -> Loops]
  <2>1. loop[r] \in Loops
    BY LoopFields DEF LoopInv
  <2>2. [loop[r] EXCEPT !.todo = todo] \in Loops
    BY <1>1, <2>1 DEF Loops
  <2>3. loop' = [loop EXCEPT ![r] = [loop[r] EXCEPT !.todo = todo]]
    BY <1>1 DEF LoopInv, TypeOK
  <2>4. QED
    BY <2>2, <2>3 DEF LoopInv, TypeOK
<1>4. /\ opened' \subseteq Runs /\ tainted' \subseteq Sessions /\ budget' \in BudgetType
      /\ cached' \in [Runs -> Seq(Messages)] /\ snapshot' \in [Runs -> Seq(Messages)]
      /\ history' \in [Runs -> Seq(Messages)]
  <2>1. SessionOf[r] \in Sessions /\ store[SessionOf[r]] \in Seq(Messages)
    BY ValueTypes DEF LoopInv
  <2>2. budget' \in BudgetType
    BY FaultTypes DEF OpenSession, LoopInv, TypeOK
  <2>3. QED
    BY <2>1, <2>2 DEF OpenSession, LoopInv, TypeOK
<1>5. TypeOK'
  BY <1>2, <1>3, <1>4 DEF LoopInv, TypeOK, LivePhases, InnerPhases
<1>6. Control(r)'
  <2>1. pc'[r] = "replay" /\ loop'[r].todo = todo /\ loop'[r].accum = loop[r].accum
        /\ loop'[r].batch = loop[r].batch /\ loop'[r].attempt = loop[r].attempt
    BY <1>1, <1>2 DEF LoopInv, TypeOK, Loops
  <2>2. QED
    BY <1>1, <2>1 DEF LoopInv, ControlInv, Control, AppendPhases
<1>7. ControlInv'
  BY <1>1, <1>2, <1>6, ControlStep DEF LoopInv, TypeOK
<1>8. QED
  BY <1>5, <1>7 DEF LoopInv

LEMMA PauseTypes ==
  ASSUME LoopInv, SessionAssumption, NEW r \in Runs, Pause(r)
  PROVE  LoopInv'
<1>1. /\ Finish(r, "paused")
      /\ UNCHANGED <<store, archive, opened, cached, snapshot, muted, pending, fan, copy,
                     cancelled, dropped, kernel, paused, command, budget, history, ready,
                     executed, recorded, arrived, tainted>>
  BY DEF Pause, stores, hooks, fanout, signals, observed
<1>2. /\ pc' \in [Runs -> {"idle"} \cup LivePhases \cup EndPhases]
      /\ loop' \in [Runs -> Loops]
      /\ outcome' \in [Runs -> Outcomes]
      /\ ControlInv'
  BY <1>1, FinishKeeps
<1>3. QED
  BY <1>1, <1>2 DEF LoopInv, TypeOK

LEMMA BeginTurnTypes ==
  ASSUME LoopInv, SessionAssumption, NEW r \in Runs, BeginTurn(r)
  PROVE  LoopInv'
<1>1. /\ pc[r] = "turn"
      /\ UNCHANGED <<store, loop, opened, cached, snapshot, pending, outcome, fan, copy,
                     cancelled, dropped, kernel, paused, command, history, ready, executed,
                     recorded, arrived, tainted>>
  BY DEF BeginTurn, At, fanout, signals, observed
<1>2. PICK p \in {"summarize", "request"} : pc' = [pc EXCEPT ![r] = p]
  BY DEF BeginTurn, Goto
<1>3. archive' \in [Sessions -> SUBSET Messages] /\ muted' \subseteq Runs
  <2>1. loop[r].log \in Seq(Messages)
    BY LoopFields DEF LoopInv
  <2>2. ToSet(Compacted(loop[r].log, KeepRecent)) \subseteq Messages
    BY <2>1, LogTypes
  <2>3. muted' \subseteq Runs
    BY DEF BeginTurn, LoopInv, TypeOK
  <2>4. \/ archive' = archive
        \/ archive' = [archive EXCEPT ![SessionOf[r]] =
                          @ \cup ToSet(Compacted(loop[r].log, KeepRecent))]
    BY DEF BeginTurn
  <2>5. archive' \in [Sessions -> SUBSET Messages]
    BY <2>2, <2>4, ZenonT(60) DEF LoopInv, TypeOK
  <2>6. QED
    BY <2>3, <2>5
<1>4. budget' \in BudgetType
  BY FaultTypes DEF BeginTurn, LoopInv, TypeOK
<1>5. /\ pc' \in [Runs -> {"idle"} \cup LivePhases \cup EndPhases]
      /\ ControlInv'
  <2>1. loop[r] \in Loops /\ loop' = [loop EXCEPT ![r] = loop[r]]
    BY <1>1, LoopFields DEF LoopInv, TypeOK
  <2>2. p \in InnerPhases /\ p \notin AppendPhases /\ p \notin {"tool", "execute"}
    BY DEF InnerPhases, AppendPhases
  <2>3. pc[r] \notin AppendPhases
    BY <1>1 DEF AppendPhases
  <2>4. /\ p \in AppendPhases <=> loop[r].todo # <<>>
        /\ \A i \in DOMAIN loop[r].accum :
             loop[r].accum[i][1] = r /\ loop[r].accum[i][3] = loop[r].attempt
        /\ \A i \in DOMAIN loop[r].batch : loop[r].batch[i][1] = r
    BY <2>2, <2>3, OwnCalls
  <2>5. outcome' = outcome /\ fan' = fan
    BY <1>1
  <2> HIDE <1>1
  <2>6. QED
    BY <1>2, <2>1, <2>2, <2>4, <2>5, LoopStep
<1>6. QED
  BY <1>1, <1>3, <1>4, <1>5 DEF LoopInv, TypeOK

LEMMA SummarizeTypes ==
  ASSUME LoopInv, SessionAssumption, NEW r \in Runs, Summarize(r)
  PROVE  LoopInv'
<1>1. /\ pc[r] = "summarize" /\ pc' = [pc EXCEPT ![r] = "request"]
      /\ UNCHANGED <<store, archive, opened, cached, snapshot, pending, outcome, fan, copy,
                     cancelled, dropped, kernel, paused, command, budget, history, ready,
                     executed, recorded, arrived, tainted>>
  BY DEF Summarize, At, Goto, stores, fanout, signals, observed
<1>2. muted' \subseteq Runs
  BY DEF Summarize, LoopInv, TypeOK
<1>3. PICK log \in Seq(Messages) : loop' = [loop EXCEPT ![r] = [loop[r] EXCEPT !.log = log]]
  <2>1. loop[r].log \in Seq(Messages)
    BY LoopFields DEF LoopInv
  <2>2. CompactedLog(loop[r].log, KeepRecent) \in Seq(Messages)
    BY <2>1, LogTypes
  <2>3. CASE loop' = [loop EXCEPT ![r].log = CompactedLog(@, KeepRecent)]
    BY <2>2, <2>3
  <2>4. CASE loop' = loop
    <3>1. loop[r] = [loop[r] EXCEPT !.log = loop[r].log]
      BY LoopFields DEF LoopInv, Loops
    <3>2. loop' = [loop EXCEPT ![r] = [loop[r] EXCEPT !.log = loop[r].log]]
      BY <2>4, <3>1 DEF LoopInv, TypeOK
    <3>3. QED
      BY <2>1, <3>2
  <2>5. QED
    BY <2>3, <2>4 DEF Summarize
<1>4. PICK l : l = [loop[r] EXCEPT !.log = log]
  OBVIOUS
<1>5. /\ l \in Loops /\ l.todo = loop[r].todo /\ l.batch = loop[r].batch
      /\ l.accum = loop[r].accum /\ l.attempt = loop[r].attempt
  BY <1>4, LoopFields DEF LoopInv, Loops
<1>6. /\ pc' \in [Runs -> {"idle"} \cup LivePhases \cup EndPhases]
      /\ loop' \in [Runs -> Loops]
      /\ ControlInv'
  <2>1. "request" \in InnerPhases /\ "request" \notin AppendPhases /\ pc[r] \notin AppendPhases
    BY <1>1 DEF InnerPhases, AppendPhases
  <2>2. /\ "request" \in AppendPhases <=> l.todo # <<>>
        /\ \A i \in DOMAIN l.accum : l.accum[i][1] = r /\ l.accum[i][3] = l.attempt
        /\ \A i \in DOMAIN l.batch : l.batch[i][1] = r
    BY <1>5, <2>1, OwnCalls
  <2>3. /\ outcome' = outcome /\ fan' = fan
        /\ pc' = [pc EXCEPT ![r] = "request"] /\ loop' = [loop EXCEPT ![r] = l]
    BY <1>1, <1>3, <1>4
  <2>4. l \in Loops /\ "request" \notin {"tool", "execute"}
    BY <1>5
  <2>5. QED
    BY <2>1, <2>2, <2>3, <2>4, LoopStep
<1>7. QED
  BY <1>1, <1>2, <1>6 DEF LoopInv, TypeOK

LEMMA SendRequestTypes ==
  ASSUME LoopInv, SessionAssumption, NEW r \in Runs, SendRequest(r)
  PROVE  LoopInv'
<1>1. /\ pc[r] = "request" /\ pc' = [pc EXCEPT ![r] = "llm"]
      /\ pending' = [pending EXCEPT ![r] = <<>>]
      /\ UNCHANGED <<store, archive, opened, cached, snapshot, muted, outcome, fan, copy,
                     cancelled, dropped, kernel, paused, command, budget, history, ready,
                     executed, recorded, arrived, tainted>>
  BY DEF SendRequest, At, Goto, stores, fanout, signals, observed
<1>2. PICK l : l = [loop[r] EXCEPT !.attempt = 1, !.accum = <<>>]
  OBVIOUS
<1>3. /\ l \in Loops /\ l.todo = loop[r].todo /\ l.batch = loop[r].batch /\ l.accum = <<>>
  BY <1>2, LoopFields, ResponseTypes DEF LoopInv, Loops
<1>4. loop' = [loop EXCEPT ![r] = l]
  BY <1>2 DEF SendRequest, LoopInv, TypeOK
<1>5. /\ pc' \in [Runs -> {"idle"} \cup LivePhases \cup EndPhases]
      /\ loop' \in [Runs -> Loops]
      /\ ControlInv'
  <2>1. "llm" \in InnerPhases /\ "llm" \notin AppendPhases /\ pc[r] \notin AppendPhases
    BY <1>1 DEF InnerPhases, AppendPhases
  <2>2. /\ "llm" \in AppendPhases <=> l.todo # <<>>
        /\ \A i \in DOMAIN l.accum : l.accum[i][1] = r /\ l.accum[i][3] = l.attempt
        /\ \A i \in DOMAIN l.batch : l.batch[i][1] = r
    BY <1>3, <2>1, OwnCalls
  <2>3. outcome' = outcome /\ fan' = fan /\ pc' = [pc EXCEPT ![r] = "llm"]
    BY <1>1
  <2>4. l \in Loops /\ "llm" \notin {"tool", "execute"}
    BY <1>3
  <2>5. QED
    BY <1>4, <2>1, <2>2, <2>3, <2>4, LoopStep
<1>6. pending' \in [Runs -> Seq([kind : {"injected"}, nth : Nat])]
  BY <1>1 DEF LoopInv, TypeOK
<1>7. QED
  BY <1>1, <1>5, <1>6 DEF LoopInv, TypeOK

LEMMA StreamToolUseTypes ==
  ASSUME LoopInv, SessionAssumption, NEW r \in Runs, StreamToolUse(r)
  PROVE  LoopInv'
<1>1. /\ pc[r] = "llm"
      /\ UNCHANGED <<store, archive, pc, opened, cached, snapshot, muted, pending, outcome, fan,
                     copy, cancelled, dropped, kernel, paused, command, budget, history, ready,
                     executed, recorded, arrived, tainted>>
  BY DEF StreamToolUse, At, stores, hooks, fanout, signals, observed
<1>2. PICK c, accum : /\ c = <<r, loop[r].turn, loop[r].attempt, Len(loop[r].accum) + 1>>
                      /\ accum = Append(loop[r].accum, c)
  OBVIOUS
<1>3. loop' = [loop EXCEPT ![r] = [loop[r] EXCEPT !.accum = accum]]
  BY <1>2 DEF StreamToolUse, LoopInv, TypeOK
<1>4. /\ c \in CallIds /\ c[1] = r /\ c[3] = loop[r].attempt
      /\ loop[r].accum \in Seq(CallIds)
  <2>1. loop[r].accum \in Seq(CallIds)
    BY LoopFields, ResponseTypes DEF LoopInv
  <2>2. Len(loop[r].accum) \in Nat
    BY <2>1, InSeq
  <2>3. QED
    BY <1>2, <2>1, <2>2, LoopFields DEF LoopInv, CallIds
<1>5. /\ accum \in Seq(CallIds)
      /\ \A i \in DOMAIN accum : accum[i][1] = r /\ accum[i][3] = loop[r].attempt
  <2>1. /\ accum \in Seq(CallIds)
        /\ Len(accum) = Len(loop[r].accum) + 1
        /\ \A i \in 1..Len(loop[r].accum) : accum[i] = loop[r].accum[i]
        /\ accum[Len(loop[r].accum) + 1] = c
    BY <1>2, <1>4, AppendProperties
  <2>2. /\ Len(loop[r].accum) \in Nat /\ DOMAIN loop[r].accum = 1..Len(loop[r].accum)
        /\ DOMAIN accum = 1..Len(accum)
    BY <1>4, <2>1, InSeq
  <2>3. \A i \in DOMAIN accum : i \in DOMAIN loop[r].accum \/ i = Len(loop[r].accum) + 1
    BY <2>1, <2>2
  <2>4. \A i \in DOMAIN loop[r].accum :
          loop[r].accum[i][1] = r /\ loop[r].accum[i][3] = loop[r].attempt
    BY OwnCalls
  <2>5. QED
    BY <1>4, <2>1, <2>2, <2>3, <2>4, SMTT(30)
<1>6. accum \in Responses
  BY <1>5 DEF Responses
<1>7. PICK l : l = [loop[r] EXCEPT !.accum = accum]
  OBVIOUS
<1>8. /\ l \in Loops /\ l.todo = loop[r].todo /\ l.batch = loop[r].batch
      /\ l.accum = accum /\ l.attempt = loop[r].attempt
  BY <1>6, <1>7, LoopFields DEF LoopInv, Loops
<1>9. /\ pc' \in [Runs -> {"idle"} \cup LivePhases \cup EndPhases]
      /\ loop' \in [Runs -> Loops]
      /\ ControlInv'
  <2>1. "llm" \in InnerPhases /\ "llm" \notin AppendPhases /\ "llm" \notin {"tool", "execute"}
    BY DEF InnerPhases, AppendPhases
  <2>2. /\ "llm" \in AppendPhases <=> l.todo # <<>>
        /\ \A i \in DOMAIN l.accum : l.accum[i][1] = r /\ l.accum[i][3] = l.attempt
        /\ \A i \in DOMAIN l.batch : l.batch[i][1] = r
    BY <1>1, <1>5, <1>8, <2>1, OwnCalls
  <2>3. outcome' = outcome /\ fan' = fan /\ pc' = [pc EXCEPT ![r] = "llm"]
    BY <1>1 DEF LoopInv, TypeOK
  <2>4. loop' = [loop EXCEPT ![r] = l] /\ l \in Loops
    BY <1>3, <1>7, <1>8
  <2>5. QED
    BY <2>1, <2>2, <2>3, <2>4, LoopStep
<1>10. QED
  BY <1>1, <1>9 DEF LoopInv, TypeOK

LEMMA FallBackTypes ==
  ASSUME LoopInv, SessionAssumption, NEW r \in Runs, FallBack(r)
  PROVE  LoopInv'
<1>1. /\ pc[r] = "llm"
      /\ UNCHANGED <<store, archive, pc, opened, cached, snapshot, muted, pending, outcome, fan,
                     copy, cancelled, dropped, kernel, paused, command, history, ready,
                     executed, recorded, arrived, tainted>>
  BY DEF FallBack, At, stores, hooks, fanout, signals, observed
<1>2. budget' \in BudgetType
  BY SpendTypes DEF FallBack, LoopInv, TypeOK
<1>3. PICK l : l = [loop[r] EXCEPT !.attempt = @ + 1, !.accum = <<>>]
  OBVIOUS
<1>4. /\ l \in Loops /\ l.todo = loop[r].todo /\ l.batch = loop[r].batch /\ l.accum = <<>>
  <2>1. loop[r] \in Loops /\ loop[r].attempt + 1 \in Nat /\ <<>> \in Responses
    BY LoopFields, ResponseTypes DEF LoopInv
  <2>2. l = [loop[r] EXCEPT !.attempt = loop[r].attempt + 1, !.accum = <<>>]
    BY <1>3
  <2>3. QED
    BY <2>1, <2>2 DEF Loops
<1>5. loop' = [loop EXCEPT ![r] = l]
  BY <1>3 DEF FallBack, LoopInv, TypeOK
<1>6. /\ pc' \in [Runs -> {"idle"} \cup LivePhases \cup EndPhases]
      /\ loop' \in [Runs -> Loops]
      /\ ControlInv'
  <2>1. "llm" \in InnerPhases /\ "llm" \notin AppendPhases /\ "llm" \notin {"tool", "execute"}
    BY DEF InnerPhases, AppendPhases
  <2>2. /\ "llm" \in AppendPhases <=> l.todo # <<>>
        /\ \A i \in DOMAIN l.accum : l.accum[i][1] = r /\ l.accum[i][3] = l.attempt
        /\ \A i \in DOMAIN l.batch : l.batch[i][1] = r
    BY <1>1, <1>4, <2>1, OwnCalls
  <2>3. outcome' = outcome /\ fan' = fan /\ pc' = [pc EXCEPT ![r] = "llm"]
    BY <1>1 DEF LoopInv, TypeOK
  <2>4. QED
    BY <1>4, <1>5, <2>1, <2>2, <2>3, LoopStep
<1>7. QED
  BY <1>1, <1>2, <1>6 DEF LoopInv, TypeOK

LEMMA EndResponseTypes ==
  ASSUME LoopInv, SessionAssumption, NEW r \in Runs, EndResponse(r)
  PROVE  LoopInv'
<1>1. /\ pc[r] = "llm" /\ pc' = [pc EXCEPT ![r] = "answer"]
      /\ UNCHANGED <<store, archive, opened, cached, snapshot, muted, pending, outcome, fan,
                     copy, cancelled, dropped, kernel, paused, command, history, ready,
                     executed, recorded, arrived, tainted>>
  BY DEF EndResponse, At, Goto, stores, hooks, fanout, signals, observed
<1>2. PICK blocks \in {<<>>, <<ProviderBlock(r, loop[r].turn)>>} :
        /\ Spend("extras", Len(blocks))
        /\ loop' = [loop EXCEPT ![r].todo = Append(blocks, Assistant(loop[r].accum)),
                                ![r].batch = loop[r].accum, ![r].accum = <<>>]
  BY DEF EndResponse
<1>3. /\ blocks \in Seq(Messages) /\ Assistant(loop[r].accum) \in Messages
      /\ loop[r].accum \in Responses
  <2>1. loop[r].accum \in Responses /\ loop[r].turn \in Nat
    BY LoopFields DEF LoopInv
  <2>2. Assistant(loop[r].accum) \in Messages /\ ProviderBlock(r, loop[r].turn) \in Messages
    BY <2>1, MessageTypes
  <2>3. <<>> \in Seq(Messages) /\ <<ProviderBlock(r, loop[r].turn)>> \in Seq(Messages)
    BY <2>2
  <2>4. QED
    BY <2>1, <2>2, <2>3
<1>4. budget' \in BudgetType
  <2>1. Len(blocks) \in Nat
    BY <1>3, InSeq
  <2>2. QED
    BY <1>2, <2>1, SpendTypes DEF LoopInv, TypeOK
<1>5. PICK todo : todo = Append(blocks, Assistant(loop[r].accum))
  OBVIOUS
<1>6. todo \in Seq(Messages) /\ todo # <<>>
  BY <1>3, <1>5, AppendProperties
<1>7. PICK l : l = [loop[r] EXCEPT !.todo = todo, !.batch = loop[r].accum, !.accum = <<>>]
  OBVIOUS
<1>8. /\ l \in Loops /\ l.todo = todo /\ l.batch = loop[r].accum /\ l.accum = <<>>
  BY <1>3, <1>6, <1>7, LoopFields, ResponseTypes DEF LoopInv, Loops
<1>9. loop' = [loop EXCEPT ![r] = l]
  BY <1>2, <1>5, <1>7 DEF LoopInv, TypeOK
<1>10. /\ pc' \in [Runs -> {"idle"} \cup LivePhases \cup EndPhases]
       /\ loop' \in [Runs -> Loops]
       /\ ControlInv'
  <2>1. "answer" \in InnerPhases /\ "answer" \in AppendPhases /\ "answer" \notin {"tool", "execute"}
    BY DEF InnerPhases, AppendPhases
  <2>2. /\ "answer" \in AppendPhases <=> l.todo # <<>>
        /\ \A i \in DOMAIN l.accum : l.accum[i][1] = r /\ l.accum[i][3] = l.attempt
        /\ \A i \in DOMAIN l.batch : l.batch[i][1] = r
    BY <1>6, <1>8, <2>1, OwnCalls
  <2>3. outcome' = outcome /\ fan' = fan /\ pc' = [pc EXCEPT ![r] = "answer"]
    BY <1>1
  <2>4. QED
    BY <1>8, <1>9, <2>1, <2>2, <2>3, LoopStep
<1>11. QED
  BY <1>1, <1>4, <1>10 DEF LoopInv, TypeOK

LEMMA DispatchToolTypes ==
  ASSUME LoopInv, SessionAssumption, NEW r \in Runs, DispatchTool(r)
  PROVE  LoopInv'
<1>1. /\ pc[r] = "tool" /\ pc' = [pc EXCEPT ![r] = "execute"]
      /\ UNCHANGED <<store, archive, loop, opened, cached, snapshot, muted, pending, outcome, fan,
                     copy, cancelled, dropped, kernel, paused, command, budget, history, ready,
                     executed, recorded, arrived, tainted>>
  BY DEF DispatchTool, At, Goto, stores, hooks, fanout, signals, observed
<1>2. /\ pc' \in [Runs -> {"idle"} \cup LivePhases \cup EndPhases]
      /\ ControlInv'
  <2>1. "execute" \in InnerPhases /\ "execute" \notin AppendPhases /\ pc[r] \notin AppendPhases
    BY <1>1 DEF InnerPhases, AppendPhases
  <2>2. /\ "execute" \in AppendPhases <=> loop[r].todo # <<>>
        /\ "execute" \in {"tool", "execute"} => loop[r].batch # <<>>
        /\ \A i \in DOMAIN loop[r].accum :
             loop[r].accum[i][1] = r /\ loop[r].accum[i][3] = loop[r].attempt
        /\ \A i \in DOMAIN loop[r].batch : loop[r].batch[i][1] = r
    BY <1>1, <2>1, OwnCalls
  <2>3. /\ outcome' = outcome /\ fan' = fan /\ pc' = [pc EXCEPT ![r] = "execute"]
        /\ loop' = [loop EXCEPT ![r] = loop[r]] /\ loop[r] \in Loops
    BY <1>1, LoopFields DEF LoopInv, TypeOK
  <2>4. QED
    BY <2>1, <2>2, <2>3, LoopStep
<1>3. QED
  BY <1>1, <1>2 DEF LoopInv, TypeOK

LEMMA ResolveToolTypes ==
  ASSUME LoopInv, SessionAssumption, NEW r \in Runs, ResolveTool(r)
  PROVE  LoopInv'
<1>1. /\ pc[r] = "execute" /\ pc' = [pc EXCEPT ![r] = "resolve"]
      /\ executed' = executed \cup {Head(loop[r].batch)}
      /\ UNCHANGED <<store, archive, opened, cached, snapshot, muted, pending, outcome, fan,
                     copy, cancelled, dropped, kernel, paused, command, history, ready,
                     recorded, arrived, tainted>>
  BY DEF ResolveTool, At, Goto, stores, hooks, fanout, signals
<1>2. PICK c : c = Head(loop[r].batch)
  OBVIOUS
<1>3. PICK x \in {<<>>, <<Attachment(c)>>} \cup {<<ChannelOutbound(c, s)>> : s \in Sessions} :
        /\ Spend("extras", Len(x))
        /\ loop' = [loop EXCEPT ![r].todo = <<ToolResult(c)>> \o x, ![r].batch = Tail(@)]
  BY <1>2 DEF ResolveTool
<1>4. /\ loop[r].batch \in Responses /\ loop[r].batch # <<>>
      /\ Tail(loop[r].batch) \in Responses /\ c \in CallIds
  BY <1>1, <1>2, OwnCalls, LoopFields, ResponseTypes DEF LoopInv
<1>5. x \in Seq(Messages) /\ <<ToolResult(c)>> \in Seq(Messages) /\ <<ToolResult(c)>> # <<>>
  <2>1. /\ Attachment(c) \in Messages /\ ToolResult(c) \in Messages
        /\ \A s \in Sessions : ChannelOutbound(c, s) \in Messages
    BY <1>4, MessageTypes
  <2>2. <<>> \in Seq(Messages) /\ <<Attachment(c)>> \in Seq(Messages)
    BY <2>1
  <2>3. \A s \in Sessions : <<ChannelOutbound(c, s)>> \in Seq(Messages)
    BY <2>1
  <2>4. x \in Seq(Messages)
    BY <2>2, <2>3
  <2>5. <<ToolResult(c)>> \in Seq(Messages) /\ <<ToolResult(c)>> # <<>>
    BY <2>1
  <2>6. QED
    BY <2>4, <2>5
<1>6. budget' \in BudgetType
  <2>1. Len(x) \in Nat
    BY <1>5, InSeq
  <2>2. QED
    BY <1>3, <2>1, SpendTypes DEF LoopInv, TypeOK
<1>7. PICK todo : todo = <<ToolResult(c)>> \o x
  OBVIOUS
<1>8. todo \in Seq(Messages) /\ todo # <<>>
  BY <1>5, <1>7, ConcatProperties, ConcatEqualIffEmpty
<1>9. PICK l : l = [loop[r] EXCEPT !.todo = todo, !.batch = Tail(@)]
  OBVIOUS
<1>10. /\ l \in Loops /\ l.todo = todo /\ l.batch = Tail(loop[r].batch)
       /\ l.accum = loop[r].accum /\ l.attempt = loop[r].attempt
  BY <1>4, <1>8, <1>9, LoopFields DEF LoopInv, Loops
<1>11. loop' = [loop EXCEPT ![r] = l]
  BY <1>3, <1>7, <1>9 DEF LoopInv, TypeOK
<1>12. \A i \in DOMAIN l.batch : l.batch[i][1] = r
  <2>1. loop[r].batch \in Seq(CallIds)
    BY <1>4, ResponseTypes
  <2>2. /\ Tail(loop[r].batch) \in Seq(CallIds)
        /\ Len(Tail(loop[r].batch)) = Len(loop[r].batch) - 1
        /\ \A i \in 1..Len(Tail(loop[r].batch)) : Tail(loop[r].batch)[i] = loop[r].batch[i + 1]
    BY <1>4, <2>1, HeadTailProperties
  <2>3. /\ Len(loop[r].batch) \in Nat /\ DOMAIN loop[r].batch = 1..Len(loop[r].batch)
        /\ DOMAIN Tail(loop[r].batch) = 1..Len(Tail(loop[r].batch))
    BY <2>1, <2>2, InSeq
  <2>4. \A i \in DOMAIN Tail(loop[r].batch) :
          i + 1 \in DOMAIN loop[r].batch /\ Tail(loop[r].batch)[i] = loop[r].batch[i + 1]
    BY <2>2, <2>3
  <2>5. QED
    BY <1>10, <2>4, OwnCalls
<1>13. /\ pc' \in [Runs -> {"idle"} \cup LivePhases \cup EndPhases]
       /\ loop' \in [Runs -> Loops]
       /\ ControlInv'
  <2>1. "resolve" \in InnerPhases /\ "resolve" \in AppendPhases /\ "resolve" \notin {"tool", "execute"}
    BY DEF InnerPhases, AppendPhases
  <2>2. /\ "resolve" \in AppendPhases <=> l.todo # <<>>
        /\ \A i \in DOMAIN l.accum : l.accum[i][1] = r /\ l.accum[i][3] = l.attempt
    BY <1>8, <1>10, <2>1, OwnCalls
  <2>3. outcome' = outcome /\ fan' = fan /\ pc' = [pc EXCEPT ![r] = "resolve"]
    BY <1>1
  <2>4. QED
    BY <1>10, <1>11, <1>12, <2>1, <2>2, <2>3, LoopStep
<1>14. executed' \subseteq CallIds
  BY <1>1, <1>2, <1>4 DEF LoopInv, TypeOK
<1>15. QED
  BY <1>1, <1>6, <1>13, <1>14 DEF LoopInv, TypeOK

LEMMA LeaveTypes ==
  ASSUME LoopInv, SessionAssumption, NEW r \in Runs, ObserveCancel(r) \/ Fail(r)
  PROVE  LoopInv'
<1>1. /\ Finish(r, "failed")
      /\ UNCHANGED <<store, archive, opened, cached, snapshot, muted, pending, fan, copy,
                     cancelled, dropped, kernel, paused, command, budget, history, ready,
                     executed, recorded, arrived, tainted>>
  BY DEF ObserveCancel, Fail, stores, hooks, fanout, signals, observed
<1>2. /\ pc' \in [Runs -> {"idle"} \cup LivePhases \cup EndPhases]
      /\ loop' \in [Runs -> Loops]
      /\ outcome' \in [Runs -> Outcomes]
      /\ ControlInv'
  BY <1>1, FinishKeeps
<1>3. QED
  BY <1>1, <1>2 DEF LoopInv, TypeOK

(* save_messages, of messages of a log. *)
LEMMA SaveTypes ==
  ASSUME TypeOK, NEW s \in Sessions, NEW msgs \in Seq(Messages), Save(s, msgs)
  PROVE  /\ store' \in [Sessions -> Seq(Messages)]
         /\ budget' \in BudgetType /\ tainted' \subseteq Sessions
<1>1. store' \in [Sessions -> Seq(Messages)] /\ tainted' \subseteq Sessions
  BY DEF Save, TypeOK
<1>2. budget' \in BudgetType
  BY FaultTypes DEF Save, TypeOK
<1>3. QED
  BY <1>1, <1>2

LEMMA OverwriteTypes ==
  ASSUME TypeOK, NEW s \in Sessions, NEW read, NEW msgs \in Seq(Messages),
         Overwrite(s, read, msgs)
  PROVE  /\ store' \in [Sessions -> Seq(Messages)]
         /\ budget' \in BudgetType /\ tainted' \subseteq Sessions
<1>1. store' \in [Sessions -> Seq(Messages)] /\ tainted' \subseteq Sessions
  BY DEF Overwrite, Overwritten, TypeOK
<1>2. budget' \in BudgetType
  BY FaultTypes DEF Overwrite, Overwritten, TypeOK
<1>3. QED
  BY <1>1, <1>2

(* What AppendMessage appends, and where it goes. *)
LEMMA AppendedIs ==
  ASSUME LoopInv, NEW r \in Runs, pc[r] \in AppendPhases
  PROVE  /\ loop[r].todo \in Seq(Messages) /\ loop[r].todo # <<>>
         /\ Len(loop[r].todo) \in Nat \ {0}
         /\ Head(loop[r].todo) \in Messages /\ Tail(loop[r].todo) \in Seq(Messages)
         /\ Len(loop[r].todo) = 1 <=> Tail(loop[r].todo) = <<>>
         /\ Append(loop[r].log, Head(loop[r].todo)) \in Seq(Messages)
         /\ AfterAppends(r) \in {"turn", "tool", "stop"}
         /\ AfterAppends(r) = "tool" => loop[r].batch # <<>>
         /\ pc[r] = "replay" => AfterAppends(r) = "turn"
<1>1. /\ loop[r].todo \in Seq(Messages) /\ loop[r].todo # <<>>
      /\ loop[r].log \in Seq(Messages)
  BY OwnCalls, LoopFields DEF LoopInv
<1>2. /\ Head(loop[r].todo) \in Messages /\ Tail(loop[r].todo) \in Seq(Messages)
      /\ Len(Tail(loop[r].todo)) = Len(loop[r].todo) - 1
  BY <1>1, HeadTailProperties
<1>3. Len(loop[r].todo) \in Nat \ {0} /\ Len(Tail(loop[r].todo)) \in Nat
  BY <1>1, <1>2, EmptySeq, InSeq
<1>4. Len(loop[r].todo) = 1 <=> Tail(loop[r].todo) = <<>>
  <2>1. PICK n, t : n = Len(loop[r].todo) /\ t = Tail(loop[r].todo)
    OBVIOUS
  <2>2. n \in Nat /\ t \in Seq(Messages) /\ Len(t) = n - 1
    BY <1>2, <1>3, <2>1
  <2>3. t = <<>> <=> Len(t) = 0
    BY <2>2, EmptySeq
  <2>4. QED
    BY <2>1, <2>2, <2>3
<1>5. Append(loop[r].log, Head(loop[r].todo)) \in Seq(Messages)
  BY <1>1, <1>2, AppendProperties
<1>6. /\ AfterAppends(r) \in {"turn", "tool", "stop"}
      /\ AfterAppends(r) = "tool" => loop[r].batch # <<>>
      /\ pc[r] = "replay" => AfterAppends(r) = "turn"
  BY DEF AfterAppends, AppendPhases
<1>7. QED
  BY <1>1, <1>2, <1>3, <1>4, <1>5, <1>6

LEMMA AppendMessageTypes ==
  ASSUME LoopInv, SessionAssumption, NEW r \in Runs, AppendMessage(r)
  PROVE  LoopInv'
<1>1. /\ pc[r] \in AppendPhases
      /\ UNCHANGED <<archive, opened, muted, pending, fan, copy, cancelled, dropped, kernel,
                     paused, command, executed, recorded, arrived>>
  BY DEF AppendMessage, At, AppendPhases, fanout, signals
<1>2. PICK log, next, todo : /\ log = Append(loop[r].log, Head(loop[r].todo))
                             /\ next = AfterAppends(r) /\ todo = Tail(loop[r].todo)
  OBVIOUS
<1>3. /\ log \in Seq(Messages) /\ todo \in Seq(Messages)
      /\ Len(loop[r].todo) = 1 <=> todo = <<>>
      /\ next \in {"turn", "tool", "stop"}
      /\ next = "tool" => loop[r].batch # <<>>
  BY <1>1, <1>2, AppendedIs
<1>4. SessionOf[r] \in Sessions
  BY DEF SessionAssumption
<1>5. /\ store' \in [Sessions -> Seq(Messages)]
      /\ budget' \in BudgetType /\ tainted' \subseteq Sessions
      /\ cached' \in [Runs -> Seq(Messages)] /\ snapshot' \in [Runs -> Seq(Messages)]
  <2>1. \/ Save(SessionOf[r], log)
        \/ UNCHANGED <<store, budget, tainted>>
    BY <1>2 DEF AppendMessage
  <2>2. /\ store' \in [Sessions -> Seq(Messages)]
        /\ budget' \in BudgetType /\ tainted' \subseteq Sessions
    BY <1>3, <1>4, <2>1, SaveTypes DEF LoopInv, TypeOK
  <2>3. cached' = [cached EXCEPT ![r] = log] \/ cached' = cached
    BY <1>2 DEF AppendMessage
  <2>4. snapshot' = [snapshot EXCEPT ![r] = log] \/ snapshot' = snapshot
    BY <1>2 DEF AppendMessage
  <2>5. cached' \in [Runs -> Seq(Messages)]
    BY <1>3, <2>3 DEF LoopInv, TypeOK
  <2>6. snapshot' \in [Runs -> Seq(Messages)]
    BY <1>3, <2>4 DEF LoopInv, TypeOK
  <2>7. QED
    BY <2>2, <2>5, <2>6
<1>6. history' \in [Runs -> Seq(Messages)] /\ ready' \subseteq Runs
  BY SMTT(30) DEF AppendMessage, LoopInv, TypeOK
<1>7. /\ pc' \in [Runs -> {"idle"} \cup LivePhases \cup EndPhases]
      /\ loop' \in [Runs -> Loops]
      /\ outcome' \in [Runs -> Outcomes]
      /\ ControlInv'
  <2>1. \/ /\ todo # <<>>
           /\ loop' = [loop EXCEPT ![r] = [loop[r] EXCEPT !.log = log, !.todo = todo]]
           /\ UNCHANGED <<pc, outcome>>
        \/ Finish(r, "completed")
        \/ /\ todo = <<>> /\ next # "stop"
           /\ pc' = [pc EXCEPT ![r] = next]
           /\ \E turn \in {loop[r].turn, loop[r].turn + 1} :
                loop' = [loop EXCEPT ![r] = [loop[r] EXCEPT !.log = log, !.todo = todo, !.turn = turn]]
           /\ UNCHANGED outcome
    <3>1. PICK l : l = [loop[r] EXCEPT !.log = log, !.todo = todo]
      OBVIOUS
    <3>2. [loop[r] EXCEPT !.log = Append(loop[r].log, Head(loop[r].todo)), !.todo = Tail(@)] = l
      BY <1>2, <3>1
    <3>3. \/ /\ Len(loop[r].todo) # 1
             /\ loop' = [loop EXCEPT ![r] = l]
             /\ UNCHANGED <<pc, outcome>>
          \/ /\ Len(loop[r].todo) = 1 /\ next = "stop"
             /\ Finish(r, "completed")
          \/ /\ Len(loop[r].todo) = 1 /\ next # "stop"
             /\ Goto(r, next)
             /\ loop' = [loop EXCEPT ![r] =
                           [l EXCEPT !.turn = IF pc[r] = "resolve" /\ next = "turn"
                                              THEN @ + 1 ELSE @]]
             /\ UNCHANGED outcome
      BY <1>2, <3>2 DEF AppendMessage
    <3>4. CASE /\ Len(loop[r].todo) = 1 /\ next # "stop"
               /\ Goto(r, next)
               /\ loop' = [loop EXCEPT ![r] =
                             [l EXCEPT !.turn = IF pc[r] = "resolve" /\ next = "turn"
                                                THEN @ + 1 ELSE @]]
               /\ UNCHANGED outcome
      <4>1. PICK turn \in {loop[r].turn, loop[r].turn + 1} :
              loop' = [loop EXCEPT ![r] = [l EXCEPT !.turn = turn]]
        <5>1. l.turn = loop[r].turn
          BY <3>1, LoopFields DEF LoopInv, Loops
        <5>2. QED
          BY <3>4, <5>1
      <4>2. [l EXCEPT !.turn = turn] = [loop[r] EXCEPT !.log = log, !.todo = todo, !.turn = turn]
        BY <3>1
      <4>3. loop' = [loop EXCEPT ![r] = [loop[r] EXCEPT !.log = log, !.todo = todo, !.turn = turn]]
        BY <4>1, <4>2
      <4>4. QED
        BY <1>3, <3>4, <4>3 DEF Goto
    <3>5. QED
      BY <1>3, <3>1, <3>3, <3>4
  <2>2. CASE Finish(r, "completed")
    BY <1>1, <2>2, FinishKeeps
  <2>3. ASSUME NEW p \in InnerPhases, NEW turn \in Nat,
               p \in AppendPhases <=> todo # <<>>,
               p \in {"tool", "execute"} => loop[r].batch # <<>>,
               pc' = [pc EXCEPT ![r] = p],
               loop' = [loop EXCEPT ![r] = [loop[r] EXCEPT !.log = log, !.todo = todo, !.turn = turn]],
               outcome' = outcome
        PROVE  /\ pc' \in [Runs -> {"idle"} \cup LivePhases \cup EndPhases]
               /\ loop' \in [Runs -> Loops]
               /\ ControlInv'
    <3>1. PICK l : l = [loop[r] EXCEPT !.log = log, !.todo = todo, !.turn = turn]
      OBVIOUS
    <3>2. /\ l \in Loops /\ l.todo = todo /\ l.batch = loop[r].batch
          /\ l.accum = loop[r].accum /\ l.attempt = loop[r].attempt
      BY <1>3, <3>1, LoopFields DEF LoopInv, Loops
    <3>3. /\ p \in AppendPhases <=> l.todo # <<>>
          /\ p \in {"tool", "execute"} => l.batch # <<>>
          /\ \A i \in DOMAIN l.accum : l.accum[i][1] = r /\ l.accum[i][3] = l.attempt
          /\ \A i \in DOMAIN l.batch : l.batch[i][1] = r
      BY <2>3, <3>2, OwnCalls
    <3>4. loop' = [loop EXCEPT ![r] = l] /\ fan' = fan
      BY <1>1, <2>3, <3>1
    <3>5. QED
      BY <2>3, <3>2, <3>3, <3>4, LoopStep
  <2>4. loop[r].turn \in Nat /\ loop[r].turn + 1 \in Nat
    BY LoopFields DEF LoopInv
  <2>5. CASE /\ todo # <<>>
             /\ loop' = [loop EXCEPT ![r] = [loop[r] EXCEPT !.log = log, !.todo = todo]]
             /\ UNCHANGED <<pc, outcome>>
    <3>1. /\ pc[r] \in InnerPhases /\ pc[r] \notin {"tool", "execute"}
          /\ pc' = [pc EXCEPT ![r] = pc[r]]
      BY <1>1, <2>5 DEF AppendPhases, InnerPhases, LoopInv, TypeOK
    <3>2. [loop[r] EXCEPT !.log = log, !.todo = todo] =
            [loop[r] EXCEPT !.log = log, !.todo = todo, !.turn = loop[r].turn]
      BY LoopFields DEF LoopInv, Loops
    <3>3. loop' = [loop EXCEPT ![r] =
                    [loop[r] EXCEPT !.log = log, !.todo = todo, !.turn = loop[r].turn]]
      BY <2>5, <3>2
    <3>4. outcome' \in [Runs -> Outcomes] /\ outcome' = outcome
      BY <2>5 DEF LoopInv, TypeOK
    <3>5. QED
      BY <1>1, <2>3, <2>4, <2>5, <3>1, <3>3, <3>4
  <2>6. CASE /\ todo = <<>> /\ next # "stop"
             /\ pc' = [pc EXCEPT ![r] = next]
             /\ \E turn \in {loop[r].turn, loop[r].turn + 1} :
                  loop' = [loop EXCEPT ![r] = [loop[r] EXCEPT !.log = log, !.todo = todo, !.turn = turn]]
             /\ UNCHANGED outcome
    <3>1. PICK turn \in Nat :
            loop' = [loop EXCEPT ![r] = [loop[r] EXCEPT !.log = log, !.todo = todo, !.turn = turn]]
      BY <2>4, <2>6
    <3>2. next \in InnerPhases /\ next \notin AppendPhases /\ (next \in {"tool", "execute"} => loop[r].batch # <<>>)
      BY <1>3, <2>6 DEF InnerPhases, AppendPhases
    <3>3. outcome' \in [Runs -> Outcomes] /\ outcome' = outcome
      BY <2>6 DEF LoopInv, TypeOK
    <3>4. QED
      BY <2>3, <2>6, <3>1, <3>2, <3>3
  <2>7. QED
    BY <2>1, <2>2, <2>5, <2>6
<1>8. QED
  BY <1>1, <1>5, <1>6, <1>7 DEF LoopInv, TypeOK

LEMMA KeptLogTypes ==
  ASSUME LoopInv, SessionAssumption, NEW r \in Runs, pc[r] = "stop"
  PROVE  KeptLog(r) \in Seq(Messages)
<1>1. outcome[r] \in {"completed", "paused", "failed"}
  BY DEF LoopInv, ControlInv, Control
<1>2. cached[r] \in Seq(Messages) /\ snapshot[r] \in Seq(Messages)
  BY ValueTypes DEF LoopInv
<1>3. /\ repaired_paused_log(cached[r]) \in Seq(Messages)
      /\ longest_safe_prefix(snapshot[r], cached[r]) \in Seq(Messages)
  BY <1>2, LogTypes
<1>4. QED
  BY <1>1, <1>2, <1>3 DEF KeptLog

(* A step of a run that is over: its phase is one that Control says nothing *)
(* of.                                                                      *)
LEMMA FinalStep ==
  ASSUME LoopInv, NEW r \in Runs, NEW p \in {"fan", "send", "sent"},
         pc[r] \in FinalPhases, pc' = [pc EXCEPT ![r] = p], loop' = loop, outcome' = outcome,
         \A q \in Runs \ {r} : fan'[q] = fan[q]
  PROVE  /\ pc' \in [Runs -> {"idle"} \cup LivePhases \cup EndPhases]
         /\ ControlInv'
<1>1. pc' \in [Runs -> {"idle"} \cup LivePhases \cup EndPhases]
  BY DEF LoopInv, TypeOK, LivePhases, FinalPhases, EndPhases
<1>2. pc'[r] = p /\ loop'[r] = loop[r]
  BY DEF LoopInv, TypeOK
<1>3. pc[r] \notin AppendPhases /\ p \notin AppendPhases \cup {"tool", "execute", "fanwrite", "stop"}
  BY DEF FinalPhases, AppendPhases
<1>4. Control(r)'
  BY <1>2, <1>3 DEF LoopInv, ControlInv, Control
<1>5. ControlInv'
  BY <1>4, ControlStep DEF LoopInv, TypeOK
<1>6. QED
  BY <1>1, <1>5

LEMMA OnStopTypes ==
  ASSUME LoopInv, SessionAssumption, NEW r \in Runs, OnStop(r)
  PROVE  LoopInv'
<1>1. /\ pc[r] = "stop"
      /\ opened' = opened \ {r} /\ muted' = muted \ {r}
      /\ cached' = [cached EXCEPT ![r] = <<>>]
      /\ snapshot' = [snapshot EXCEPT ![r] = <<>>]
      /\ pending' = [pending EXCEPT ![r] = <<>>]
      /\ UNCHANGED <<archive, loop, outcome, copy, cancelled, dropped, kernel, paused, command,
                     history, ready, executed, recorded, arrived>>
  BY DEF OnStop, signals
<1>2. PICK p \in {"fan", "send"} : pc' = [pc EXCEPT ![r] = p]
  BY DEF OnStop, Goto
<1>3. /\ store' \in [Sessions -> Seq(Messages)]
      /\ budget' \in BudgetType /\ tainted' \subseteq Sessions
  <2>1. Save(SessionOf[r], KeptLog(r)) \/ UNCHANGED <<store, budget, tainted>>
    BY DEF OnStop
  <2>2. KeptLog(r) \in Seq(Messages) /\ SessionOf[r] \in Sessions
    BY <1>1, KeptLogTypes, ValueTypes DEF LoopInv
  <2>3. QED
    BY <2>1, <2>2, SaveTypes DEF LoopInv, TypeOK
<1>4. PICK f \in Seq(Messages) : fan' = [fan EXCEPT ![r] = f]
  <2>1. cached[r] \in Seq(Messages) /\ fan[r] \in Seq(Messages) /\ <<>> \in Seq(Messages)
    BY ValueTypes DEF LoopInv
  <2>2. CASE fan' = fan
    <3>1. fan' = [fan EXCEPT ![r] = fan[r]]
      BY <2>2 DEF LoopInv, TypeOK
    <3>2. QED
      BY <2>1, <3>1
  <2>3. CASE fan' = [fan EXCEPT ![r] = IF outcome[r] = "completed" THEN cached[r] ELSE <<>>]
    BY <2>1, <2>3
  <2>4. QED
    BY <2>2, <2>3 DEF OnStop
<1>5. fan' \in [Runs -> Seq(Messages)] /\ \A q \in Runs \ {r} : fan'[q] = fan[q]
  BY <1>4 DEF LoopInv, TypeOK
<1>6. /\ pc' \in [Runs -> {"idle"} \cup LivePhases \cup EndPhases]
      /\ ControlInv'
  <2>1. p \in {"fan", "send", "sent"} /\ pc[r] \in FinalPhases
    BY <1>1 DEF FinalPhases
  <2>2. QED
    BY <1>1, <1>2, <1>5, <2>1, FinalStep
<1>7. /\ cached' \in [Runs -> Seq(Messages)] /\ snapshot' \in [Runs -> Seq(Messages)]
      /\ pending' \in [Runs -> Seq([kind : {"injected"}, nth : Nat])]
      /\ opened' \subseteq Runs /\ muted' \subseteq Runs
  BY <1>1 DEF LoopInv, TypeOK
<1>8. QED
  BY <1>1, <1>3, <1>5, <1>6, <1>7 DEF LoopInv, TypeOK

LEMMA ReadTargetTypes ==
  ASSUME LoopInv, SessionAssumption, NEW r \in Runs, ReadTarget(r)
  PROVE  LoopInv'
<1>1. /\ pc[r] = "fan"
      /\ UNCHANGED <<store, archive, loop, opened, cached, snapshot, muted, pending, outcome,
                     cancelled, dropped, kernel, paused, command, history, ready, executed,
                     recorded, arrived>>
  BY DEF ReadTarget, stores, hooks, signals
<1>2. PICK n, out, rest :
        /\ n \in DOMAIN fan[r]
        /\ out = fan[r][n] /\ rest = SubSeq(fan[r], n + 1, Len(fan[r]))
        /\ NextForeign(r, n)
        /\ \/ /\ Fault
              /\ tainted' = tainted \cup {out.to}
              /\ fan' = [fan EXCEPT ![r] = rest]
              /\ UNCHANGED <<pc, copy>>
           \/ /\ fan' = [fan EXCEPT ![r] = rest]
              /\ UNCHANGED <<pc, copy, budget, tainted>>
           \/ /\ copy' = [copy EXCEPT ![r] = store[out.to]]
              /\ fan' = [fan EXCEPT ![r] = <<out>> \o rest]
              /\ pc' = [pc EXCEPT ![r] = "fanwrite"]
              /\ UNCHANGED <<budget, tainted>>
  BY DEF ReadTarget, Goto
<1>3. /\ fan[r] \in Seq(Messages) /\ Len(fan[r]) \in Nat /\ n \in 1..Len(fan[r])
      /\ out \in Messages
  <2>1. fan[r] \in Seq(Messages)
    BY ValueTypes DEF LoopInv
  <2>2. QED
    BY <1>2, <2>1, InSeq
<1>4. out.kind = "outbound" /\ out.to \in Sessions
  BY <1>2, <1>3, MessageKinds DEF NextForeign, IsForeign
<1>5. rest \in Seq(Messages)
  <2>1. n + 1 \in Nat /\ n + 1 >= 1 /\ Len(fan[r]) <= Len(fan[r])
    BY <1>3
  <2>2. QED
    BY <1>2, <1>3, <2>1, ToSetSubSeq
<1>6. PICK long : long = <<out>> \o rest
  OBVIOUS
<1>7. long \in Seq(Messages) /\ long # <<>> /\ Head(long) = out
  <2>1. <<out>> \in Seq(Messages) /\ Len(<<out>>) = 1 /\ <<out>>[1] = out
    BY <1>3
  <2>2. /\ long \in Seq(Messages) /\ Len(long) = Len(<<out>>) + Len(rest)
        /\ \A i \in 1 .. Len(<<out>>) + Len(rest) :
             long[i] = IF i <= Len(<<out>>) THEN <<out>>[i] ELSE rest[i - Len(<<out>>)]
    BY <1>5, <1>6, <2>1, ConcatProperties
  <2>3. Len(rest) \in Nat
    BY <1>5, InSeq
  <2>4. Len(long) > 0 /\ long[1] = out
    BY <2>1, <2>2, <2>3
  <2>5. QED
    BY <2>2, <2>4, EmptySeq
<1>8. budget' \in BudgetType /\ tainted' \subseteq Sessions /\ copy' \in [Runs -> Seq(Messages)]
  <2>1. budget' \in BudgetType
    BY <1>2, FaultTypes DEF LoopInv, TypeOK
  <2>2. tainted' \subseteq Sessions
    BY <1>2, <1>4 DEF LoopInv, TypeOK
  <2>3. store[out.to] \in Seq(Messages)
    BY <1>4 DEF LoopInv, TypeOK
  <2>4. copy' = [copy EXCEPT ![r] = store[out.to]] \/ copy' = copy
    BY <1>2
  <2>5. copy' \in [Runs -> Seq(Messages)]
    BY <2>3, <2>4 DEF LoopInv, TypeOK
  <2>6. QED
    BY <2>1, <2>2, <2>5
<1>9. CASE fan' = [fan EXCEPT ![r] = rest] /\ pc' = pc
  <2>1. fan' \in [Runs -> Seq(Messages)] /\ \A q \in Runs \ {r} : fan'[q] = fan[q]
    BY <1>5, <1>9 DEF LoopInv, TypeOK
  <2>2. pc' = [pc EXCEPT ![r] = "fan"] /\ pc[r] \in FinalPhases
    BY <1>1, <1>9 DEF LoopInv, TypeOK, FinalPhases
  <2>3. ControlInv'
    BY <1>1, <2>1, <2>2, FinalStep
  <2>4. QED
    BY <1>1, <1>8, <1>9, <2>1, <2>3 DEF LoopInv, TypeOK
<1>10. CASE fan' = [fan EXCEPT ![r] = long] /\ pc' = [pc EXCEPT ![r] = "fanwrite"]
  <2>1. /\ fan' \in [Runs -> Seq(Messages)] /\ \A q \in Runs \ {r} : fan'[q] = fan[q]
        /\ fan'[r] = long
    BY <1>7, <1>10 DEF LoopInv, TypeOK
  <2>2. /\ pc' \in [Runs -> {"idle"} \cup LivePhases \cup EndPhases]
        /\ pc'[r] = "fanwrite" /\ \A q \in Runs \ {r} : pc'[q] = pc[q]
    BY <1>10 DEF LoopInv, TypeOK, LivePhases, FinalPhases
  <2>3. Control(r)'
    <3>1. pc[r] \notin AppendPhases /\ "fanwrite" \notin AppendPhases
      BY <1>1 DEF AppendPhases
    <3>2. QED
      BY <1>1, <1>4, <1>7, <2>1, <2>2, <3>1 DEF LoopInv, ControlInv, Control
  <2>4. ControlInv'
    BY <1>1, <2>1, <2>2, <2>3, ControlStep DEF LoopInv
  <2>5. QED
    BY <1>1, <1>8, <2>1, <2>2, <2>4 DEF LoopInv, TypeOK
<1>11. QED
  BY <1>2, <1>6, <1>9, <1>10

LEMMA WriteTargetTypes ==
  ASSUME LoopInv, SessionAssumption, NEW r \in Runs, WriteTarget(r)
  PROVE  LoopInv'
<1>1. /\ pc[r] = "fanwrite" /\ pc' = [pc EXCEPT ![r] = "fan"]
      /\ fan' = [fan EXCEPT ![r] = Tail(fan[r])]
      /\ copy' = [copy EXCEPT ![r] = <<>>]
      /\ UNCHANGED <<archive, loop, opened, cached, snapshot, muted, pending, outcome,
                     cancelled, dropped, kernel, paused, command, history, ready, executed,
                     recorded>>
  BY DEF WriteTarget, Goto, hooks, signals
<1>2. /\ fan[r] \in Seq(Messages) /\ fan[r] # <<>> /\ Head(fan[r]).kind = "outbound"
      /\ copy[r] \in Seq(Messages)
  BY <1>1, ValueTypes DEF LoopInv, ControlInv, Control
<1>3. Head(fan[r]) \in Messages /\ Tail(fan[r]) \in Seq(Messages)
  BY <1>2, HeadTailProperties
<1>4. PICK out, msgs : /\ out = Head(fan[r])
                       /\ msgs = copy[r] \o <<out, NotifyRecord(out)>>
  OBVIOUS
<1>5. out.to \in Sessions /\ msgs \in Seq(Messages)
  <2>1. out.to \in Sessions /\ out \in Messages /\ NotifyRecord(out) \in Messages
    BY <1>2, <1>3, <1>4, MessageKinds
  <2>2. <<out, NotifyRecord(out)>> \in Seq(Messages)
    BY <2>1
  <2>3. QED
    BY <1>2, <1>4, <2>1, <2>2, ConcatProperties
<1>6. Overwrite(out.to, copy[r], msgs)
  BY <1>4 DEF WriteTarget
<1>7. /\ store' \in [Sessions -> Seq(Messages)]
      /\ budget' \in BudgetType /\ tainted' \subseteq Sessions
  BY <1>5, <1>6, OverwriteTypes DEF LoopInv
<1>8. arrived' \subseteq Messages
  BY <1>2, <1>3 DEF WriteTarget, LoopInv, TypeOK
<1>9. /\ fan' \in [Runs -> Seq(Messages)] /\ copy' \in [Runs -> Seq(Messages)]
      /\ \A q \in Runs \ {r} : fan'[q] = fan[q]
  BY <1>1, <1>3 DEF LoopInv, TypeOK
<1>10. /\ pc' \in [Runs -> {"idle"} \cup LivePhases \cup EndPhases]
       /\ ControlInv'
  <2>1. "fan" \in {"fan", "send", "sent"} /\ pc[r] \in FinalPhases
    BY <1>1 DEF FinalPhases
  <2>2. QED
    BY <1>1, <1>9, <2>1, FinalStep
<1>11. QED
  BY <1>1, <1>7, <1>8, <1>9, <1>10 DEF LoopInv, TypeOK

LEMMA SendTerminalTypes ==
  ASSUME LoopInv, SessionAssumption, NEW r \in Runs, SendTerminal(r)
  PROVE  LoopInv'
<1>1. /\ pc[r] \in {"fan", "send"} /\ pc' = [pc EXCEPT ![r] = "sent"]
      /\ fan' = [fan EXCEPT ![r] = <<>>]
      /\ cancelled' = cancelled \ {r} /\ dropped' = dropped \ {r}
      /\ UNCHANGED <<store, archive, loop, opened, cached, snapshot, muted, pending, outcome,
                     copy, kernel, paused, command, budget, history, ready, executed,
                     recorded, arrived, tainted>>
  BY DEF SendTerminal, Goto, stores, hooks, observed
<1>2. /\ fan' \in [Runs -> Seq(Messages)] /\ \A q \in Runs \ {r} : fan'[q] = fan[q]
      /\ cancelled' \subseteq Runs /\ dropped' \subseteq Runs
  BY <1>1 DEF LoopInv, TypeOK
<1>3. /\ pc' \in [Runs -> {"idle"} \cup LivePhases \cup EndPhases]
      /\ ControlInv'
  <2>1. "sent" \in {"fan", "send", "sent"} /\ pc[r] \in FinalPhases
    BY <1>1 DEF FinalPhases
  <2>2. QED
    BY <1>1, <1>2, <2>1, FinalStep
<1>4. QED
  BY <1>1, <1>2, <1>3 DEF LoopInv, TypeOK

------------------------------------------------------------------------------
(* One lemma per action of the other tasks *)

LEMMA IdleControl ==
  ASSUME ControlInv, UNCHANGED <<pc, loop, outcome, fan>>
  PROVE  ControlInv'
BY DEF ControlInv, Control

LEMMA CancelRunTypes ==
  ASSUME LoopInv, NEW r \in Runs, CancelRun(r)
  PROVE  LoopInv'
<1>1. /\ cancelled' = cancelled \cup {r}
      /\ UNCHANGED <<store, archive, pc, loop, opened, cached, snapshot, muted, pending, outcome,
                     fan, copy, dropped, kernel, paused, command, history, ready, executed,
                     recorded, arrived, tainted>>
  BY DEF CancelRun, stores, hooks, fanout, observed
<1>2. budget' \in BudgetType
  BY SpendTypes DEF CancelRun, LoopInv, TypeOK
<1>3. QED
  BY <1>1, <1>2, IdleControl DEF LoopInv, TypeOK

LEMMA DropStreamTypes ==
  ASSUME LoopInv, NEW r \in Runs, DropStream(r)
  PROVE  LoopInv'
<1>1. /\ cancelled' = cancelled \cup {r} /\ dropped' = dropped \cup {r}
      /\ UNCHANGED <<store, archive, pc, loop, opened, cached, snapshot, muted, pending, outcome,
                     fan, copy, kernel, paused, command, history, ready, executed, recorded, arrived,
                     tainted>>
  BY DEF DropStream, stores, hooks, fanout, observed
<1>2. budget' \in BudgetType
  BY SpendTypes DEF DropStream, LoopInv, TypeOK
<1>3. QED
  BY <1>1, <1>2, IdleControl DEF LoopInv, TypeOK

LEMMA ForwardShutdownTypes ==
  ASSUME LoopInv, NEW r \in Runs, ForwardShutdown(r)
  PROVE  LoopInv'
<1>1. /\ cancelled' = cancelled \cup {r}
      /\ UNCHANGED <<store, archive, pc, loop, opened, cached, snapshot, muted, pending, outcome,
                     fan, copy, dropped, kernel, paused, command, budget, history, ready,
                     executed, recorded, arrived, tainted>>
  BY DEF ForwardShutdown, stores, hooks, fanout, observed
<1>2. QED
  BY <1>1, IdleControl DEF LoopInv, TypeOK

LEMMA InjectTypes ==
  ASSUME LoopInv, NEW r \in Runs, Inject(r)
  PROVE  LoopInv'
<1>1. /\ pending' = [pending EXCEPT ![r] = Append(pending[r], Injected(budget.injects))]
      /\ UNCHANGED <<store, archive, pc, loop, opened, cached, snapshot, muted, outcome,
                     fan, copy, cancelled, dropped, kernel, paused, command, history, ready,
                     executed, recorded, arrived, tainted>>
  BY DEF Inject, stores, fanout, signals, observed
<1>2. budget' \in BudgetType
  BY SpendTypes DEF Inject, LoopInv, TypeOK
<1>3. Injected(budget.injects) \in [kind : {"injected"}, nth : Nat]
  BY DEF Injected, LoopInv, TypeOK, BudgetType
<1>4. pending[r] \in Seq([kind : {"injected"}, nth : Nat])
  BY DEF LoopInv, TypeOK
<1>5. Append(pending[r], Injected(budget.injects)) \in Seq([kind : {"injected"}, nth : Nat])
  BY <1>3, <1>4, AppendProperties
<1>6. pending' \in [Runs -> Seq([kind : {"injected"}, nth : Nat])]
  BY <1>1, <1>5 DEF LoopInv, TypeOK
<1>7. QED
  BY <1>1, <1>2, <1>6, IdleControl DEF LoopInv, TypeOK

(* What a step of a slash command leaves alone. *)
LEMMA CommandStep ==
  ASSUME LoopInv,
         UNCHANGED <<pc, loop, opened, cached, snapshot, muted, pending, outcome, fan, copy,
                     cancelled, dropped, kernel, paused, history, ready, executed, arrived>>,
         store' \in [Sessions -> Seq(Messages)], archive' \in [Sessions -> SUBSET Messages],
         budget' \in BudgetType, tainted' \subseteq Sessions, recorded' \subseteq Sessions \X Nat,
         NEW s \in Sessions, NEW at \in {"none", "compact", "record", "save"}, NEW nth \in Nat,
         NEW read \in Seq(Messages),
         command' = [command EXCEPT ![s] = [at |-> at, nth |-> nth, read |-> read]]
  PROVE  LoopInv'
<1>1. command' \in [Sessions -> [at : {"none", "compact", "record", "save"}, nth : Nat,
                                 read : Seq(Messages)]]
  BY DEF LoopInv, TypeOK
<1>2. QED
  BY <1>1, IdleControl DEF LoopInv, TypeOK

LEMMA DispatchCommandTypes ==
  ASSUME LoopInv, NEW s \in Sessions, DispatchCommand(s)
  PROVE  LoopInv'
<1>1. /\ command' = [command EXCEPT ![s] = [at |-> "record", nth |-> budget.commands, read |-> <<>>]]
      /\ UNCHANGED <<store, archive, recorded, tainted>>
      /\ UNCHANGED <<pc, loop, opened, cached, snapshot, muted, pending, outcome, fan, copy,
                     cancelled, dropped, kernel, paused, history, ready, executed, arrived>>
  BY DEF DispatchCommand, stores, hooks, fanout, signals, observed
<1>2. budget' \in BudgetType
  BY SpendTypes DEF DispatchCommand, LoopInv, TypeOK
<1>3. budget.commands \in Nat /\ <<>> \in Seq(Messages)
  BY DEF LoopInv, TypeOK, BudgetType
<1>4. /\ store' \in [Sessions -> Seq(Messages)] /\ archive' \in [Sessions -> SUBSET Messages]
      /\ tainted' \subseteq Sessions /\ recorded' \subseteq Sessions \X Nat
  BY <1>1 DEF LoopInv, TypeOK
<1>5. QED
  BY <1>1, <1>2, <1>3, <1>4, CommandStep

LEMMA CompactReadTypes ==
  ASSUME LoopInv, SessionAssumption, NEW s \in Sessions, CompactRead(s)
  PROVE  LoopInv'
<1>1. /\ command' = [command EXCEPT ![s] = [at |-> "compact", nth |-> budget.commands,
                                            read |-> store[s]]]
      /\ archive' = [archive EXCEPT ![s] =
                       archive[s] \cup ToSet(Compacted(store[s], KeepRecent))]
      /\ UNCHANGED <<store, recorded, tainted>>
      /\ UNCHANGED <<pc, loop, opened, cached, snapshot, muted, pending, outcome, fan, copy,
                     cancelled, dropped, kernel, paused, history, ready, executed, arrived>>
  BY DEF CompactRead, hooks, fanout, signals, observed
<1>2. budget' \in BudgetType
  BY SpendTypes DEF CompactRead, LoopInv, TypeOK
<1>3. budget.commands \in Nat /\ store[s] \in Seq(Messages)
  BY DEF LoopInv, TypeOK, BudgetType
<1>4. ToSet(Compacted(store[s], KeepRecent)) \subseteq Messages
  BY <1>3, LogTypes
<1>5. archive' \in [Sessions -> SUBSET Messages]
  BY <1>1, <1>4 DEF LoopInv, TypeOK
<1>6. /\ store' \in [Sessions -> Seq(Messages)]
      /\ tainted' \subseteq Sessions /\ recorded' \subseteq Sessions \X Nat
  BY <1>1 DEF LoopInv, TypeOK
<1>7. QED
  BY <1>1, <1>2, <1>3, <1>5, <1>6, CommandStep

LEMMA CommandFields ==
  ASSUME NEW c \in [at : {"none", "compact", "record", "save"}, nth : Nat, read : Seq(Messages)],
         NEW at \in {"record", "save"}, NEW read \in Seq(Messages)
  PROVE  [c EXCEPT !.at = at, !.read = read] = [at |-> at, nth |-> c.nth, read |-> read]
<1>1. PICK d : d = [c EXCEPT !.at = at, !.read = read]
  OBVIOUS
<1>2. d \in [at : {"none", "compact", "record", "save"}, nth : Nat, read : Seq(Messages)]
  BY <1>1
<1>3. d.at = at /\ d.nth = c.nth /\ d.read = read
  BY <1>1
<1>4. d = [at |-> d.at, nth |-> d.nth, read |-> d.read]
  BY <1>2
<1>5. QED
  BY <1>1, <1>3, <1>4

LEMMA CompactWriteTypes ==
  ASSUME LoopInv, SessionAssumption, NEW s \in Sessions, CompactWrite(s)
  PROVE  LoopInv'
<1>1. UNCHANGED <<archive, recorded, pc, loop, opened, cached, snapshot, muted, pending, outcome,
                  fan, copy, cancelled, dropped, kernel, paused, history, ready, executed, arrived>>
  BY DEF CompactWrite, hooks, fanout, signals
<1>2. command[s].nth \in Nat /\ command[s].read \in Seq(Messages) /\ command[s] \in
        [at : {"none", "compact", "record", "save"}, nth : Nat, read : Seq(Messages)]
  BY DEF LoopInv, TypeOK
<1>3. PICK msgs : msgs = CompactedLog(command[s].read, KeepRecent)
  OBVIOUS
<1>4. msgs \in Seq(Messages)
  BY <1>2, <1>3, LogTypes
<1>5. Overwrite(s, command[s].read, msgs) \/ UNCHANGED <<store, budget, tainted>>
  BY <1>3 DEF CompactWrite, Overwrite
<1>6. /\ store' \in [Sessions -> Seq(Messages)]
      /\ budget' \in BudgetType /\ tainted' \subseteq Sessions
  BY <1>4, <1>5, OverwriteTypes DEF LoopInv, TypeOK
<1>7. \/ command' = [command EXCEPT ![s] = NoCommand]
      \/ command' = [command EXCEPT ![s].at = "record", ![s].read = <<>>]
  BY DEF CompactWrite
<1>8. PICK at \in {"none", "record"}, nth \in Nat :
        command' = [command EXCEPT ![s] = [at |-> at, nth |-> nth, read |-> <<>>]]
  <2>1. CASE command' = [command EXCEPT ![s] = NoCommand]
    BY <2>1 DEF NoCommand
  <2>2. CASE command' = [command EXCEPT ![s].at = "record", ![s].read = <<>>]
    <3>1. [command[s] EXCEPT !.at = "record", !.read = <<>>] =
            [at |-> "record", nth |-> command[s].nth, read |-> <<>>]
      <4>1. <<>> \in Seq(Messages)
        OBVIOUS
      <4>2. QED
        BY <1>2, <4>1, CommandFields
    <3>2. command' = [command EXCEPT ![s] = [command[s] EXCEPT !.at = "record", !.read = <<>>]]
      BY <2>2 DEF LoopInv, TypeOK
    <3>3. QED
      BY <1>2, <3>1, <3>2
  <2>3. QED
    BY <1>7, <2>1, <2>2
<1>9. /\ archive' \in [Sessions -> SUBSET Messages] /\ recorded' \subseteq Sessions \X Nat
      /\ <<>> \in Seq(Messages)
  BY <1>1 DEF LoopInv, TypeOK
<1>10. QED
  BY <1>1, <1>6, <1>8, <1>9, CommandStep

LEMMA RecordReadTypes ==
  ASSUME LoopInv, NEW s \in Sessions, RecordRead(s)
  PROVE  LoopInv'
<1>1. UNCHANGED <<store, archive, recorded, tainted, pc, loop, opened, cached, snapshot, muted,
                  pending, outcome, fan, copy, cancelled, dropped, kernel, paused, history,
                  ready, executed,
                  arrived>>
  BY DEF RecordRead, stores, hooks, fanout, signals, observed
<1>2. /\ store[s] \in Seq(Messages)
      /\ command[s] \in [at : {"none", "compact", "record", "save"}, nth : Nat,
                         read : Seq(Messages)]
  BY DEF LoopInv, TypeOK
<1>3. budget' \in BudgetType
  BY FaultTypes DEF RecordRead, LoopInv, TypeOK
<1>4. PICK at \in {"none", "save"}, nth \in Nat, read \in Seq(Messages) :
        command' = [command EXCEPT ![s] = [at |-> at, nth |-> nth, read |-> read]]
  <2>1. CASE command' = [command EXCEPT ![s] = NoCommand]
    <3>1. <<>> \in Seq(Messages) /\ 0 \in Nat
      OBVIOUS
    <3>2. QED
      BY <2>1, <3>1 DEF NoCommand
  <2>2. CASE command' = [command EXCEPT ![s].at = "save", ![s].read = store[s]]
    <3>1. [command[s] EXCEPT !.at = "save", !.read = store[s]] =
            [at |-> "save", nth |-> command[s].nth, read |-> store[s]]
      BY <1>2, CommandFields
    <3>2. command' = [command EXCEPT ![s] = [command[s] EXCEPT !.at = "save", !.read = store[s]]]
      BY <2>2 DEF LoopInv, TypeOK
    <3>3. QED
      BY <1>2, <3>1, <3>2
  <2>3. QED
    BY <2>1, <2>2 DEF RecordRead
<1>5. /\ store' \in [Sessions -> Seq(Messages)] /\ archive' \in [Sessions -> SUBSET Messages]
      /\ tainted' \subseteq Sessions /\ recorded' \subseteq Sessions \X Nat
  BY <1>1 DEF LoopInv, TypeOK
<1>6. QED
  BY <1>1, <1>3, <1>4, <1>5, CommandStep

LEMMA RecordWriteTypes ==
  ASSUME LoopInv, NEW s \in Sessions, RecordWrite(s)
  PROVE  LoopInv'
<1>1. UNCHANGED <<archive, pc, loop, opened, cached, snapshot, muted, pending, outcome, fan, copy,
                  cancelled, dropped, kernel, paused, history, ready, executed, arrived>>
  BY DEF RecordWrite, hooks, fanout, signals
<1>2. command[s].nth \in Nat /\ command[s].read \in Seq(Messages)
  BY DEF LoopInv, TypeOK
<1>3. PICK msgs : msgs = command[s].read \o <<CommandInput(command[s].nth), Assistant(<<>>)>>
  OBVIOUS
<1>4. msgs \in Seq(Messages)
  <2>1. CommandInput(command[s].nth) \in Messages /\ Assistant(<<>>) \in Messages
    BY <1>2, MessageTypes, ResponseTypes
  <2>2. <<CommandInput(command[s].nth), Assistant(<<>>)>> \in Seq(Messages)
    BY <2>1
  <2>3. QED
    BY <1>2, <1>3, <2>2, ConcatProperties
<1>5. Overwrite(s, command[s].read, msgs)
  BY <1>3 DEF RecordWrite
<1>6. /\ store' \in [Sessions -> Seq(Messages)]
      /\ budget' \in BudgetType /\ tainted' \subseteq Sessions
  BY <1>4, <1>5, OverwriteTypes DEF LoopInv
<1>7. recorded' \subseteq Sessions \X Nat
  BY <1>2 DEF RecordWrite, LoopInv, TypeOK
<1>8. command' = [command EXCEPT ![s] = [at |-> "none", nth |-> 0, read |-> <<>>]]
  BY DEF RecordWrite, NoCommand
<1>9. archive' \in [Sessions -> SUBSET Messages] /\ <<>> \in Seq(Messages) /\ 0 \in Nat
  BY <1>1 DEF LoopInv, TypeOK
<1>10. QED
  BY <1>1, <1>6, <1>7, <1>8, <1>9, CommandStep

------------------------------------------------------------------------------
(* Shutdown and restart *)

LEMMA KillKeeps ==
  ASSUME LoopInv, NEW rs \in SUBSET Runs, Kill(rs)
  PROVE  /\ pc' \in [Runs -> {"idle"} \cup LivePhases \cup EndPhases]
         /\ loop' \in [Runs -> Loops]
         /\ fan' \in [Runs -> Seq(Messages)] /\ copy' \in [Runs -> Seq(Messages)]
         /\ outcome' \in [Runs -> Outcomes]
         /\ ControlInv'
<1>1. pc' \in [Runs -> {"idle"} \cup LivePhases \cup EndPhases]
  BY DEF Kill, LoopInv, TypeOK, EndPhases
<1>2. loop' \in [Runs -> Loops]
  BY NoLoopTypes DEF Kill, LoopInv, TypeOK
<1>3. fan' \in [Runs -> Seq(Messages)] /\ copy' \in [Runs -> Seq(Messages)]
  BY DEF Kill, LoopInv, TypeOK
<1>4. outcome' \in [Runs -> Outcomes]
  BY DEF Kill, LoopInv, TypeOK, Outcomes
<1>5. ASSUME NEW q \in Runs
      PROVE  Control(q)'
  <2>1. CASE q \in rs
    <3>1. pc'[q] = "killed" /\ loop'[q] = NoLoop
      BY <2>1 DEF Kill
    <3>2. DOMAIN NoLoop.accum = {} /\ DOMAIN NoLoop.batch = {}
      BY NoLoopTypes
    <3>3. QED
      BY <3>1, <3>2, NoLoopTypes DEF AppendPhases, Control
  <2>2. CASE q \notin rs
    <3>1. pc'[q] = pc[q] /\ loop'[q] = loop[q] /\ outcome'[q] = outcome[q] /\ fan'[q] = fan[q]
      BY <2>2 DEF Kill
    <3>2. QED
      BY <3>1 DEF LoopInv, ControlInv, Control
  <2>3. QED
    BY <2>1, <2>2
<1>6. QED
  BY <1>1, <1>2, <1>3, <1>4, <1>5 DEF ControlInv

LEMMA AbortDroppedTypes ==
  ASSUME LoopInv, NEW r \in Runs, AbortDropped(r)
  PROVE  LoopInv'
<1>1. /\ Kill({r}) /\ cancelled' = cancelled \ {r} /\ dropped' = dropped \ {r}
      /\ UNCHANGED <<store, archive, opened, cached, snapshot, muted, pending, kernel, paused,
                     command, budget, history, ready, executed, recorded, arrived, tainted>>
  BY DEF AbortDropped, stores, hooks, observed
<1>2. QED
  BY <1>1, KillKeeps DEF LoopInv, TypeOK

LEMMA ShutdownTypes ==
  ASSUME LoopInv, Shutdown
  PROVE  LoopInv'
<1>1. CASE BeginPause
  <2>1. /\ kernel' = "pausing" /\ paused' = TRUE
        /\ UNCHANGED <<store, archive, pc, loop, opened, cached, snapshot, muted, pending,
                       outcome, fan, copy, cancelled, dropped, command, history, ready, executed,
                       recorded, arrived, tainted>>
    BY <1>1 DEF BeginPause, stores, hooks, fanout, observed
  <2>2. budget' \in BudgetType
    BY <1>1, SpendTypes DEF BeginPause, LoopInv, TypeOK
  <2>3. QED
    BY <2>1, <2>2, IdleControl DEF LoopInv, TypeOK
<1>2. CASE BeginShutdown
  <2>1. /\ kernel' = "draining"
        /\ UNCHANGED <<store, archive, pc, loop, opened, cached, snapshot, muted, pending,
                       outcome, fan, copy, cancelled, dropped, paused, command, history, ready,
                       executed, recorded, arrived, tainted>>
    BY <1>2 DEF BeginShutdown, stores, hooks, fanout, observed
  <2>2. budget' \in BudgetType
    BY <1>2, SpendTypes DEF BeginShutdown, LoopInv, TypeOK
  <2>3. QED
    BY <2>1, <2>2, IdleControl DEF LoopInv, TypeOK
<1>3. CASE FinishShutdown
  <2>1. /\ kernel' = "down" /\ Kill(LiveRuns) /\ cancelled' = {} /\ dropped' = {}
        /\ UNCHANGED <<store, archive, opened, cached, snapshot, muted, pending, paused, command,
                       budget, history, ready, executed, recorded, arrived, tainted>>
    BY <1>3 DEF FinishShutdown, stores, hooks, observed
  <2>2. LiveRuns \in SUBSET Runs
    BY DEF LiveRuns
  <2>3. QED
    BY <2>1, <2>2, KillKeeps DEF LoopInv, TypeOK
<1>4. QED
  BY <1>1, <1>2, <1>3 DEF Shutdown

LEMMA RebootTypes ==
  ASSUME LoopInv, Reboot
  PROVE  LoopInv'
<1>1. /\ Kill(LiveRuns) /\ LiveRuns \in SUBSET Runs
      /\ UNCHANGED <<store, archive, history, ready, executed, recorded, arrived, tainted>>
  BY DEF Reboot, stores, observed, LiveRuns
<1>2. budget' \in BudgetType
  BY SpendTypes DEF Reboot, LoopInv, TypeOK
<1>3. /\ opened' \subseteq Runs /\ muted' \subseteq Runs
      /\ cached' \in [Runs -> Seq(Messages)] /\ snapshot' \in [Runs -> Seq(Messages)]
      /\ pending' \in [Runs -> Seq([kind : {"injected"}, nth : Nat])]
      /\ cancelled' \subseteq Runs /\ dropped' \subseteq Runs
      /\ kernel' = "up" /\ paused' = FALSE
  BY DEF Reboot
<1>4. command' \in [Sessions -> [at : {"none", "compact", "record", "save"}, nth : Nat,
                                 read : Seq(Messages)]]
  BY DEF Reboot, NoCommand
<1>5. QED
  BY <1>1, <1>2, <1>3, <1>4, KillKeeps DEF LoopInv, TypeOK

------------------------------------------------------------------------------
(* The invariant *)

LEMMA InitTypes ==
  ASSUME SessionAssumption, Init
  PROVE  LoopInv
<1>1. TypeOK
  <2>1. /\ \A r \in Runs : loop[r] = NoLoop
        /\ loop \in [Runs -> Loops]
    BY NoLoopTypes DEF Init
  <2>2. command \in [Sessions -> [at : {"none", "compact", "record", "save"}, nth : Nat,
                                  read : Seq(Messages)]]
    BY DEF Init, NoCommand
  <2>3. budget \in BudgetType
    BY DEF Init, SessionAssumption
  <2>4. pc \in [Runs -> {"idle"} \cup LivePhases \cup EndPhases]
    BY DEF Init
  <2>5. /\ store \in [Sessions -> Seq(Messages)] /\ archive \in [Sessions -> SUBSET Messages]
        /\ outcome \in [Runs -> Outcomes]
    BY DEF Init, Outcomes
  <2>6. /\ cached \in [Runs -> Seq(Messages)] /\ snapshot \in [Runs -> Seq(Messages)]
        /\ fan \in [Runs -> Seq(Messages)] /\ copy \in [Runs -> Seq(Messages)]
        /\ history \in [Runs -> Seq(Messages)]
        /\ pending \in [Runs -> Seq([kind : {"injected"}, nth : Nat])]
    BY DEF Init
  <2>7. /\ opened = {} /\ muted = {} /\ cancelled = {} /\ dropped = {} /\ ready = {}
        /\ executed = {} /\ recorded = {} /\ arrived = {} /\ tainted = {}
        /\ kernel = "up" /\ paused = FALSE
    BY DEF Init
  <2>8. QED
    BY <2>1, <2>2, <2>3, <2>4, <2>5, <2>6, <2>7 DEF TypeOK
<1>2. ControlInv
  <2>1. DOMAIN NoLoop.accum = {} /\ DOMAIN NoLoop.batch = {}
    BY NoLoopTypes
  <2>2. ASSUME NEW r \in Runs
        PROVE  Control(r)
    <3>1. pc[r] = "idle" /\ loop[r] = NoLoop
      BY DEF Init
    <3>2. QED
      BY <2>1, <3>1, NoLoopTypes DEF Control, AppendPhases
  <2>3. QED
    BY <2>2 DEF ControlInv
<1>3. QED
  BY <1>1, <1>2 DEF LoopInv

LEMMA NextTypes ==
  ASSUME LoopInv, SessionAssumption, Next
  PROVE  LoopInv'
<1>1. ASSUME NEW r \in Runs, Driver(r)
      PROVE  LoopInv'
  BY <1>1, SpawnDriverTypes, OpenSessionTypes, AppendMessageTypes, PauseTypes, BeginTurnTypes,
     SummarizeTypes, SendRequestTypes, StreamToolUseTypes, FallBackTypes, EndResponseTypes,
     DispatchToolTypes, ResolveToolTypes, LeaveTypes, OnStopTypes, ReadTargetTypes,
     WriteTargetTypes, SendTerminalTypes DEF Driver
<1>2. ASSUME NEW r \in Runs, Consumer(r)
      PROVE  LoopInv'
  BY <1>2, CancelRunTypes, DropStreamTypes, InjectTypes, AbortDroppedTypes, ForwardShutdownTypes
     DEF Consumer
<1>3. ASSUME NEW s \in Sessions, Commands(s)
      PROVE  LoopInv'
  BY <1>3, DispatchCommandTypes, CompactReadTypes, CompactWriteTypes, RecordReadTypes,
     RecordWriteTypes DEF Commands
<1>4. QED
  BY <1>1, <1>2, <1>3, ShutdownTypes, RebootTypes DEF Next

LEMMA StutterTypes ==
  ASSUME LoopInv, UNCHANGED vars
  PROVE  LoopInv'
<1>1. UNCHANGED <<store, archive, pc, loop, opened, cached, snapshot, muted, pending, outcome, fan,
                  copy, cancelled, dropped, kernel, paused, command, budget, history, ready,
                  executed, recorded, arrived, tainted>>
  BY DEF vars, stores, hooks, fanout, signals, observed
<1>2. QED
  BY <1>1, IdleControl DEF LoopInv, TypeOK

(* The types hold, and where a driver stands agrees with what its loop     *)
(* holds: a phase that appends has something to append, one that executes  *)
(* a call has one, and what is streamed and dispatched is the run's own.   *)
THEOREM TypesHold == Spec => [](TypeOK /\ ControlInv)
<1>1. Init => LoopInv
  BY InitTypes, SessionAssumption
<1>2. LoopInv /\ [Next]_vars => LoopInv'
  BY NextTypes, SessionAssumption, StutterTypes
<1>3. LoopInv => TypeOK /\ ControlInv
  BY DEF LoopInv
<1>4. QED
  BY <1>1, <1>2, <1>3, PTL DEF Spec

(* Every response in a log, whatever was repaired, cut or taken over by    *)
(* another provider on the way there, holds the calls of one attempt:      *)
(* reset_for_retry empties the accumulator before the next attempt streams.*)
THEOREM ResponsesAreWhole == Spec => []ResponsesComeFromOneAttempt
<1>1. TypeOK => ResponsesComeFromOneAttempt
  <2>1. ASSUME TypeOK, NEW r \in Runs, NEW m \in ToSet(loop[r].log),
               NEW c \in CallsOf(m), NEW d \in CallsOf(m)
        PROVE  c[3] = d[3]
    <3>1. loop[r].log \in Seq(Messages)
      BY <2>1, LoopFields
    <3>2. m \in Messages
      BY <3>1, InSeq
    <3>3. m.kind = "assistant" /\ c \in ToSet(m.calls) /\ d \in ToSet(m.calls)
      BY DEF CallsOf
    <3>4. m.calls \in Seq(CallIds) /\ \A i, j \in DOMAIN m.calls : m.calls[i][3] = m.calls[j][3]
      BY <3>2, <3>3, MessageKinds DEF Responses
    <3>5. PICK i, j \in DOMAIN m.calls : c = m.calls[i] /\ d = m.calls[j]
      BY <3>3, <3>4, InSeq
    <3>6. QED
      BY <3>4, <3>5
  <2>2. QED
    BY <2>1 DEF ResponsesComeFromOneAttempt
<1>2. QED
  BY <1>1, TypesHold, PTL

(* A kernel that is down runs nothing: a driver is spawned under the lock   *)
(* that shutdown takes the drivers from, and only while the token has not   *)
(* fired.                                                                   *)
THEOREM ShutdownIsComplete == Spec => []ShutdownLeavesNoDriver
<1>1. Init => ShutdownLeavesNoDriver
  BY DEF Init, ShutdownLeavesNoDriver
<1>2. ASSUME LoopInv, ShutdownLeavesNoDriver, [Next]_vars
      PROVE  ShutdownLeavesNoDriver'
  <2>1. CASE kernel' # "down"
    BY <2>1 DEF ShutdownLeavesNoDriver
  <2>2. CASE FinishShutdown
    <3>1. \A r \in Runs : ~Live(r)'
      BY <2>2 DEF FinishShutdown, Kill, LiveRuns, Live, LivePhases, InnerPhases, FinalPhases
    <3>2. QED
      BY <3>1 DEF ShutdownLeavesNoDriver, LiveRuns, Live
  <2>3. CASE kernel' = "down" /\ ~FinishShutdown
    <3>1. kernel = "down"
      <4>1. ASSUME NEW q \in Runs, Driver(q)
            PROVE  kernel' = kernel
        <5>1. CASE SpawnDriver(q) \/ OpenSession(q) \/ AppendMessage(q) \/ Pause(q) \/ BeginTurn(q)
          BY <5>1 DEF SpawnDriver, OpenSession, AppendMessage, Pause, BeginTurn, signals
        <5>2. CASE Summarize(q) \/ SendRequest(q) \/ StreamToolUse(q) \/ FallBack(q)
          BY <5>2 DEF Summarize, SendRequest, StreamToolUse, FallBack, signals
        <5>3. CASE EndResponse(q) \/ DispatchTool(q) \/ ResolveTool(q) \/ ObserveCancel(q) \/ Fail(q)
          BY <5>3 DEF EndResponse, DispatchTool, ResolveTool, ObserveCancel, Fail, signals
        <5>4. CASE OnStop(q) \/ ReadTarget(q) \/ WriteTarget(q) \/ SendTerminal(q)
          BY <5>4 DEF OnStop, ReadTarget, WriteTarget, SendTerminal, signals
        <5>5. QED
          BY <4>1, <5>1, <5>2, <5>3, <5>4 DEF Driver
      <4>2. ASSUME NEW q \in Runs, Consumer(q)
            PROVE  kernel' = kernel
        BY <4>2 DEF Consumer, CancelRun, DropStream, Inject, AbortDropped, ForwardShutdown, signals
      <4>3. ASSUME NEW s \in Sessions, Commands(s)
            PROVE  kernel' = kernel
        BY <4>3 DEF Commands, DispatchCommand, CompactRead, CompactWrite, RecordRead, RecordWrite,
          signals
      <4>4. ~Shutdown /\ ~Reboot
        BY <2>3 DEF Shutdown, BeginPause, BeginShutdown, Reboot
      <4>5. UNCHANGED vars => kernel' = kernel
        BY DEF vars, signals
      <4>6. QED
        BY <1>2, <2>3, <4>1, <4>2, <4>3, <4>4, <4>5 DEF Next
    <3>2. \A r \in Runs : pc[r] \notin LivePhases
      BY <1>2, <3>1 DEF ShutdownLeavesNoDriver, LiveRuns, Live
    <3>3. \A r \in Runs : pc'[r] \notin LivePhases
      <4>1. ASSUME NEW q \in Runs, Driver(q)
            PROVE  pc' = [pc EXCEPT ![q] = "refused"]
        <5>1. pc[q] \notin {"start", "replay", "turn", "summarize", "request", "llm", "answer",
                            "tool", "execute", "resolve", "stop", "fan", "fanwrite", "send"}
          BY <3>2 DEF LivePhases, InnerPhases, FinalPhases
        <5>2. SpawnDriver(q)
          BY <4>1, <5>1 DEF Driver, OpenSession, AppendMessage, Pause, BeginTurn, Summarize,
            SendRequest, StreamToolUse, FallBack, EndResponse, DispatchTool, ResolveTool,
            ObserveCancel, Fail, OnStop, ReadTarget, WriteTarget, SendTerminal, At, InnerPhases
        <5>3. QED
          BY <3>1, <5>2 DEF SpawnDriver, Goto
      <4>2. ASSUME NEW q \in Runs, Consumer(q)
            PROVE  FALSE
        BY <3>1, <3>2, <4>2 DEF Consumer, CancelRun, DropStream, Inject, AbortDropped,
          ForwardShutdown, Live
      <4>3. ASSUME NEW s \in Sessions, Commands(s)
            PROVE  pc' = pc
        BY <4>3 DEF Commands, DispatchCommand, CompactRead, CompactWrite, RecordRead, RecordWrite
      <4>4. ~Shutdown /\ ~Reboot
        BY <2>3, <3>1 DEF Shutdown, BeginPause, BeginShutdown, Reboot
      <4>5. "refused" \notin LivePhases /\ pc \in [Runs -> {"idle"} \cup LivePhases \cup EndPhases]
        BY <1>2 DEF LivePhases, InnerPhases, FinalPhases, LoopInv, TypeOK
      <4>6. CASE UNCHANGED vars
        BY <3>2, <4>6 DEF vars
      <4>7. QED
        BY <1>2, <3>2, <4>1, <4>2, <4>3, <4>4, <4>5, <4>6 DEF Next
    <3>4. QED
      BY <3>3 DEF ShutdownLeavesNoDriver, LiveRuns, Live
  <2>4. QED
    BY <2>1, <2>2, <2>3
<1>3. Spec => []LoopInv
  BY TypesHold, PTL DEF LoopInv
<1>4. QED
  BY <1>1, <1>2, <1>3, PTL DEF Spec

------------------------------------------------------------------------------
(* Parts of sound logs are sound *)

(* Log b is part of log a behind messages that have nothing to do with      *)
(* calls: position n of b is position n + d of a.                           *)
Excerpt(a, b, k, d) ==
  /\ \A n \in DOMAIN b : n <= k => b[n].kind \in {"system", "summary"}
  /\ \A n \in DOMAIN b : n > k => n + d \in DOMAIN a /\ b[n] = a[n + d]

LEMMA Plain ==
  ASSUME NEW m, m.kind \in {"system", "summary"}
  PROVE  /\ CallsOf(m) = {} /\ Uses(m) = {} /\ Spent(m) = {}
         /\ ~IsResult(m) /\ m.kind # "outbound"
  BY DEF CallsOf, Uses, Spent, IsResult

LEMMA ExcerptAnswered ==
  ASSUME NEW S, NEW a \in Seq(S), NEW b \in Seq(S), NEW k \in Nat, NEW d \in Int,
         Excerpt(a, b, k, d),
         NEW n \in 0..Len(b), NEW i \in Nat, k < i,
         NEW c, NEW kinds,
         Answered(a, i + d, n + d, c, kinds)
  PROVE  Answered(b, i, n, c, kinds)
<1>1. Len(b) \in Nat /\ DOMAIN b = 1..Len(b)
  BY InSeq
<1>2. PICK x \in (i + d) + 1 .. n + d :
        \/ IsResult(a[x]) /\ a[x].call = c
        \/ a[x].kind \in kinds /\ SameResponse(a[x].call, c)
  BY DEF Answered
<1>3. PICK y : y = x - d
  OBVIOUS
<1>4. y \in i + 1 .. n /\ y \in 1..Len(b) /\ y > k /\ y + d = x
  BY <1>1, <1>3
<1>5. b[y] = a[x]
  BY <1>1, <1>4 DEF Excerpt
<1>6. QED
  BY <1>2, <1>4, <1>5 DEF Answered

LEMMA ExcerptSound ==
  ASSUME NEW S, NEW a \in Seq(S), NEW b \in Seq(S), NEW k \in Nat, NEW d \in Int,
         Excerpt(a, b, k, d), Sound(a)
  PROVE  Sound(b)
<1>1. /\ Len(a) \in Nat /\ DOMAIN a = 1..Len(a)
      /\ Len(b) \in Nat /\ DOMAIN b = 1..Len(b)
  BY InSeq
<1>2. \A n \in DOMAIN b : n <= k => /\ CallsOf(b[n]) = {} /\ ~IsResult(b[n])
                                    /\ b[n].kind # "outbound"
  BY Plain DEF Excerpt
<1>3. Unique(b)
  <2>1. SUFFICES ASSUME NEW i \in DOMAIN b, NEW j \in DOMAIN b, i # j
                 PROVE  /\ CallsOf(b[i]) \cap CallsOf(b[j]) = {}
                        /\ ~(IsResult(b[i]) /\ IsResult(b[j]) /\ b[i].call = b[j].call)
                        /\ ~(b[i].kind = "outbound" /\ b[i] = b[j])
    BY DEF Unique
  <2>2. CASE i <= k \/ j <= k
    BY <1>2, <2>2
  <2>3. CASE i > k /\ j > k
    <3>1. /\ i + d \in DOMAIN a /\ b[i] = a[i + d]
          /\ j + d \in DOMAIN a /\ b[j] = a[j + d]
          /\ i + d # j + d
      BY <1>1, <2>1, <2>3 DEF Excerpt
    <3>2. QED
      BY <3>1 DEF Sound, Unique
  <2>4. QED
    BY <1>1, <2>2, <2>3
<1>4. Ordered(b)
  <2>1. SUFFICES ASSUME NEW i \in DOMAIN b, NEW j \in DOMAIN b,
                        IsResult(b[j]), b[j].call \in CallsOf(b[i])
                 PROVE  i < j
    BY DEF Ordered
  <2>2. i > k /\ j > k
    BY <1>1, <1>2, <2>1
  <2>3. /\ i + d \in DOMAIN a /\ b[i] = a[i + d]
        /\ j + d \in DOMAIN a /\ b[j] = a[j + d]
    BY <2>2 DEF Excerpt
  <2>4. i + d < j + d
    BY <2>1, <2>3 DEF Sound, Ordered
  <2>5. QED
    BY <1>1, <2>4
<1>5. Settled(b)
  <2>1. SUFFICES ASSUME NEW n \in DOMAIN b, NEW i \in 1 .. n - 1, NEW c \in CallsOf(b[i]),
                        ~is_unresolved_tail(b[n])
                 PROVE  Answered(b, i, n, c, HandedBack(b[n]))
    BY DEF Settled
  <2>2. i \in DOMAIN b /\ i \in Nat /\ n \in 0..Len(b)
    BY <1>1
  <2>3. i > k /\ n > k
    BY <1>1, <1>2, <2>2
  <2>4. /\ i + d \in DOMAIN a /\ b[i] = a[i + d]
        /\ n + d \in DOMAIN a /\ b[n] = a[n + d]
        /\ i + d \in 1 .. (n + d) - 1
    BY <1>1, <2>2, <2>3 DEF Excerpt
  <2>5. Answered(a, i + d, n + d, c, HandedBack(a[n + d]))
    BY <2>1, <2>4 DEF Sound, Settled
  <2>6. QED
    BY <2>2, <2>3, <2>4, <2>5, ExcerptAnswered
<1>6. QED
  BY <1>3, <1>4, <1>5 DEF Sound

LEMMA ExcerptUses ==
  ASSUME NEW S, NEW a \in Seq(S), NEW b \in Seq(S), NEW k \in Nat, NEW d \in Int,
         Excerpt(a, b, k, d)
  PROVE  UsedIn(b) \subseteq UsedIn(a) /\ SpentIn(b) \subseteq SpentIn(a)
<1>1. ASSUME NEW n \in DOMAIN b
      PROVE  Uses(b[n]) \subseteq UsedIn(a) /\ Spent(b[n]) \subseteq SpentIn(a)
  <2>1. CASE n <= k
    BY <2>1, Plain DEF Excerpt
  <2>2. CASE n > k
    <3>1. n + d \in DOMAIN a /\ b[n] = a[n + d]
      BY <2>2 DEF Excerpt
    <3>2. a[n + d] \in ToSet(a)
      BY <3>1 DEF ToSet
    <3>3. QED
      BY <3>1, <3>2 DEF UsedIn, SpentIn
  <2>3. n \in Nat
    BY InSeq
  <2>4. QED
    BY <2>1, <2>2, <2>3
<1>2. ToSet(b) = {b[n] : n \in DOMAIN b}
  BY DEF ToSet
<1>3. QED
  BY <1>1, <1>2 DEF UsedIn, SpentIn

(* Both end at the same message, unless the excerpt has none of them.       *)
Ends(a, b, k, d) == Len(b) > k => Len(b) + d = Len(a)

(* What is open at the end of an excerpt was open before. *)
LEMMA ExcerptOpen ==
  ASSUME NEW S, NEW a \in Seq(S), NEW b \in Seq(S), NEW k \in Nat, NEW d \in Int,
         Excerpt(a, b, k, d), Ends(a, b, k, d),
         NEW c, Open(b, c)
  PROVE  Open(a, c)
<1>1. /\ Len(b) \in Nat /\ DOMAIN b = 1..Len(b)
      /\ Len(a) \in Nat /\ DOMAIN a = 1..Len(a)
  BY InSeq
<1>2. PICK i \in DOMAIN b : c \in CallsOf(b[i]) /\ ~Answered(b, i, Len(b), c, AsInput)
  BY DEF Open
<1>3. i \in 1..Len(b) /\ i \in Nat
  BY <1>1, <1>2
<1>4. i > k
  <2>1. i <= k => b[i].kind \in {"system", "summary"}
    BY <1>2 DEF Excerpt
  <2>2. ~(i <= k)
    BY <1>2, <2>1, Plain
  <2>3. QED
    BY <1>3, <2>2
<1>5. i + d \in DOMAIN a /\ b[i] = a[i + d]
  BY <1>2, <1>4 DEF Excerpt
<1>6. Len(b) > k /\ Len(b) \in 0..Len(b)
  BY <1>1, <1>3, <1>4
<1>7. Len(b) + d = Len(a)
  BY <1>6 DEF Ends
<1>8. ~Answered(a, i + d, Len(b) + d, c, AsInput)
  BY <1>2, <1>3, <1>4, <1>6, ExcerptAnswered
<1>9. QED
  BY <1>2, <1>5, <1>7, <1>8 DEF Open

(* Log b is the beginning of log a. *)
LEMMA PrefixSound ==
  ASSUME NEW S, NEW a \in Seq(S), NEW b \in Seq(S),
         \A n \in DOMAIN b : n \in DOMAIN a /\ b[n] = a[n]
  PROVE  /\ Sound(a) => Sound(b)
         /\ UsedIn(b) \subseteq UsedIn(a)
         /\ SpentIn(b) \subseteq SpentIn(a)
<1>1. DOMAIN b = 1..Len(b) /\ Len(b) \in Nat
  BY InSeq
<1>2. Excerpt(a, b, 0, 0)
  <2>1. ASSUME NEW n \in DOMAIN b
        PROVE  n > 0 /\ n + 0 = n
    BY <1>1
  <2>2. QED
    BY <2>1 DEF Excerpt
<1>3. Sound(a) => Sound(b)
  BY <1>2, ExcerptSound
<1>4. QED
  BY <1>2, <1>3, ExcerptUses

LEMMA SubSeqSound ==
  ASSUME NEW S, NEW a \in Seq(S), NEW n \in 0..Len(a)
  PROVE  /\ Sound(a) => Sound(SubSeq(a, 1, n))
         /\ UsedIn(SubSeq(a, 1, n)) \subseteq UsedIn(a)
<1>1. Len(a) \in Nat /\ DOMAIN a = 1..Len(a) /\ n \in Nat
  BY InSeq
<1>2. /\ SubSeq(a, 1, n) \in Seq(S)
      /\ Len(SubSeq(a, 1, n)) = n
      /\ \A i \in 1..n : SubSeq(a, 1, n)[i] = a[i]
  BY <1>1
<1>3. \A i \in DOMAIN SubSeq(a, 1, n) : i \in DOMAIN a /\ SubSeq(a, 1, n)[i] = a[i]
  BY <1>1, <1>2
<1>4. QED
  BY <1>2, <1>3, PrefixSound

LEMMA ConcatSound ==
  ASSUME NEW S, NEW a \in Seq(S), NEW b \in Seq(S)
  PROVE  /\ Sound(a \o b) => Sound(a)
         /\ UsedIn(a) \subseteq UsedIn(a \o b)
         /\ SpentIn(a) \subseteq SpentIn(a \o b)
<1>1. Len(a) \in Nat /\ DOMAIN a = 1..Len(a) /\ Len(b) \in Nat
  BY InSeq
<1>2. a \o b \in Seq(S) /\ \A n \in DOMAIN a : n \in DOMAIN (a \o b) /\ (a \o b)[n] = a[n]
  BY <1>1
<1>3. QED
  BY <1>2, PrefixSound

LEMMA EmptyWhole == Whole(<<>>) /\ UsedIn(<<>>) = {} /\ SpentIn(<<>>) = {} /\ \A c : ~Open(<<>>, c)
<1>1. DOMAIN <<>> = {} /\ ToSet(<<>>) = {}
  BY DEF ToSet
<1>2. Sound(<<>>)
  BY <1>1 DEF Sound, Unique, Ordered, Settled
<1>3. QED
  BY <1>1, <1>2 DEF Whole, Open, CallsIn, UsedIn, SpentIn

(* In a sound log that ends in input every call is answered. *)
LEMMA InputWhole ==
  ASSUME NEW S, NEW a \in Seq(S), Sound(a), a = <<>> \/ IsInput(Last(a))
  PROVE  Whole(a) /\ \A c : ~Open(a, c)
<1>1. Len(a) \in Nat /\ DOMAIN a = 1..Len(a)
  BY InSeq
<1>2. ASSUME NEW c, Open(a, c)
      PROVE  FALSE
  <2>1. PICK i \in DOMAIN a : c \in CallsOf(a[i]) /\ ~Answered(a, i, Len(a), c, AsInput)
    BY <1>2 DEF Open
  <2>2. a # <<>> /\ IsInput(a[Len(a)]) /\ Len(a) \in DOMAIN a
    BY <1>1, <2>1 DEF Last
  <2>3. /\ a[Len(a)].kind \notin {"assistant", "result", "interrupted"}
    BY <2>2 DEF IsInput, IsUser
  <2>4. CallsOf(a[Len(a)]) = {} /\ ~is_unresolved_tail(a[Len(a)])
    BY <2>3 DEF CallsOf, is_unresolved_tail, HasCalls, IsResult
  <2>5. i # Len(a)
    BY <2>1, <2>4
  <2>6. i \in 1 .. Len(a) - 1
    BY <1>1, <2>1, <2>5
  <2>7. HandedBack(a[Len(a)]) = AsInput
    BY <2>2 DEF HandedBack
  <2>8. QED
    BY <2>1, <2>2, <2>4, <2>6, <2>7 DEF Sound, Settled
<1>3. QED
  BY <1>2 DEF Whole

------------------------------------------------------------------------------
(* A log that grows *)

LEMMA AppendUses ==
  ASSUME NEW S, NEW a \in Seq(S), NEW m \in S
  PROVE  /\ UsedIn(Append(a, m)) = UsedIn(a) \cup Uses(m)
         /\ SpentIn(Append(a, m)) = SpentIn(a) \cup Spent(m)
         /\ CallsIn(Append(a, m)) = CallsIn(a) \cup CallsOf(m)
<1>1. ToSet(Append(a, m)) = ToSet(a) \cup {m}
  BY ToSetAppend
<1>2. QED
  BY <1>1 DEF UsedIn, SpentIn, CallsIn

LEMMA Appended ==
  ASSUME NEW S, NEW a \in Seq(S), NEW m \in S
  PROVE  /\ Append(a, m) \in Seq(S) /\ Len(Append(a, m)) = Len(a) + 1
         /\ Len(a) \in Nat /\ DOMAIN a = 1..Len(a)
         /\ DOMAIN Append(a, m) = 1 .. Len(a) + 1
         /\ Append(a, m)[Len(a) + 1] = m
         /\ \A n \in DOMAIN a : Append(a, m)[n] = a[n]
         /\ \A n \in DOMAIN Append(a, m) : n \in DOMAIN a \/ n = Len(a) + 1
  BY InSeq

(* What is answered stays answered. *)
LEMMA AnsweredLater ==
  ASSUME NEW S, NEW a \in Seq(S), NEW m \in S, NEW i \in Nat, NEW n \in Nat, n <= Len(a),
         NEW l \in Nat, n <= l, NEW c, NEW kinds, NEW more, kinds \subseteq more,
         Answered(a, i, n, c, kinds)
  PROVE  Answered(Append(a, m), i, l, c, more)
<1>1. PICK k \in i + 1 .. n :
        \/ IsResult(a[k]) /\ a[k].call = c
        \/ a[k].kind \in kinds /\ SameResponse(a[k].call, c)
  BY DEF Answered
<1>2. k \in 1..Len(a) /\ k \in i + 1 .. l
  BY InSeq
<1>3. Append(a, m)[k] = a[k]
  BY <1>2, Appended
<1>4. QED
  BY <1>1, <1>2, <1>3 DEF Answered

LEMMA InDomain ==
  ASSUME NEW S, NEW a \in Seq(S), NEW n \in DOMAIN a
  PROVE  /\ CallsOf(a[n]) \subseteq CallsIn(a)
         /\ IsResult(a[n]) => a[n].call \in ResolvedIn(a)
         /\ Uses(a[n]) \subseteq UsedIn(a) /\ Spent(a[n]) \subseteq SpentIn(a)
         /\ a[n] \in ToSet(a)
<1>1. a[n] \in ToSet(a)
  BY DEF ToSet
<1>2. QED
  BY <1>1 DEF CallsIn, ResolvedIn, UsedIn, SpentIn

(* What a message must be to be appended to a sound log.                    *)
Fits(a, m) ==
  /\ CallsOf(m) \cap CallsIn(a) = {} /\ CallsOf(m) \cap ResolvedIn(a) = {}
  /\ IsResult(m) => m.call \notin ResolvedIn(a)
  /\ m.kind = "outbound" => m \notin ToSet(a)
  /\ is_unresolved_tail(m) \/
       \A c : Open(a, c) => m.kind \in HandedBack(m) /\ SameResponse(m.call, c)

LEMMA AppendSound ==
  ASSUME NEW S, NEW a \in Seq(S), NEW m \in S, Sound(a), Fits(a, m)
  PROVE  Sound(Append(a, m))
<1> DEFINE b == Append(a, m)
<1>1. /\ b \in Seq(S) /\ Len(b) = Len(a) + 1 /\ Len(a) \in Nat
      /\ DOMAIN a = 1..Len(a) /\ DOMAIN b = 1 .. Len(a) + 1
      /\ b[Len(a) + 1] = m
      /\ \A n \in DOMAIN a : b[n] = a[n]
      /\ \A n \in DOMAIN b : n \in DOMAIN a \/ n = Len(a) + 1
  BY Appended
<1>2. IsResult(m) => CallsOf(m) = {}
  BY DEF IsResult, CallsOf
<1>3. ASSUME NEW i \in DOMAIN a
      PROVE  /\ CallsOf(a[i]) \cap CallsOf(m) = {}
             /\ ~(IsResult(a[i]) /\ IsResult(m) /\ a[i].call = m.call)
             /\ ~(m.kind = "outbound" /\ a[i] = m)
             /\ ~(IsResult(a[i]) /\ a[i].call \in CallsOf(m))
  BY InDomain DEF Fits
<1> HIDE DEF b
<1>4. Unique(b)
  <2>1. SUFFICES ASSUME NEW i \in DOMAIN b, NEW j \in DOMAIN b, i # j
                 PROVE  /\ CallsOf(b[i]) \cap CallsOf(b[j]) = {}
                        /\ ~(IsResult(b[i]) /\ IsResult(b[j]) /\ b[i].call = b[j].call)
                        /\ ~(b[i].kind = "outbound" /\ b[i] = b[j])
    BY DEF Unique
  <2>2. CASE i \in DOMAIN a /\ j \in DOMAIN a
    BY <1>1, <2>1, <2>2 DEF Sound, Unique
  <2>3. CASE i \in DOMAIN a /\ j = Len(a) + 1
    BY <1>1, <1>3, <2>3
  <2>4. CASE j \in DOMAIN a /\ i = Len(a) + 1
    BY <1>1, <1>3, <2>4
  <2>5. QED
    BY <1>1, <2>1, <2>2, <2>3, <2>4
<1>5. Ordered(b)
  <2>1. SUFFICES ASSUME NEW i \in DOMAIN b, NEW j \in DOMAIN b,
                        IsResult(b[j]), b[j].call \in CallsOf(b[i])
                 PROVE  i < j
    BY DEF Ordered
  <2>2. CASE i \in DOMAIN a /\ j \in DOMAIN a
    BY <1>1, <2>1, <2>2 DEF Sound, Ordered
  <2>3. CASE i \in DOMAIN a /\ j = Len(a) + 1
    BY <1>1, <2>3
  <2>4. CASE i = Len(a) + 1
    <3>1. b[i] = m
      BY <1>1, <2>4
    <3>2. j \notin DOMAIN a
      BY <1>1, <1>3, <2>1, <3>1
    <3>3. b[j] = m
      BY <1>1, <3>2
    <3>4. QED
      BY <1>2, <2>1, <3>1, <3>3
  <2>5. QED
    BY <1>1, <2>2, <2>3, <2>4
<1>6. Settled(b)
  <2>1. SUFFICES ASSUME NEW n \in DOMAIN b, NEW i \in 1 .. n - 1, NEW c \in CallsOf(b[i]),
                        ~is_unresolved_tail(b[n])
                 PROVE  Answered(b, i, n, c, HandedBack(b[n]))
    BY DEF Settled
  <2>2. i \in DOMAIN a /\ i \in Nat /\ n \in Nat /\ b[i] = a[i]
    BY <1>1
  <2>3. CASE n \in DOMAIN a
    <3>1. Answered(a, i, n, c, HandedBack(a[n]))
      BY <1>1, <2>1, <2>2, <2>3 DEF Sound, Settled
    <3>2. n <= Len(a) /\ n <= n
      BY <1>1, <2>2, <2>3
    <3>3. b[n] = a[n]
      BY <1>1, <2>3
    <3>4. QED
      BY <2>2, <3>1, <3>2, <3>3, AnsweredLater DEF b
  <2>4. CASE n = Len(a) + 1 /\ ~Open(a, c)
    <3>1. Answered(a, i, Len(a), c, AsInput)
      BY <2>1, <2>2, <2>4 DEF Open
    <3>2. AsInput \subseteq HandedBack(b[n])
      BY DEF HandedBack, AsInput, AsOutput
    <3>3. Len(a) <= n /\ Len(a) <= Len(a)
      BY <1>1, <2>4
    <3>4. QED
      BY <1>1, <2>2, <3>1, <3>2, <3>3, AnsweredLater DEF b
  <2>5. CASE n = Len(a) + 1 /\ Open(a, c)
    <3>1. b[n] = m
      BY <1>1, <2>5
    <3>2. m.kind \in HandedBack(m) /\ SameResponse(m.call, c)
      BY <2>1, <2>5, <3>1 DEF Fits
    <3>3. n \in i + 1 .. n
      BY <2>2
    <3>4. QED
      BY <3>1, <3>2, <3>3 DEF Answered
  <2>6. QED
    BY <1>1, <2>3, <2>4, <2>5
<1>7. QED
  BY <1>4, <1>5, <1>6 DEF Sound, b

(* What is open then: what was open before and this message does not        *)
(* answer, and the calls it makes.                                          *)
LEMMA AppendOpen ==
  ASSUME NEW S, NEW a \in Seq(S), NEW m \in S, NEW c, Open(Append(a, m), c)
  PROVE  \/ c \in CallsOf(m)
         \/ Open(a, c) /\ ~(IsResult(m) /\ m.call = c)
<1> DEFINE b == Append(a, m)
<1>1. /\ b \in Seq(S) /\ Len(b) = Len(a) + 1 /\ Len(a) \in Nat
      /\ DOMAIN a = 1..Len(a) /\ DOMAIN b = 1 .. Len(a) + 1
      /\ b[Len(a) + 1] = m
      /\ \A n \in DOMAIN a : b[n] = a[n]
      /\ \A n \in DOMAIN b : n \in DOMAIN a \/ n = Len(a) + 1
  BY Appended
<1>2. PICK i \in DOMAIN b : c \in CallsOf(b[i]) /\ ~Answered(b, i, Len(b), c, AsInput)
  BY DEF Open
<1> HIDE DEF b
<1>3. CASE i \in DOMAIN a
  <2>1. c \in CallsOf(a[i]) /\ i \in Nat
    BY <1>1, <1>2, <1>3
  <2>2. Len(a) <= Len(b) /\ Len(a) <= Len(a) /\ Len(b) \in Nat
    BY <1>1
  <2>3. ~Answered(a, i, Len(a), c, AsInput)
    BY <1>1, <1>2, <2>1, <2>2, AnsweredLater DEF b
  <2>4. Len(b) \in i + 1 .. Len(b) /\ b[Len(b)] = m
    BY <1>1, <1>3
  <2>5. ~(IsResult(m) /\ m.call = c)
    BY <1>2, <2>4 DEF Answered
  <2>6. QED
    BY <1>3, <2>1, <2>3, <2>5 DEF Open
<1>4. CASE i = Len(a) + 1
  BY <1>1, <1>2, <1>4
<1>5. QED
  BY <1>1, <1>2, <1>3, <1>4

(* Input, and text without calls, at the end of a whole log. *)
LEMMA WholeAppend ==
  ASSUME NEW S, NEW a \in Seq(S), NEW m \in S, Whole(a),
         CallsOf(m) = {}, ~IsResult(m), m.kind = "outbound" => m \notin ToSet(a)
  PROVE  Whole(Append(a, m))
<1>1. \A c : ~Open(a, c)
  <2>1. \A c : Open(a, c) => c \in CallsIn(a)
    BY InDomain DEF Open
  <2>2. QED
    BY <2>1 DEF Whole
<1>2. Fits(a, m)
  BY <1>1 DEF Fits
<1>3. Sound(a)
  BY DEF Whole
<1>4. Sound(Append(a, m))
  BY <1>2, <1>3, AppendSound
<1>5. \A c : ~Open(Append(a, m), c)
  BY <1>1, AppendOpen
<1>6. QED
  BY <1>4, <1>5 DEF Whole

------------------------------------------------------------------------------
(* Logs that are cut and repaired *)

(* A compaction leaves nothing open that was not open. *)
LEMMA CompactedSound ==
  ASSUME NEW S, NEW a \in Seq(S), NEW keep \in Nat, Summary \in S, Sound(a)
  PROVE  /\ Sound(CompactedLog(a, keep))
         /\ UsedIn(CompactedLog(a, keep)) \subseteq UsedIn(a)
         /\ SpentIn(CompactedLog(a, keep)) \subseteq SpentIn(a)
         /\ \A c : Open(CompactedLog(a, keep), c) => Open(a, c)
<1>1. PICK st, en, b :
         /\ b = CompactedLog(a, keep)
         /\ st \in 0..Len(a) /\ en \in 0..Len(a)
         /\ b \in Seq(S)
         /\ Len(b) = st + 1 + (Len(a) - en)
         /\ \A i \in 1..st : b[i] = a[i]
         /\ b[st + 1] = Summary
         /\ \A i \in en + 1 .. Len(a) : b[i - en + st + 1] = a[i]
         /\ st = PlanStart(a)
  BY CompactedLogIs
<1>2. /\ Len(a) \in Nat /\ DOMAIN a = 1..Len(a)
      /\ Len(b) \in Nat /\ DOMAIN b = 1..Len(b)
      /\ st \in Nat /\ en \in Nat
  BY <1>1, InSeq
<1>3. PICK k, d : k = st + 1 /\ d = en - (st + 1)
  OBVIOUS
<1>4. k \in Nat /\ d \in Int
  BY <1>2, <1>3
<1>5. Excerpt(a, b, k, d)
  <2>1. ASSUME NEW n \in DOMAIN b, n <= k
        PROVE  b[n].kind \in {"system", "summary"}
    <3>1. n \in 1..st \/ n = st + 1
      BY <1>2, <1>3, <2>1
    <3>2. Summary.kind = "summary"
      BY DEF Summary
    <3>3. \A i \in 1..st : a[i].kind \in {"system", "summary"}
      BY <1>1, PlanStartIs
    <3>4. QED
      BY <1>1, <3>1, <3>2, <3>3
  <2>2. ASSUME NEW n \in DOMAIN b, n > k
        PROVE  n + d \in DOMAIN a /\ b[n] = a[n + d]
    <3>1. PICK i : i = n + (en - (st + 1))
      OBVIOUS
    <3>2. n \in Nat /\ n > st + 1 /\ n <= st + 1 + (Len(a) - en)
      BY <1>1, <1>2, <1>3, <2>2
    <3>3. i \in en + 1 .. Len(a) /\ i \in 1..Len(a) /\ i - en + st + 1 = n
      BY <1>2, <3>1, <3>2
    <3>4. b[n] = a[i]
      BY <1>1, <3>3
    <3>5. QED
      BY <1>2, <1>3, <3>1, <3>3, <3>4
  <2>3. QED
    BY <2>1, <2>2 DEF Excerpt
<1>6. Ends(a, b, k, d)
  <2>1. Len(b) = st + 1 + (Len(a) - en)
    BY <1>1
  <2>2. Len(b) + (en - (st + 1)) = Len(a)
    BY <1>2, <2>1
  <2>3. QED
    BY <1>3, <2>2 DEF Ends
<1>7. Sound(b)
  BY <1>1, <1>4, <1>5, ExcerptSound
<1>8. UsedIn(b) \subseteq UsedIn(a) /\ SpentIn(b) \subseteq SpentIn(a)
  BY <1>1, <1>4, <1>5, ExcerptUses
<1>9. \A c : Open(b, c) => Open(a, c)
  BY <1>1, <1>4, <1>5, <1>6, ExcerptOpen
<1>10. QED
  BY <1>1, <1>7, <1>8, <1>9

LEMMA WholeIs ==
  ASSUME NEW S, NEW a \in Seq(S)
  PROVE  Whole(a) <=> Sound(a) /\ \A c : ~Open(a, c)
<1>1. \A c : Open(a, c) => c \in CallsIn(a)
  BY InDomain DEF Open
<1>2. QED
  BY <1>1 DEF Whole

LEMMA CompactedWhole ==
  ASSUME NEW S, NEW a \in Seq(S), NEW keep \in Nat, Summary \in S, Whole(a)
  PROVE  Whole(CompactedLog(a, keep))
<1>1. Sound(a) /\ \A c : ~Open(a, c)
  BY WholeIs
<1>2. /\ Sound(CompactedLog(a, keep))
      /\ \A c : ~Open(CompactedLog(a, keep), c)
  BY <1>1, CompactedSound
<1>3. QED
  BY <1>2 DEF Whole

(* The safe prefix of a sound log is whole. *)
LEMMA SafePrefixWhole ==
  ASSUME NEW S, NEW a \in Seq(S), Sound(a)
  PROVE  Whole(safe_prefix(a)) /\ UsedIn(safe_prefix(a)) \subseteq UsedIn(a)
<1>1. PICK n : n = LastInput(a)
  OBVIOUS
<1>2. n \in 0..Len(a) /\ (n > 0 => IsInput(a[n]))
  BY <1>1, LastInputIs
<1>3. PICK b : b = SubSeq(a, 1, n)
  OBVIOUS
<1>4. Len(a) \in Nat /\ n \in Nat
  BY <1>2, InSeq
<1>5. /\ b \in Seq(S) /\ Len(b) = n
      /\ \A i \in 1..n : b[i] = a[i]
  BY <1>2, <1>3, <1>4
<1>6. Sound(b) /\ UsedIn(b) \subseteq UsedIn(a)
  BY <1>2, <1>3, SubSeqSound
<1>7. b = <<>> \/ IsInput(Last(b))
  BY <1>2, <1>4, <1>5 DEF Last
<1>8. Whole(b)
  BY <1>5, <1>6, <1>7, InputWhole
<1>9. QED
  BY <1>1, <1>3, <1>6, <1>8 DEF safe_prefix

LEMMA LongestSafeWhole ==
  ASSUME NEW S, NEW a \in Seq(S), NEW b, Sound(a), Whole(b)
  PROVE  /\ Whole(longest_safe_prefix(b, a))
         /\ UsedIn(longest_safe_prefix(b, a)) \subseteq UsedIn(b) \cup UsedIn(a)
  BY SafePrefixWhole DEF longest_safe_prefix

(* A repaired log is whole: each call without a result gets one. *)
LEMMA RepairedWhole ==
  ASSUME NEW S, NEW C, NEW a \in Seq(S),
         \A m \in S : m.kind = "assistant" => m.calls \in Seq(C),
         \A c \in C : Interrupted(c) \in S,
         Sound(a)
  PROVE  /\ Whole(repaired_paused_log(a))
         /\ UsedIn(repaired_paused_log(a)) \subseteq UsedIn(a)
<1>1. PICK rs \in Seq(S) :
           /\ repaired_paused_log(a) = a \o rs
           /\ ToSet(rs) = {Interrupted(c) : c \in Dangling(a)}
           /\ \A i, j \in DOMAIN rs : rs[i] = rs[j] => i = j
  BY RepairedTail
<1>2. PICK b : b = a \o rs
  OBVIOUS
<1>3. /\ Len(a) \in Nat /\ DOMAIN a = 1..Len(a)
      /\ Len(rs) \in Nat /\ DOMAIN rs = 1..Len(rs)
      /\ ToSet(rs) = {rs[i] : i \in 1..Len(rs)}
  BY InSeq
<1>4. /\ b \in Seq(S) /\ Len(b) = Len(a) + Len(rs)
      /\ DOMAIN b = 1 .. Len(a) + Len(rs)
      /\ \A n \in DOMAIN a : n \in DOMAIN b /\ b[n] = a[n]
      /\ \A n \in DOMAIN b : n \notin DOMAIN a => n - Len(a) \in DOMAIN rs /\ b[n] = rs[n - Len(a)]
      /\ \A n \in DOMAIN rs : n + Len(a) \in DOMAIN b /\ b[n + Len(a)] = rs[n]
  BY <1>2, <1>3
<1>5. ASSUME NEW n \in DOMAIN b, n \notin DOMAIN a
      PROVE  \E c \in Dangling(a) : b[n] = Interrupted(c)
  <2>1. b[n] \in ToSet(rs)
    BY <1>3, <1>4, <1>5
  <2>2. QED
    BY <1>1, <2>1
<1>6. \A c : /\ Interrupted(c).call = c /\ IsResult(Interrupted(c))
             /\ Interrupted(c).kind # "outbound" /\ CallsOf(Interrupted(c)) = {}
  BY DEF Interrupted, IsResult, CallsOf
<1>7. ASSUME NEW n \in DOMAIN b, n \notin DOMAIN a
      PROVE  /\ IsResult(b[n]) /\ b[n].call \in Dangling(a) /\ CallsOf(b[n]) = {}
             /\ b[n].kind # "outbound" /\ b[n] = Interrupted(b[n].call)
  BY <1>5, <1>6, <1>7
<1>8. ASSUME NEW n \in DOMAIN a, IsResult(a[n])
      PROVE  a[n].call \notin Dangling(a)
  BY <1>8, InDomain DEF Dangling
<1>9. Unique(b)
  <2>1. SUFFICES ASSUME NEW i \in DOMAIN b, NEW j \in DOMAIN b, i # j
                 PROVE  /\ CallsOf(b[i]) \cap CallsOf(b[j]) = {}
                        /\ ~(IsResult(b[i]) /\ IsResult(b[j]) /\ b[i].call = b[j].call)
                        /\ ~(b[i].kind = "outbound" /\ b[i] = b[j])
    BY DEF Unique
  <2>2. CASE i \in DOMAIN a /\ j \in DOMAIN a
    <3>1. b[i] = a[i] /\ b[j] = a[j]
      BY <1>4, <2>2
    <3>2. QED
      BY <2>1, <2>2, <3>1 DEF Sound, Unique
  <2>3. CASE i \in DOMAIN a /\ j \notin DOMAIN a
    <3>1. b[i] = a[i]
      BY <1>4, <2>3
    <3>2. QED
      BY <1>7, <1>8, <2>3, <3>1
  <2>4. CASE i \notin DOMAIN a /\ j \in DOMAIN a
    <3>1. b[j] = a[j]
      BY <1>4, <2>4
    <3>2. QED
      BY <1>7, <1>8, <2>4, <3>1
  <2>5. CASE i \notin DOMAIN a /\ j \notin DOMAIN a
    <3>1. /\ i - Len(a) \in DOMAIN rs /\ b[i] = rs[i - Len(a)]
          /\ j - Len(a) \in DOMAIN rs /\ b[j] = rs[j - Len(a)]
          /\ i - Len(a) # j - Len(a)
      BY <1>3, <1>4, <2>1, <2>5
    <3>2. b[i] # b[j]
      BY <1>1, <3>1
    <3>3. b[i].call # b[j].call
      BY <1>7, <2>5, <3>2
    <3>4. QED
      BY <1>7, <2>5, <3>3
  <2>6. QED
    BY <2>2, <2>3, <2>4, <2>5
<1>10. Ordered(b)
  <2>1. SUFFICES ASSUME NEW i \in DOMAIN b, NEW j \in DOMAIN b,
                        IsResult(b[j]), b[j].call \in CallsOf(b[i])
                 PROVE  i < j
    BY DEF Ordered
  <2>2. i \in DOMAIN a /\ b[i] = a[i]
    BY <1>4, <1>7, <2>1
  <2>3. CASE j \in DOMAIN a
    <3>1. b[j] = a[j]
      BY <1>4, <2>3
    <3>2. QED
      BY <2>1, <2>2, <2>3, <3>1 DEF Sound, Ordered
  <2>4. CASE j \notin DOMAIN a
    BY <1>3, <1>4, <2>2, <2>4
  <2>5. QED
    BY <2>3, <2>4
<1>11. ASSUME NEW i \in Nat, NEW n \in Nat, n <= Len(a), NEW l \in Nat, n <= l, NEW c, NEW kinds,
              Answered(a, i, n, c, kinds)
       PROVE  Answered(b, i, l, c, kinds)
  <2>1. PICK k \in i + 1 .. n :
        \/ IsResult(a[k]) /\ a[k].call = c
        \/ a[k].kind \in kinds /\ SameResponse(a[k].call, c)
    BY <1>11 DEF Answered
  <2>2. k \in DOMAIN a /\ k \in i + 1 .. l
    BY <1>3, <1>11
  <2>3. QED
    BY <1>4, <2>1, <2>2 DEF Answered
<1>12. Settled(b)
  <2>1. SUFFICES ASSUME NEW n \in DOMAIN b, NEW i \in 1 .. n - 1, NEW c \in CallsOf(b[i]),
                        ~is_unresolved_tail(b[n])
                 PROVE  Answered(b, i, n, c, HandedBack(b[n]))
    BY DEF Settled
  <2>2. n \in DOMAIN a
    BY <1>7, <2>1 DEF is_unresolved_tail
  <2>3. i \in DOMAIN a /\ i \in Nat /\ n \in Nat /\ n <= Len(a) /\ n <= n
    BY <1>3, <2>2
  <2>4. b[n] = a[n] /\ b[i] = a[i]
    BY <1>4, <2>2, <2>3
  <2>5. Answered(a, i, n, c, HandedBack(a[n]))
    BY <2>1, <2>2, <2>4 DEF Sound, Settled
  <2>6. QED
    BY <1>11, <2>3, <2>4, <2>5
<1>13. ASSUME NEW c, Open(b, c)
       PROVE  FALSE
  <2>1. PICK i \in DOMAIN b : c \in CallsOf(b[i]) /\ ~Answered(b, i, Len(b), c, AsInput)
    BY <1>13 DEF Open
  <2>2. i \in DOMAIN a /\ b[i] = a[i] /\ i \in Nat
    BY <1>3, <1>4, <1>7, <2>1
  <2>3. c \in CallsIn(a)
    BY <2>1, <2>2, InDomain
  <2>4. CASE c \in ResolvedIn(a)
    <3>1. PICK m \in ToSet(a) : IsResult(m) /\ m.call = c
      BY <2>4 DEF ResolvedIn
    <3>2. PICK j \in DOMAIN a : a[j] = m
      BY DEF ToSet
    <3>3. i < j
      BY <2>1, <2>2, <3>1, <3>2 DEF Sound, Ordered
    <3>4. j \in i + 1 .. Len(b)
      BY <1>3, <1>4, <2>2, <3>3
    <3>5. b[j] = m
      BY <1>4, <3>2
    <3>6. QED
      BY <2>1, <3>1, <3>4, <3>5 DEF Answered
  <2>5. CASE c \notin ResolvedIn(a)
    <3>1. Interrupted(c) \in ToSet(rs)
      BY <1>1, <2>3, <2>5 DEF Dangling
    <3>2. PICK j \in DOMAIN rs : rs[j] = Interrupted(c)
      BY <3>1 DEF ToSet
    <3>3. b[j + Len(a)] = Interrupted(c)
      BY <1>4, <3>2
    <3>4. j + Len(a) \in i + 1 .. Len(b)
      BY <1>3, <1>4, <2>2
    <3>5. QED
      BY <1>6, <2>1, <3>3, <3>4 DEF Answered
  <2>6. QED
    BY <2>4, <2>5
<1>14. UsedIn(b) \subseteq UsedIn(a)
  <2>1. ToSet(b) = ToSet(a) \cup ToSet(rs)
    BY <1>2, ToSetConcat
  <2>2. ASSUME NEW c \in Dangling(a)
        PROVE  Uses(Interrupted(c)) \subseteq UsedIn(a)
    <3>1. c \in CallsIn(a) /\ Uses(Interrupted(c)) = {c}
      BY <1>6, <2>2 DEF Dangling, Uses
    <3>2. c \in UsedIn(a)
      BY <3>1 DEF CallsIn, UsedIn, Uses
    <3>3. QED
      BY <3>1, <3>2
  <2>3. \A m \in ToSet(rs) : Uses(m) \subseteq UsedIn(a)
    BY <1>1, <2>2
  <2>4. \A m \in ToSet(a) : Uses(m) \subseteq UsedIn(a)
    BY DEF UsedIn
  <2>5. \A m \in ToSet(b) : Uses(m) \subseteq UsedIn(a)
    BY <2>1, <2>3, <2>4
  <2>6. QED
    BY <2>5 DEF UsedIn
<1>15. QED
  BY <1>1, <1>2, <1>9, <1>10, <1>12, <1>13, <1>14 DEF Whole, Sound

------------------------------------------------------------------------------
(* Requests *)

LEMMA TailBoundaryIs ==
  ASSUME NEW S, NEW msgs \in Seq(S)
  PROVE  /\ unresolved_tail_boundary(msgs) \in 0..Len(msgs)
         /\ LET b == unresolved_tail_boundary(msgs)
            IN  b > 0 => ~is_unresolved_tail(msgs[b])
<1> DEFINE N == Len(msgs)
           T == {n \in 0..N : n > 0 => ~is_unresolved_tail(msgs[n])}
           P(n) == /\ n > 0 => ~is_unresolved_tail(msgs[n])
                   /\ \A i \in n + 1 .. N : is_unresolved_tail(msgs[i])
<1>1. N \in Nat
  BY InSeq
<1>2. 0 \in T /\ T \in SUBSET (0..N)
  BY <1>1
<1>3. PICK n \in T : \A m \in T : m <= n
  <2> HIDE DEF T, N
  <2>1. QED
    BY <1>1, <1>2, GreatestExists
<1>4. ASSUME NEW i \in n + 1 .. N
      PROVE  is_unresolved_tail(msgs[i])
  <2>1. i \in 0..N /\ i > n /\ n \in Nat
    BY <1>1, <1>2, <1>3
  <2>2. i \notin T
    BY <1>3, <2>1
  <2>3. QED
    BY <2>1, <2>2
<1>5. n \in 0..N /\ P(n)
  BY <1>3, <1>4
<1>6. unresolved_tail_boundary(msgs) = CHOOSE k \in 0..N : P(k)
  BY DEF unresolved_tail_boundary
<1>7. unresolved_tail_boundary(msgs) \in 0..N /\ P(unresolved_tail_boundary(msgs))
  <2> HIDE DEF P, N
  <2>1. QED
    BY <1>5, <1>6
<1>8. QED
  BY <1>7

Joined(S, z, x, y) ==
  /\ z \in Seq(S) /\ Len(z) = Len(x) + Len(y)
  /\ \A n \in 1..Len(x) : z[n] = x[n]
  /\ \A n \in 1..Len(y) : z[n + Len(x)] = y[n]

LEMMA ConcatIs ==
  ASSUME NEW S, NEW x \in Seq(S), NEW y \in Seq(S)
  PROVE  Joined(S, x \o y, x, y)
<1>1. Len(x) \in Nat /\ Len(y) \in Nat
  BY InSeq
<1>2. /\ x \o y \in Seq(S)
      /\ Len(x \o y) = Len(x) + Len(y)
      /\ \A i \in 1 .. Len(x) + Len(y) :
           (x \o y)[i] = IF i <= Len(x) THEN x[i] ELSE y[i - Len(x)]
  BY ConcatProperties
<1>3. ASSUME NEW n \in 1..Len(x)
      PROVE  (x \o y)[n] = x[n]
  <2>1. n \in 1 .. Len(x) + Len(y) /\ n <= Len(x)
    BY <1>1
  <2>2. QED
    BY <1>2, <2>1
<1>4. ASSUME NEW n \in 1..Len(y)
      PROVE  (x \o y)[n + Len(x)] = y[n]
  <2>1. PICK i : i = n + Len(x)
    OBVIOUS
  <2>2. i \in 1 .. Len(x) + Len(y) /\ ~(i <= Len(x)) /\ i - Len(x) = n
    BY <1>1, <2>1
  <2>3. (x \o y)[i] = y[i - Len(x)]
    BY <1>2, <2>2
  <2>4. QED
    BY <2>1, <2>2, <2>3
<1>5. QED
  BY <1>2, <1>3, <1>4 DEF Joined

LEMMA RestIs ==
  ASSUME NEW S, NEW s \in Seq(S), NEW b \in 0..Len(s)
  PROVE  /\ SubSeq(s, b + 1, Len(s)) \in Seq(S)
         /\ Len(SubSeq(s, b + 1, Len(s))) = Len(s) - b
         /\ \A n \in 1 .. Len(s) - b : SubSeq(s, b + 1, Len(s))[n] = s[n + b]
<1>1. Len(s) \in Nat /\ b \in Nat /\ b <= Len(s) /\ \A i \in 1..Len(s) : s[i] \in S
  BY InSeq
<1>2. \A i \in b + 1 .. Len(s) : s[i] \in S
  BY <1>1
<1>3. /\ SubSeq(s, b + 1, Len(s)) \in Seq(S)
      /\ Len(SubSeq(s, b + 1, Len(s))) = IF b + 1 <= Len(s) THEN Len(s) - (b + 1) + 1 ELSE 0
      /\ \A i \in 1 .. Len(s) - (b + 1) + 1 : SubSeq(s, b + 1, Len(s))[i] = s[(b + 1) + i - 1]
  BY <1>1, <1>2, SubSeqProperties
<1>4. /\ Len(s) - (b + 1) + 1 = Len(s) - b
      /\ (IF b + 1 <= Len(s) THEN Len(s) - (b + 1) + 1 ELSE 0) = Len(s) - b
  BY <1>1
<1>5. ASSUME NEW n \in 1 .. Len(s) - b
      PROVE  SubSeq(s, b + 1, Len(s))[n] = s[n + b]
  <2>1. n \in 1 .. Len(s) - (b + 1) + 1 /\ (b + 1) + n - 1 = n + b
    BY <1>1
  <2>2. SubSeq(s, b + 1, Len(s))[n] = s[(b + 1) + n - 1]
    BY <1>3, <2>1
  <2>3. QED
    BY <2>1, <2>2
<1>6. QED
  BY <1>3, <1>4, <1>5

(* Injected messages stand at position b of the log: at its end, or before  *)
(* a tail of calls and results.                                             *)
Spliced(msgs, p, b, sp) ==
  /\ b \in 0..Len(msgs)
  /\ DOMAIN sp = 1 .. Len(msgs) + Len(p)
  /\ \A n \in 1..b : sp[n] = msgs[n]
  /\ \A n \in b + 1 .. b + Len(p) : sp[n] = p[n - b]
  /\ \A n \in b + 1 .. Len(msgs) : sp[n + Len(p)] = msgs[n]
  /\ b = Len(msgs) \/ (b > 0 => ~is_unresolved_tail(msgs[b]))

LEMMA SpliceIs ==
  ASSUME NEW S, NEW msgs \in Seq(S), NEW p \in Seq(S)
  PROVE  \E b : Spliced(msgs, p, b, Splice(msgs, p))
<1>1. PICK B : B = unresolved_tail_boundary(msgs)
  OBVIOUS
<1>2. B \in 0..Len(msgs) /\ (B > 0 => ~is_unresolved_tail(msgs[B]))
  BY <1>1, TailBoundaryIs
<1>3. Len(msgs) \in Nat /\ Len(p) \in Nat /\ DOMAIN msgs = 1..Len(msgs)
  BY InSeq
<1>4. CASE Splice(msgs, p) = msgs \o p
  <2>1. /\ DOMAIN (msgs \o p) = 1 .. Len(msgs) + Len(p)
        /\ \A n \in 1..Len(msgs) : (msgs \o p)[n] = msgs[n]
        /\ \A n \in Len(msgs) + 1 .. Len(msgs) + Len(p) : (msgs \o p)[n] = p[n - Len(msgs)]
    BY <1>3
  <2>2. Len(msgs) \in 0..Len(msgs) /\ Len(msgs) + 1 .. Len(msgs) = {}
    BY <1>3
  <2>3. Spliced(msgs, p, Len(msgs), msgs \o p)
    BY <2>1, <2>2 DEF Spliced
  <2>4. QED
    BY <1>4, <2>3
<1>5. CASE Splice(msgs, p) = SubSeq(msgs, 1, B) \o p \o SubSeq(msgs, B + 1, Len(msgs))
  <2>1. PICK x, y : x = SubSeq(msgs, 1, B) /\ y = SubSeq(msgs, B + 1, Len(msgs))
    OBVIOUS
  <2>2. /\ x \in Seq(S) /\ Len(x) = B
        /\ \A n \in 1..B : x[n] = msgs[n]
    BY <1>2, <1>3, <2>1
  <2>3. /\ y \in Seq(S) /\ Len(y) = Len(msgs) - B
        /\ \A n \in 1 .. Len(msgs) - B : y[n] = msgs[n + B]
    BY <1>2, <2>1, RestIs
  <2>4. PICK xp : xp = x \o p
    OBVIOUS
  <2>5. /\ xp \in Seq(S) /\ Len(xp) = B + Len(p)
        /\ \A n \in 1..B : xp[n] = msgs[n]
        /\ \A n \in 1..Len(p) : xp[n + B] = p[n]
    <3>1. x \in Seq(S) /\ p \in Seq(S)
      BY <2>2
    <3>2. Joined(S, xp, x, p)
      BY <2>4, <3>1, ConcatIs
    <3>3. QED
      BY <2>2, <3>2 DEF Joined
  <2>6. PICK sp : sp = xp \o y
    OBVIOUS
  <2>7. /\ sp \in Seq(S) /\ Len(sp) = (B + Len(p)) + (Len(msgs) - B)
        /\ \A n \in 1 .. B + Len(p) : sp[n] = xp[n]
        /\ \A n \in 1 .. Len(msgs) - B : sp[n + (B + Len(p))] = y[n]
    <3>1. xp \in Seq(S) /\ y \in Seq(S)
      BY <2>3, <2>5
    <3>2. Joined(S, sp, xp, y)
      BY <2>6, <3>1, ConcatIs
    <3>3. QED
      BY <2>3, <2>5, <3>2 DEF Joined
  <2>8. DOMAIN sp = 1 .. Len(msgs) + Len(p)
    <3>1. (B + Len(p)) + (Len(msgs) - B) = Len(msgs) + Len(p)
      BY <1>2, <1>3
    <3>2. DOMAIN sp = 1..Len(sp)
      BY <2>7, InSeq
    <3>3. QED
      BY <2>7, <3>1, <3>2
  <2>9. ASSUME NEW n \in 1..B
        PROVE  sp[n] = msgs[n]
    <3>1. n \in 1 .. B + Len(p)
      BY <1>2, <1>3
    <3>2. QED
      BY <2>5, <2>7, <3>1
  <2>10. ASSUME NEW n \in B + 1 .. B + Len(p)
         PROVE  sp[n] = p[n - B]
    <3>1. PICK i : i = n - B
      OBVIOUS
    <3>2. n \in 1 .. B + Len(p) /\ i \in 1..Len(p) /\ i + B = n
      BY <1>2, <1>3, <3>1
    <3>3. sp[n] = xp[n] /\ xp[i + B] = p[i]
      BY <2>5, <2>7, <3>2
    <3>4. QED
      BY <3>1, <3>2, <3>3
  <2>11. ASSUME NEW n \in B + 1 .. Len(msgs)
         PROVE  sp[n + Len(p)] = msgs[n]
    <3>1. PICK i : i = n - B
      OBVIOUS
    <3>2. i \in 1 .. Len(msgs) - B /\ i + B = n /\ i + (B + Len(p)) = n + Len(p)
      BY <1>2, <1>3, <3>1
    <3>3. sp[i + (B + Len(p))] = y[i] /\ y[i] = msgs[i + B]
      BY <2>3, <2>7, <3>2
    <3>4. QED
      BY <3>2, <3>3
  <2>12. Spliced(msgs, p, B, sp)
    BY <1>2, <2>8, <2>9, <2>10, <2>11 DEF Spliced
  <2>13. QED
    BY <1>5, <2>1, <2>4, <2>6, <2>12
<1>6. QED
  BY <1>1, <1>4, <1>5 DEF Splice

(* What the projection leaves of a log. *)
LEMMA ProjectionIs ==
  ASSUME NEW msgs, NEW q, q = project_conversation(msgs)
  PROVE  LET matched == CallsIn(msgs) \cap ResolvedIn(msgs)
         IN  /\ \A n : n \in DOMAIN q <=>
                  /\ n \in DOMAIN msgs
                  /\ IsResult(msgs[n]) => msgs[n].call \in matched
                  /\ HasCalls(msgs[n]) => CallsOf(msgs[n]) \cap matched # {}
             /\ \A n \in DOMAIN q :
                  /\ ~HasCalls(msgs[n]) => q[n] = msgs[n]
                  /\ HasCalls(msgs[n]) =>
                       q[n].kind = "assistant" /\ CallsOf(q[n]) = CallsOf(msgs[n]) \cap matched
<1> DEFINE matched == CallsIn(msgs) \cap ResolvedIn(msgs)
           isMatched(c) == c \in matched
           kept(m) == /\ IsResult(m) => m.call \in matched
                      /\ HasCalls(m) => CallsOf(m) \cap matched # {}
           trimmed(m) == IF HasCalls(m) THEN Assistant(RestrictValues(m.calls, isMatched)) ELSE m
           K == {x \in DOMAIN msgs : kept(msgs[x])}
<1>1. RestrictValues(msgs, kept) = [x \in K |-> msgs[x]]
  BY DEF RestrictValues, Restrict
<1>2. project_conversation(msgs) =
        [i \in DOMAIN RestrictValues(msgs, kept) |-> trimmed(RestrictValues(msgs, kept)[i])]
  BY DEF project_conversation
<1>3. q = [i \in K |-> trimmed(msgs[i])]
  <2> HIDE DEF trimmed, K
  <2>1. QED
    BY <1>1, <1>2
<1>4. ASSUME NEW m, HasCalls(m)
      PROVE  /\ trimmed(m).kind = "assistant"
             /\ CallsOf(trimmed(m)) = CallsOf(m) \cap matched
  <2>1. RestrictValues(m.calls, isMatched) =
          [x \in {y \in DOMAIN m.calls : m.calls[y] \in matched} |-> m.calls[x]]
    BY DEF RestrictValues, Restrict
  <2>2. ToSet(RestrictValues(m.calls, isMatched)) = ToSet(m.calls) \cap matched
    <3> HIDE DEF matched
    <3>1. QED
      BY <2>1 DEF ToSet
  <2>3. m.kind = "assistant"
    BY <1>4 DEF HasCalls
  <2>4. trimmed(m) = Assistant(RestrictValues(m.calls, isMatched))
    BY <1>4
  <2>5. /\ Assistant(RestrictValues(m.calls, isMatched)).kind = "assistant"
        /\ CallsOf(Assistant(RestrictValues(m.calls, isMatched))) =
             ToSet(RestrictValues(m.calls, isMatched))
    <3> HIDE DEF isMatched
    <3>1. QED
      BY DEF Assistant, CallsOf
  <2>6. CallsOf(m) = ToSet(m.calls)
    BY <2>3 DEF CallsOf
  <2>7. QED
    <3> HIDE DEF trimmed, isMatched, matched
    <3>1. QED
      BY <2>2, <2>4, <2>5, <2>6
<1>5. \A m : ~HasCalls(m) => trimmed(m) = m
  OBVIOUS
<1>6. \A n : n \in K <=>
        /\ n \in DOMAIN msgs
        /\ IsResult(msgs[n]) => msgs[n].call \in matched
        /\ HasCalls(msgs[n]) => CallsOf(msgs[n]) \cap matched # {}
  <2>1. \A n : n \in K <=> n \in DOMAIN msgs /\ kept(msgs[n])
    <3> HIDE DEF kept, matched
    <3>1. QED
      OBVIOUS
  <2>2. \A m : kept(m) <=> /\ IsResult(m) => m.call \in matched
                           /\ HasCalls(m) => CallsOf(m) \cap matched # {}
    <3> HIDE DEF matched
    <3>1. QED
      OBVIOUS
  <2>3. QED
    <3> HIDE DEF kept, matched, K
    <3>1. SUFFICES ASSUME NEW n
                   PROVE  n \in K <=> /\ n \in DOMAIN msgs
                                      /\ IsResult(msgs[n]) => msgs[n].call \in matched
                                      /\ HasCalls(msgs[n]) => CallsOf(msgs[n]) \cap matched # {}
      OBVIOUS
    <3>2. kept(msgs[n]) <=> /\ IsResult(msgs[n]) => msgs[n].call \in matched
                            /\ HasCalls(msgs[n]) => CallsOf(msgs[n]) \cap matched # {}
      BY <2>2
    <3>3. n \in K <=> n \in DOMAIN msgs /\ kept(msgs[n])
      BY <2>1
    <3>4. QED
      BY <3>2, <3>3
<1>7. QED
  <2> HIDE DEF trimmed, K, kept, isMatched
  <2>1. DOMAIN q = K /\ \A n \in K : q[n] = trimmed(msgs[n])
    BY <1>3
  <2>2. QED
    BY <1>4, <1>5, <1>6, <2>1

LEMMA CallsAreMade ==
  ASSUME NEW m, NEW c \in CallsOf(m)
  PROVE  HasCalls(m) /\ ~IsResult(m) /\ m.kind = "assistant"
<1>1. m.kind = "assistant" /\ c \in ToSet(m.calls)
  BY DEF CallsOf
<1>2. m.calls # <<>>
  BY <1>1 DEF ToSet
<1>3. QED
  BY <1>1, <1>2 DEF HasCalls, IsResult

LEMMA InRange ==
  ASSUME NEW f, NEW m
  PROVE  m \in ToSet(f) <=> \E n \in DOMAIN f : f[n] = m
  BY DEF ToSet

(* Where the message at position n of the log stands in the request. *)
Shifted(n, b, p) == IF n <= b THEN n ELSE n + Len(p)

LEMMA SplicedPositions ==
  ASSUME NEW S, NEW msgs \in Seq(S), NEW p \in Seq(S), NEW b, NEW sp,
         Spliced(msgs, p, b, sp), \A n \in DOMAIN p : p[n].kind = "injected"
  PROVE  /\ \A n \in DOMAIN msgs :
              Shifted(n, b, p) \in DOMAIN sp /\ sp[Shifted(n, b, p)] = msgs[n]
         /\ \A x \in DOMAIN sp :
              \/ \E n \in DOMAIN msgs : x = Shifted(n, b, p)
              \/ x \in b + 1 .. b + Len(p) /\ sp[x].kind = "injected"
         /\ \A m, n \in DOMAIN msgs : m < n => Shifted(m, b, p) < Shifted(n, b, p)
<1>1. /\ Len(msgs) \in Nat /\ Len(p) \in Nat /\ b \in 0..Len(msgs)
      /\ DOMAIN msgs = 1..Len(msgs) /\ DOMAIN p = 1..Len(p)
      /\ DOMAIN sp = 1 .. Len(msgs) + Len(p)
  BY InSeq DEF Spliced
<1>2. ASSUME NEW n \in DOMAIN msgs
      PROVE  Shifted(n, b, p) \in DOMAIN sp /\ sp[Shifted(n, b, p)] = msgs[n]
  <2>1. CASE n <= b
    <3>1. n \in 1..b /\ n \in DOMAIN sp /\ Shifted(n, b, p) = n
      BY <1>1, <2>1 DEF Shifted
    <3>2. QED
      BY <3>1 DEF Spliced
  <2>2. CASE ~(n <= b)
    <3>1. n \in b + 1 .. Len(msgs) /\ n + Len(p) \in DOMAIN sp /\ Shifted(n, b, p) = n + Len(p)
      BY <1>1, <2>2 DEF Shifted
    <3>2. QED
      BY <3>1 DEF Spliced
  <2>3. QED
    BY <2>1, <2>2
<1>3. ASSUME NEW x \in DOMAIN sp
      PROVE  \/ \E n \in DOMAIN msgs : x = Shifted(n, b, p)
             \/ x \in b + 1 .. b + Len(p) /\ sp[x].kind = "injected"
  <2>1. CASE x <= b
    <3>1. x \in DOMAIN msgs /\ Shifted(x, b, p) = x
      BY <1>1, <2>1 DEF Shifted
    <3>2. QED
      BY <3>1
  <2>2. CASE x \in b + 1 .. b + Len(p)
    <3>1. x - b \in DOMAIN p
      BY <1>1, <2>2
    <3>2. sp[x] = p[x - b]
      BY <2>2 DEF Spliced
    <3>3. QED
      BY <2>2, <3>1, <3>2
  <2>3. CASE x > b + Len(p)
    <3>1. PICK n : n = x - Len(p)
      OBVIOUS
    <3>2. n \in DOMAIN msgs /\ Shifted(n, b, p) = x
      BY <1>1, <2>3, <3>1 DEF Shifted
    <3>3. QED
      BY <3>2
  <2>4. QED
    BY <1>1, <2>1, <2>2, <2>3
<1>4. ASSUME NEW m \in DOMAIN msgs, NEW n \in DOMAIN msgs, m < n
      PROVE  Shifted(m, b, p) < Shifted(n, b, p)
  BY <1>1, <1>4 DEF Shifted
<1>5. QED
  BY <1>2, <1>3, <1>4

(* A whole log makes a well-formed request. *)
LEMMA WholeRequest ==
  ASSUME NEW S, NEW msgs \in Seq(S), NEW p \in Seq(S),
         \A n \in DOMAIN msgs : msgs[n].kind # "injected",
         \A n \in DOMAIN p : p[n].kind = "injected",
         Sound(msgs)
  PROVE  WellFormed(project_conversation(Splice(msgs, p)))
<1>1. PICK sp : sp = Splice(msgs, p)
  OBVIOUS
<1>2. PICK q : q = project_conversation(sp)
  OBVIOUS
<1>3. PICK b : Spliced(msgs, p, b, sp)
  BY <1>1, SpliceIs
<1>4. PICK matched : matched = CallsIn(sp) \cap ResolvedIn(sp)
  OBVIOUS
<1>5. /\ \A n : n \in DOMAIN q <=>
           /\ n \in DOMAIN sp
           /\ IsResult(sp[n]) => sp[n].call \in matched
           /\ HasCalls(sp[n]) => CallsOf(sp[n]) \cap matched # {}
      /\ \A n \in DOMAIN q :
           /\ ~HasCalls(sp[n]) => q[n] = sp[n]
           /\ HasCalls(sp[n]) =>
                q[n].kind = "assistant" /\ CallsOf(q[n]) = CallsOf(sp[n]) \cap matched
  BY <1>2, <1>4, ProjectionIs
<1>6. /\ \A n \in DOMAIN msgs :
           Shifted(n, b, p) \in DOMAIN sp /\ sp[Shifted(n, b, p)] = msgs[n]
      /\ \A x \in DOMAIN sp :
           \/ \E n \in DOMAIN msgs : x = Shifted(n, b, p)
           \/ x \in b + 1 .. b + Len(p) /\ sp[x].kind = "injected"
      /\ \A m, n \in DOMAIN msgs : m < n => Shifted(m, b, p) < Shifted(n, b, p)
  BY <1>3, SplicedPositions
<1>7. \A m : m.kind = "injected" => ~HasCalls(m) /\ ~IsResult(m) /\ CallsOf(m) = {}
  BY DEF HasCalls, IsResult, CallsOf
(* A call of the request is one of the log, and so is a result. *)
<1>8. ASSUME NEW x \in DOMAIN q, NEW c \in CallsOf(q[x])
      PROVE  /\ c \in matched
             /\ \E n \in DOMAIN msgs : x = Shifted(n, b, p) /\ c \in CallsOf(msgs[n])
  <2>1. x \in DOMAIN sp
    BY <1>5
  <2>2. c \in CallsOf(sp[x]) /\ c \in matched
    <3>1. CASE HasCalls(sp[x])
      BY <1>5, <1>8, <3>1
    <3>2. CASE ~HasCalls(sp[x])
      BY <1>5, <1>8, <3>2, CallsAreMade
    <3>3. QED
      BY <3>1, <3>2
  <2>3. PICK n \in DOMAIN msgs : x = Shifted(n, b, p)
    BY <1>6, <1>7, <2>1, <2>2
  <2>4. QED
    BY <1>6, <2>2, <2>3
<1>9. ASSUME NEW x \in DOMAIN q, IsResult(q[x])
      PROVE  /\ q[x].call \in matched
             /\ \E n \in DOMAIN msgs : x = Shifted(n, b, p) /\ q[x] = msgs[n]
  <2>1. x \in DOMAIN sp
    BY <1>5
  <2>2. ~HasCalls(sp[x])
    <3>1. q[x].kind # "assistant"
      BY <1>9 DEF IsResult
    <3>2. QED
      BY <1>5, <3>1
  <2>3. q[x] = sp[x]
    BY <1>5, <2>2
  <2>4. sp[x].kind # "injected"
    BY <1>7, <1>9, <2>3
  <2>5. PICK n \in DOMAIN msgs : x = Shifted(n, b, p)
    BY <1>6, <2>1, <2>4
  <2>6. QED
    BY <1>5, <1>6, <1>9, <2>3, <2>5
<1>10. SUFFICES ASSUME NEW c \in CallsIn(q) \cup ResolvedIn(q)
                PROVE  \E i, j \in DOMAIN q :
                         /\ i < j
                         /\ \A n \in DOMAIN q : c \in CallsOf(q[n]) <=> n = i
                         /\ \A n \in DOMAIN q : IsResult(q[n]) /\ q[n].call = c <=> n = j
                         /\ \A n \in DOMAIN q : i < n /\ n < j /\ q[n].kind = "injected" =>
                              \E k \in DOMAIN q :
                                /\ i < k /\ k < n
                                /\ q[k].kind \in {"attachment", "outbound"}
                                /\ SameResponse(q[k].call, c)
  <2>1. WellFormed(q)
    BY <1>10 DEF WellFormed
  <2>2. QED
    BY <1>1, <1>2, <2>1
<1>11. c \in matched
  <2>1. CASE c \in CallsIn(q)
    <3>1. PICK m \in ToSet(q) : c \in CallsOf(m)
      BY <2>1 DEF CallsIn
    <3>2. PICK x \in DOMAIN q : q[x] = m
      BY <3>1, InRange
    <3>3. QED
      BY <1>8, <3>1, <3>2
  <2>2. CASE c \in ResolvedIn(q)
    <3>1. PICK m \in ToSet(q) : IsResult(m) /\ m.call = c
      BY <2>2 DEF ResolvedIn
    <3>2. PICK x \in DOMAIN q : q[x] = m
      BY <3>1, InRange
    <3>3. QED
      BY <1>9, <3>1, <3>2
  <2>3. QED
    BY <1>10, <2>1, <2>2
<1>12. PICK i0 \in DOMAIN msgs : c \in CallsOf(msgs[i0])
  <2>1. PICK m \in ToSet(sp) : c \in CallsOf(m)
    BY <1>4, <1>11 DEF CallsIn
  <2>2. PICK x \in DOMAIN sp : sp[x] = m
    BY <2>1, InRange
  <2>3. PICK n \in DOMAIN msgs : x = Shifted(n, b, p)
    BY <1>6, <1>7, <2>1, <2>2
  <2>4. QED
    BY <1>6, <2>1, <2>2, <2>3
<1>13. PICK j0 \in DOMAIN msgs : IsResult(msgs[j0]) /\ msgs[j0].call = c
  <2>1. PICK m \in ToSet(sp) : IsResult(m) /\ m.call = c
    BY <1>4, <1>11 DEF ResolvedIn
  <2>2. PICK x \in DOMAIN sp : sp[x] = m
    BY <2>1, InRange
  <2>3. PICK n \in DOMAIN msgs : x = Shifted(n, b, p)
    BY <1>6, <1>7, <2>1, <2>2
  <2>4. QED
    BY <1>6, <2>1, <2>2, <2>3
<1>14. i0 < j0
  BY <1>12, <1>13 DEF Sound, Ordered
<1>15. PICK i, j : i = Shifted(i0, b, p) /\ j = Shifted(j0, b, p)
  OBVIOUS
<1>16. i < j /\ i \in DOMAIN sp /\ j \in DOMAIN sp /\ sp[i] = msgs[i0] /\ sp[j] = msgs[j0]
  BY <1>6, <1>14, <1>15
<1>17. HasCalls(sp[i]) /\ ~IsResult(sp[i]) /\ c \in CallsOf(sp[i])
  BY <1>12, <1>16, CallsAreMade
<1>18. IsResult(sp[j]) /\ ~HasCalls(sp[j]) /\ sp[j].call = c
  BY <1>13, <1>16 DEF IsResult, HasCalls
<1>19. i \in DOMAIN q /\ c \in CallsOf(q[i])
  BY <1>5, <1>11, <1>16, <1>17
<1>20. j \in DOMAIN q /\ q[j] = msgs[j0]
  BY <1>5, <1>11, <1>16, <1>18
<1>21. ASSUME NEW n \in DOMAIN q, c \in CallsOf(q[n])
       PROVE  n = i
  <2>1. PICK k \in DOMAIN msgs : n = Shifted(k, b, p) /\ c \in CallsOf(msgs[k])
    BY <1>8, <1>21
  <2>2. k = i0
    BY <1>12, <2>1 DEF Sound, Unique
  <2>3. QED
    BY <1>15, <2>1, <2>2
<1>22. ASSUME NEW n \in DOMAIN q, IsResult(q[n]), q[n].call = c
       PROVE  n = j
  <2>1. PICK k \in DOMAIN msgs : n = Shifted(k, b, p) /\ q[n] = msgs[k]
    BY <1>9, <1>22
  <2>2. k = j0
    BY <1>13, <1>22, <2>1 DEF Sound, Unique
  <2>3. QED
    BY <1>15, <2>1, <2>2
<1>23. ASSUME NEW n \in DOMAIN q, i < n, n < j, q[n].kind = "injected"
       PROVE  \E k \in DOMAIN q :
                /\ i < k /\ k < n
                /\ q[k].kind \in {"attachment", "outbound"}
                /\ SameResponse(q[k].call, c)
  <2>1. /\ Len(msgs) \in Nat /\ Len(p) \in Nat /\ b \in 0..Len(msgs)
        /\ DOMAIN msgs = 1..Len(msgs)
    BY <1>3, InSeq DEF Spliced
  <2>2. n \in DOMAIN sp /\ sp[n].kind = "injected"
    BY <1>5, <1>23
  <2>3. n \in b + 1 .. b + Len(p)
    BY <1>6, <2>2
  <2>4. i0 <= b /\ j0 > b
    BY <1>15, <1>23, <2>1, <2>3 DEF Shifted
  <2>5. ~is_unresolved_tail(msgs[b])
    <3>1. PICK l \in Nat : l = Len(msgs)
      BY <2>1
    <3>2. i0 \in 1..l /\ j0 \in 1..l /\ b \in 0..l
      BY <1>12, <1>13, <2>1, <3>1
    <3>3. b # l /\ b > 0
      BY <2>4, <3>2
    <3>4. QED
      BY <1>3, <3>1, <3>3 DEF Spliced
  <2>6. is_unresolved_tail(msgs[i0])
    BY <1>16, <1>17 DEF is_unresolved_tail
  <2>7. b \in DOMAIN msgs /\ i0 \in 1 .. b - 1
    <3>1. i0 # b
      BY <2>5, <2>6
    <3>2. QED
      BY <2>1, <2>4, <3>1
  <2>8. Answered(msgs, i0, b, c, HandedBack(msgs[b]))
    BY <1>12, <2>5, <2>7 DEF Sound, Settled
  <2>9. PICK k \in i0 + 1 .. b :
          \/ IsResult(msgs[k]) /\ msgs[k].call = c
          \/ msgs[k].kind \in HandedBack(msgs[b]) /\ SameResponse(msgs[k].call, c)
    BY <2>8 DEF Answered
  <2>10. k \in DOMAIN msgs /\ k # j0 /\ Shifted(k, b, p) = k /\ Shifted(i0, b, p) = i0
         /\ i0 < k /\ k < n
    BY <2>1, <2>3, <2>4 DEF Shifted
  <2>11. ~(IsResult(msgs[k]) /\ msgs[k].call = c)
    BY <1>13, <2>10 DEF Sound, Unique
  <2>12. msgs[k].kind \in {"attachment", "outbound"} /\ SameResponse(msgs[k].call, c)
    BY <2>9, <2>11 DEF HandedBack, AsInput, AsOutput
  <2>13. ~IsResult(msgs[k]) /\ ~HasCalls(msgs[k])
    BY <2>12 DEF IsResult, HasCalls
  <2>14. k \in DOMAIN sp /\ sp[k] = msgs[k]
    BY <1>6, <2>10
  <2>15. k \in DOMAIN q /\ q[k] = msgs[k]
    BY <1>5, <2>13, <2>14
  <2>16. QED
    BY <1>15, <2>10, <2>12, <2>15
<1>24. QED
  BY <1>16, <1>18, <1>19, <1>20, <1>21, <1>22, <1>23

------------------------------------------------------------------------------
(* Steps of one run *)

LEMMA InKnown ==
  /\ \A q \in Runs : UsedBy(q) \subseteq Known
  /\ \A s \in Sessions : UsedAt(s) \subseteq Known
<1>1. ASSUME NEW q \in Runs, NEW c \in UsedBy(q)
      PROVE  c \in Known
  BY <1>1 DEF Known
<1>2. ASSUME NEW s \in Sessions, NEW c \in UsedAt(s)
      PROVE  c \in Known
  BY <1>2 DEF Known
<1>3. QED
  BY <1>1, <1>2

LEMMA UsedParts ==
  ASSUME NEW q \in Runs
  PROVE  /\ UsedIn(Ahead(loop[q])) \subseteq Known /\ UsedIn(cached[q]) \subseteq Known
         /\ UsedIn(snapshot[q]) \subseteq Known /\ UsedIn(copy[q]) \subseteq Known
         /\ UsedIn(fan[q]) \subseteq Known
  BY InKnown DEF UsedBy

LEMMA UsedStored ==
  ASSUME NEW s \in Sessions
  PROVE  UsedIn(store[s]) \subseteq Known /\ UsedIn(command[s].read) \subseteq Known
  BY InKnown DEF UsedAt

(* What a step of run r adds to what is known are calls of r, and only once *)
(* r is past the replay of its history.                                     *)
LEMMA HistoryStep ==
  ASSUME HistoryInv, NEW r \in Runs,
         \A q \in Runs \ {r} :
           /\ pc'[q] = pc[q] /\ loop'[q] = loop[q] /\ outcome'[q] = outcome[q]
           /\ cached'[q] = cached[q] /\ snapshot'[q] = snapshot[q]
           /\ copy'[q] = copy[q] /\ fan'[q] = fan[q]
           /\ q \in opened' => q \in opened,
         Numbered(r, pc'[r], loop'[r]), LogSound(r, pc'[r], loop'[r]), HookSound(r)',
         \A s \in Sessions : StoreSound(s)' /\ UsedAt(s)' \subseteq Known,
         pc'[r] \in EarlyPhases => pc[r] \in EarlyPhases,
         \A c \in UsedBy(r)' : c \in Known \/ (c[1] = r /\ pc'[r] \notin EarlyPhases)
  PROVE  HistoryInv'
<1>1. ASSUME NEW q \in Runs
      PROVE  Numbered(q, pc'[q], loop'[q]) /\ LogSound(q, pc'[q], loop'[q])
  <2>1. CASE q = r
    BY <2>1
  <2>2. CASE q # r
    BY <2>2 DEF HistoryInv
  <2>3. QED
    BY <2>1, <2>2
<1>2. ASSUME NEW q \in Runs
      PROVE  HookSound(q)'
  <2>1. CASE q = r
    BY <2>1
  <2>2. CASE q # r
    BY <2>2 DEF HistoryInv, HookSound
  <2>3. QED
    BY <2>1, <2>2
<1>3. ASSUME NEW q \in Runs, pc'[q] \in EarlyPhases
      PROVE  Unmentioned(q)'
  <2>1. pc[q] \in EarlyPhases
    BY <1>3
  <2>2. \A c \in Known : c[1] # q
    BY <2>1 DEF HistoryInv, Unmentioned
  <2>3. ASSUME NEW x \in Runs, NEW c \in UsedBy(x)'
        PROVE  c[1] # q
    <3>1. CASE x = r
      BY <1>3, <2>2, <2>3, <3>1
    <3>2. CASE x # r
      <4>1. UsedBy(x)' = UsedBy(x)
        BY <3>2 DEF UsedBy
      <4>2. QED
        BY <2>2, <2>3, <4>1, InKnown
    <3>3. QED
      BY <3>1, <3>2
  <2>4. ASSUME NEW s \in Sessions, NEW c \in UsedAt(s)'
        PROVE  c[1] # q
    BY <2>2, <2>4
  <2>5. ASSUME NEW c \in Known'
        PROVE  c[1] # q
    <3>1. \/ \E x \in Runs : c \in UsedBy(x)'
          \/ \E s \in Sessions : c \in UsedAt(s)'
      BY <2>5 DEF Known
    <3>2. QED
      BY <3>1, <2>3, <2>4
  <2>6. QED
    BY <2>5 DEF Unmentioned
<1>4. QED
  BY <1>1, <1>2, <1>3 DEF HistoryInv

(* A store that stays, or takes a whole log of known calls. *)
LEMMA StoreStep ==
  ASSUME HistoryInv, TypeOK, NEW t \in Sessions, NEW m, Whole(m), UsedIn(m) \subseteq Known,
         store' = store \/ store' = [store EXCEPT ![t] = m],
         command' = command
  PROVE  \A s \in Sessions : StoreSound(s)' /\ UsedAt(s)' \subseteq Known
<1>1. ASSUME NEW s \in Sessions
      PROVE  StoreSound(s)' /\ UsedAt(s)' \subseteq Known
  <2>1. StoreSound(s) /\ UsedIn(store[s]) \subseteq Known /\ UsedIn(command[s].read) \subseteq Known
    BY UsedStored DEF HistoryInv
  <2>2. store'[s] = store[s] \/ store'[s] = m
    BY DEF TypeOK
  <2>3. QED
    BY <2>1, <2>2 DEF StoreSound, UsedAt
<1>2. QED
  BY <1>1

LEMMA StoreStays ==
  ASSUME HistoryInv, store' = store, command' = command
  PROVE  \A s \in Sessions : StoreSound(s)' /\ UsedAt(s)' \subseteq Known
  BY InKnown DEF HistoryInv, StoreSound, UsedAt

(* A step inside the loop, from a run's phase and locals to p and l. *)
LEMMA LoopMove ==
  ASSUME HistoryInv, TypeOK, NEW r \in Runs, NEW p, NEW l,
         pc' = [pc EXCEPT ![r] = p], loop' = [loop EXCEPT ![r] = l],
         UNCHANGED <<store, command, opened, cached, snapshot, outcome, fan, copy>>,
         p \notin {"stop", "fanwrite"}, p \in EarlyPhases => pc[r] \in EarlyPhases,
         Numbered(r, p, l), LogSound(r, p, l),
         \A c \in UsedIn(Ahead(l)) : c \in Known \/ (c[1] = r /\ p \notin EarlyPhases)
  PROVE  HistoryInv'
<1>1. pc'[r] = p /\ loop'[r] = l
  BY DEF TypeOK
<1>2. \A q \in Runs \ {r} :
           /\ pc'[q] = pc[q] /\ loop'[q] = loop[q] /\ outcome'[q] = outcome[q]
           /\ cached'[q] = cached[q] /\ snapshot'[q] = snapshot[q]
           /\ copy'[q] = copy[q] /\ fan'[q] = fan[q]
           /\ q \in opened' => q \in opened
  BY DEF TypeOK
<1>3. HookSound(r)'
  BY <1>1 DEF HistoryInv, HookSound
<1>4. \A c \in UsedBy(r)' : c \in Known \/ (c[1] = r /\ pc'[r] \notin EarlyPhases)
  <2>1. UsedBy(r)' = UsedIn(Ahead(l)) \cup UsedIn(cached[r]) \cup UsedIn(snapshot[r])
                       \cup UsedIn(copy[r]) \cup UsedIn(fan[r])
    BY <1>1 DEF UsedBy
  <2>2. QED
    BY <1>1, <2>1, UsedParts
<1>5. \A s \in Sessions : StoreSound(s)' /\ UsedAt(s)' \subseteq Known
  BY StoreStays
<1>6. Numbered(r, pc'[r], loop'[r]) /\ LogSound(r, pc'[r], loop'[r])
      /\ (pc'[r] \in EarlyPhases => pc[r] \in EarlyPhases)
  BY <1>1
<1>7. QED
  BY <1>2, <1>3, <1>4, <1>5, <1>6, HistoryStep

(* A run without locals. *)
LEMMA NoLoopSound ==
  ASSUME NEW r \in Runs, NEW p
  PROVE  /\ Numbered(r, p, NoLoop) /\ LogSound(r, p, NoLoop)
         /\ Ahead(NoLoop) = <<>> /\ UsedIn(Ahead(NoLoop)) = {}
<1>1. /\ NoLoop.log = <<>> /\ NoLoop.todo = <<>> /\ NoLoop.batch = <<>> /\ NoLoop.accum = <<>>
  BY DEF NoLoop
<1>2. Ahead(NoLoop) = <<>>
  BY <1>1 DEF Ahead
<1>3. Numbered(r, p, NoLoop)
  BY <1>1 DEF Numbered, ToSet
<1>4. ToSet(NoLoop.batch) = {} /\ CallsIn(<<>>) = {}
  BY <1>1 DEF ToSet, CallsIn
<1>5. LogSound(r, p, NoLoop)
  BY <1>2, <1>4, EmptyWhole DEF LogSound, Whole
<1>6. QED
  BY <1>2, <1>3, <1>5, EmptyWhole

(* drive_inner returns before the run is complete. *)
LEMMA FinishMoves ==
  ASSUME HistoryInv, TypeOK, NEW r \in Runs, NEW how \in {"paused", "failed"}, Finish(r, how),
         UNCHANGED <<store, command, opened, cached, snapshot, fan, copy>>
  PROVE  HistoryInv'
<1>1. pc'[r] = "stop" /\ loop'[r] = NoLoop /\ outcome'[r] = how
  BY DEF TypeOK, Finish, Goto
<1>2. \A q \in Runs \ {r} :
           /\ pc'[q] = pc[q] /\ loop'[q] = loop[q] /\ outcome'[q] = outcome[q]
           /\ cached'[q] = cached[q] /\ snapshot'[q] = snapshot[q]
           /\ copy'[q] = copy[q] /\ fan'[q] = fan[q]
           /\ q \in opened' => q \in opened
  BY DEF TypeOK, Finish, Goto
<1>3. HookSound(r)'
  BY <1>1 DEF HistoryInv, HookSound
<1>4. \A c \in UsedBy(r)' : c \in Known
  <2>1. UsedBy(r)' = UsedIn(Ahead(NoLoop)) \cup UsedIn(cached[r]) \cup UsedIn(snapshot[r])
                       \cup UsedIn(copy[r]) \cup UsedIn(fan[r])
    BY <1>1 DEF UsedBy
  <2>2. QED
    BY <2>1, UsedParts, NoLoopSound
<1>5. \A s \in Sessions : StoreSound(s)' /\ UsedAt(s)' \subseteq Known
  BY StoreStays
<1>6. /\ Numbered(r, pc'[r], loop'[r]) /\ LogSound(r, pc'[r], loop'[r])
      /\ pc'[r] \notin EarlyPhases
  BY <1>1, NoLoopSound DEF EarlyPhases
<1>7. QED
  BY <1>2, <1>3, <1>4, <1>5, <1>6, HistoryStep

LEMMA MessageUses ==
  ASSUME NEW m \in Messages
  PROVE  Uses(m) \subseteq CallIds
<1>1. m.kind = "assistant" => ToSet(m.calls) \subseteq CallIds
  <2>1. m.kind = "assistant" => m.calls \in Seq(CallIds)
    BY MessageKinds, ResponseTypes
  <2>2. QED
    BY <2>1, InSeq
<1>2. IsResult(m) \/ m.kind = "outbound" => m.call \in CallIds
  BY DEF Messages, IsResult
<1>3. QED
  BY <1>1, <1>2 DEF Uses, CallsOf

LEMMA LogUses ==
  ASSUME NEW a \in Seq(Messages)
  PROVE  UsedIn(a) \subseteq CallIds
<1>1. ToSet(a) \subseteq Messages
  BY InSeq
<1>2. QED
  BY <1>1, MessageUses DEF UsedIn

LEMMA AheadTypes ==
  ASSUME TypeOK, NEW r \in Runs
  PROVE  /\ Ahead(loop[r]) \in Seq(Messages)
         /\ loop[r].todo = <<>> => Ahead(loop[r]) = loop[r].log
         /\ \A c \in UsedIn(Ahead(loop[r])) : c[2] \in Nat
<1>1. loop[r].log \in Seq(Messages) /\ loop[r].todo \in Seq(Messages)
  BY LoopFields
<1>2. Ahead(loop[r]) \in Seq(Messages)
  BY <1>1, ConcatProperties DEF Ahead
<1>3. \A c \in CallIds : c[2] \in Nat
  BY DEF CallIds
<1>4. loop[r].todo = <<>> => Ahead(loop[r]) = loop[r].log
  BY <1>1, ConcatEmptySeq DEF Ahead
<1>5. QED
  BY <1>2, <1>3, <1>4, LogUses

(* The locals l of a run at p, when neither its log nor its batch changes. *)
LEMMA LogStays ==
  ASSUME HistoryInv, TypeOK, NEW r \in Runs, NEW p, NEW l,
         Ahead(l) = Ahead(loop[r]), l.batch = loop[r].batch,
         \/ l.turn = loop[r].turn /\ (pc[r] \in CallPhases => p \in CallPhases)
         \/ l.turn = loop[r].turn + 1
  PROVE  LogSound(r, p, l) /\ \A c \in UsedIn(Ahead(l)) : c \in Known
<1>1. LogSound(r, pc[r], loop[r])
  BY DEF HistoryInv
<1>2. loop[r].turn \in Nat
  BY LoopFields
<1>3. ASSUME NEW c \in UsedIn(Ahead(l)), c[1] = r
      PROVE  c[2] < l.turn \/ (c[2] = l.turn /\ p \in CallPhases)
  <2>1. c[2] \in Nat
    BY AheadTypes
  <2>2. c[2] < loop[r].turn \/ (c[2] = loop[r].turn /\ pc[r] \in CallPhases)
    BY <1>1, <1>3 DEF LogSound
  <2>3. QED
    BY <1>2, <2>1, <2>2
<1>4. LogSound(r, p, l)
  BY <1>1, <1>3 DEF LogSound
<1>5. QED
  BY <1>4, UsedParts

LEMMA SpawnDriverHistory ==
  ASSUME HistoryInv, LoopInv, NEW r \in Runs, SpawnDriver(r)
  PROVE  HistoryInv'
<1>1. PICK p \in {"start", "refused"} : pc' = [pc EXCEPT ![r] = p]
  BY DEF SpawnDriver, Goto
<1>2. /\ pc[r] = "idle"
      /\ UNCHANGED <<store, command, opened, cached, snapshot, outcome, fan, copy, loop>>
  BY DEF SpawnDriver, stores, hooks, fanout
<1>3. loop[r] = NoLoop
  BY <1>2 DEF HistoryInv, Numbered
<1>4. loop' = [loop EXCEPT ![r] = NoLoop]
  BY <1>2, <1>3 DEF LoopInv, TypeOK
<1>5. /\ p \notin {"stop", "fanwrite"} /\ (p \in EarlyPhases => pc[r] \in EarlyPhases)
      /\ TypeOK
  BY <1>2 DEF EarlyPhases, LoopInv
<1>6. /\ Numbered(r, p, NoLoop) /\ LogSound(r, p, NoLoop)
      /\ \A c \in UsedIn(Ahead(NoLoop)) : c \in Known
  BY NoLoopSound
<1>7. QED
  BY <1>1, <1>2, <1>4, <1>5, <1>6, LoopMove

LEMMA BeginTurnHistory ==
  ASSUME HistoryInv, LoopInv, NEW r \in Runs, BeginTurn(r)
  PROVE  HistoryInv'
<1>1. PICK p \in {"summarize", "request"} : pc' = [pc EXCEPT ![r] = p]
  BY DEF BeginTurn, Goto
<1>2. /\ pc[r] = "turn"
      /\ UNCHANGED <<store, command, opened, cached, snapshot, outcome, fan, copy, loop>>
  BY DEF BeginTurn, At, fanout
<1>3. loop' = [loop EXCEPT ![r] = loop[r]]
  BY <1>2 DEF LoopInv, TypeOK
<1>4. /\ p \notin {"stop", "fanwrite"} \cup EarlyPhases \cup {"idle", "start"}
      /\ pc[r] \notin CallPhases
      /\ TypeOK
  BY <1>2 DEF EarlyPhases, LoopInv, CallPhases
<1>5. Numbered(r, p, loop[r])
  BY <1>2, <1>4 DEF HistoryInv, Numbered
<1>6. LogSound(r, p, loop[r]) /\ \A c \in UsedIn(Ahead(loop[r])) : c \in Known
  BY <1>4, LogStays
<1>7. QED
  BY <1>1, <1>2, <1>3, <1>4, <1>5, <1>6, LoopMove

LEMMA DispatchToolHistory ==
  ASSUME HistoryInv, LoopInv, NEW r \in Runs, DispatchTool(r)
  PROVE  HistoryInv'
<1>1. /\ pc[r] = "tool" /\ pc' = [pc EXCEPT ![r] = "execute"]
      /\ UNCHANGED <<store, command, opened, cached, snapshot, outcome, fan, copy, loop>>
  BY DEF DispatchTool, At, Goto, stores, hooks, fanout
<1>2. loop' = [loop EXCEPT ![r] = loop[r]]
  BY <1>1 DEF LoopInv, TypeOK
<1>3. /\ "execute" \notin {"stop", "fanwrite"} \cup EarlyPhases \cup {"idle", "start"}
      /\ "execute" \in CallPhases
      /\ TypeOK
  BY DEF EarlyPhases, LoopInv, CallPhases
<1>4. Numbered(r, "execute", loop[r])
  BY <1>1, <1>3 DEF HistoryInv, Numbered
<1>5. LogSound(r, "execute", loop[r]) /\ \A c \in UsedIn(Ahead(loop[r])) : c \in Known
  BY <1>3, LogStays
<1>6. QED
  BY <1>1, <1>2, <1>3, <1>4, <1>5, LoopMove

LEMMA SendRequestHistory ==
  ASSUME HistoryInv, LoopInv, NEW r \in Runs, SendRequest(r)
  PROVE  HistoryInv'
<1>1. /\ pc[r] = "request" /\ pc' = [pc EXCEPT ![r] = "llm"]
      /\ UNCHANGED <<store, command, opened, cached, snapshot, outcome, fan, copy>>
  BY DEF SendRequest, At, Goto, stores, fanout
<1>2. PICK l : l = [loop[r] EXCEPT !.attempt = 1, !.accum = <<>>]
  OBVIOUS
<1>3. /\ l.todo = loop[r].todo /\ l.batch = loop[r].batch /\ l.log = loop[r].log
      /\ l.turn = loop[r].turn /\ l.accum = <<>>
  BY <1>2, LoopFields DEF LoopInv, Loops
<1>4. loop' = [loop EXCEPT ![r] = l]
  BY <1>2 DEF SendRequest, LoopInv, TypeOK
<1>5. /\ "llm" \notin {"stop", "fanwrite"} \cup EarlyPhases \cup {"idle", "start"}
      /\ pc[r] \notin CallPhases
      /\ TypeOK
  BY <1>1 DEF EarlyPhases, LoopInv, CallPhases
<1>6. Numbered(r, "llm", l)
  BY <1>3, <1>5 DEF HistoryInv, Numbered
<1>7. Ahead(l) = Ahead(loop[r])
  BY <1>3 DEF Ahead
<1>8. LogSound(r, "llm", l) /\ \A c \in UsedIn(Ahead(l)) : c \in Known
  BY <1>3, <1>5, <1>7, LogStays
<1>9. QED
  BY <1>1, <1>4, <1>5, <1>6, <1>8, LoopMove

LEMMA FallBackHistory ==
  ASSUME HistoryInv, LoopInv, NEW r \in Runs, FallBack(r)
  PROVE  HistoryInv'
<1>1. /\ pc[r] = "llm"
      /\ UNCHANGED <<store, command, opened, cached, snapshot, outcome, fan, copy, pc>>
  BY DEF FallBack, At, stores, hooks, fanout
<1>2. PICK l : l = [loop[r] EXCEPT !.attempt = @ + 1, !.accum = <<>>]
  OBVIOUS
<1>3. /\ l.todo = loop[r].todo /\ l.batch = loop[r].batch /\ l.log = loop[r].log
      /\ l.turn = loop[r].turn /\ l.accum = <<>>
  BY <1>2, LoopFields DEF LoopInv, Loops
<1>4. loop' = [loop EXCEPT ![r] = l] /\ pc' = [pc EXCEPT ![r] = "llm"]
  BY <1>1, <1>2 DEF FallBack, LoopInv, TypeOK
<1>5. /\ "llm" \notin {"stop", "fanwrite"} \cup EarlyPhases \cup {"idle", "start"}
      /\ pc[r] \notin CallPhases
      /\ TypeOK
  BY <1>1 DEF EarlyPhases, LoopInv, CallPhases
<1>6. Numbered(r, "llm", l)
  BY <1>3, <1>5 DEF HistoryInv, Numbered
<1>7. Ahead(l) = Ahead(loop[r])
  BY <1>3 DEF Ahead
<1>8. LogSound(r, "llm", l) /\ \A c \in UsedIn(Ahead(l)) : c \in Known
  BY <1>3, <1>5, <1>7, LogStays
<1>9. QED
  BY <1>1, <1>4, <1>5, <1>6, <1>8, LoopMove

LEMMA StreamToolUseHistory ==
  ASSUME HistoryInv, LoopInv, NEW r \in Runs, StreamToolUse(r)
  PROVE  HistoryInv'
<1>1. /\ pc[r] = "llm"
      /\ UNCHANGED <<store, command, opened, cached, snapshot, outcome, fan, copy, pc>>
  BY DEF StreamToolUse, At, stores, hooks, fanout
<1>2. PICK c : c = <<r, loop[r].turn, loop[r].attempt, Len(loop[r].accum) + 1>>
  OBVIOUS
<1>3. PICK l : l = [loop[r] EXCEPT !.accum = Append(loop[r].accum, c)]
  OBVIOUS
<1>4. /\ l.todo = loop[r].todo /\ l.batch = loop[r].batch /\ l.log = loop[r].log
      /\ l.turn = loop[r].turn /\ l.attempt = loop[r].attempt
      /\ l.accum = Append(loop[r].accum, c)
  BY <1>3, LoopFields DEF LoopInv, Loops
<1>5. loop' = [loop EXCEPT ![r] = l] /\ pc' = [pc EXCEPT ![r] = "llm"]
  BY <1>1, <1>2, <1>3 DEF StreamToolUse, LoopInv, TypeOK
<1>6. /\ "llm" \notin {"stop", "fanwrite"} \cup EarlyPhases \cup {"idle", "start"}
      /\ pc[r] \notin CallPhases
      /\ TypeOK
  BY <1>1 DEF EarlyPhases, LoopInv, CallPhases
<1>7. \A i \in DOMAIN l.accum : l.accum[i] = <<r, l.turn, l.attempt, i>>
  <2>1. loop[r].accum \in Seq(CallIds \cup {c})
    BY LoopFields, ResponseTypes DEF LoopInv
  <2>2. \A i \in DOMAIN loop[r].accum : loop[r].accum[i] = <<r, l.turn, l.attempt, i>>
    BY <1>4 DEF HistoryInv, Numbered
  <2>3. /\ \A i \in DOMAIN l.accum : i \in DOMAIN loop[r].accum \/ i = Len(loop[r].accum) + 1
        /\ \A i \in DOMAIN loop[r].accum : l.accum[i] = loop[r].accum[i]
        /\ l.accum[Len(loop[r].accum) + 1] = c
    BY <1>4, <2>1, Appended
  <2>4. QED
    BY <1>2, <1>4, <2>2, <2>3
<1>8. Numbered(r, "llm", l)
  BY <1>4, <1>6, <1>7 DEF HistoryInv, Numbered
<1>9. Ahead(l) = Ahead(loop[r])
  BY <1>4 DEF Ahead
<1>10. LogSound(r, "llm", l) /\ \A d \in UsedIn(Ahead(l)) : d \in Known
  BY <1>4, <1>6, <1>9, LogStays
<1>11. QED
  BY <1>1, <1>5, <1>6, <1>8, <1>10, LoopMove

LEMMA PartsUsed ==
  ASSUME NEW a
  PROVE  /\ CallsIn(a) \subseteq UsedIn(a) /\ SpentIn(a) \subseteq UsedIn(a)
         /\ ResolvedIn(a) \subseteq SpentIn(a)
<1>1. \A m : CallsOf(m) \subseteq Uses(m) /\ Spent(m) \subseteq Uses(m)
  BY DEF Uses, Spent
<1>2. CallsIn(a) \subseteq UsedIn(a) /\ SpentIn(a) \subseteq UsedIn(a)
  BY <1>1 DEF CallsIn, UsedIn, SpentIn
<1>3. \A m : IsResult(m) => m.call \in Spent(m)
  BY DEF Spent
<1>4. ResolvedIn(a) \subseteq SpentIn(a)
  BY <1>3 DEF ResolvedIn, SpentIn
<1>5. QED
  BY <1>2, <1>4

LEMMA OpenIsMade ==
  ASSUME NEW S, NEW a \in Seq(S), NEW c, Open(a, c)
  PROVE  c \in CallsIn(a)
  BY InDomain DEF Open

LEMMA SummarizeHistory ==
  ASSUME HistoryInv, LoopInv, SessionAssumption, NEW r \in Runs, Summarize(r)
  PROVE  HistoryInv'
<1>1. /\ pc[r] = "summarize" /\ pc' = [pc EXCEPT ![r] = "request"]
      /\ UNCHANGED <<store, command, opened, cached, snapshot, outcome, fan, copy>>
  BY DEF Summarize, At, Goto, stores, fanout
<1>2. /\ "request" \notin {"stop", "fanwrite"} \cup EarlyPhases \cup {"idle", "start"}
      /\ pc[r] \notin CallPhases /\ pc[r] \notin AppendPhases
      /\ TypeOK
  BY <1>1 DEF EarlyPhases, LoopInv, CallPhases, AppendPhases
<1>3. CASE loop' = loop
  <2>1. loop' = [loop EXCEPT ![r] = loop[r]]
    BY <1>3 DEF LoopInv, TypeOK
  <2>2. Numbered(r, "request", loop[r])
    BY <1>1, <1>2 DEF HistoryInv, Numbered
  <2>3. LogSound(r, "request", loop[r]) /\ \A c \in UsedIn(Ahead(loop[r])) : c \in Known
    BY <1>2, LogStays
  <2>4. QED
    BY <1>1, <1>2, <2>1, <2>2, <2>3, LoopMove
<1>4. CASE loop' = [loop EXCEPT ![r].log = CompactedLog(@, KeepRecent)]
  <2>1. PICK l : l = [loop[r] EXCEPT !.log = CompactedLog(loop[r].log, KeepRecent)]
    OBVIOUS
  <2>2. /\ l.todo = loop[r].todo /\ l.batch = loop[r].batch
        /\ l.log = CompactedLog(loop[r].log, KeepRecent)
        /\ l.turn = loop[r].turn /\ l.attempt = loop[r].attempt /\ l.accum = loop[r].accum
    BY <2>1, LoopFields DEF LoopInv, Loops
  <2>3. loop' = [loop EXCEPT ![r] = l]
    BY <1>4, <2>1 DEF LoopInv, TypeOK
  <2>4. Numbered(r, "request", l)
    BY <1>1, <1>2, <2>2 DEF HistoryInv, Numbered
  <2>5. loop[r].todo = <<>> /\ loop[r].log \in Seq(Messages)
    BY <1>2, OwnCalls, LoopFields
  <2>6. Ahead(loop[r]) = loop[r].log
    BY <1>2, <2>5, AheadTypes
  <2>7. l.log \in Seq(Messages) /\ Ahead(l) = l.log
    <3>1. l.log \in Seq(Messages)
      BY <2>2, <2>5, LogTypes
    <3>2. QED
      BY <2>2, <2>5, <3>1, ConcatEmptySeq DEF Ahead
  <2>8. Summary \in Messages /\ KeepRecent \in Nat /\ LogSound(r, pc[r], loop[r])
    BY MessageTypes DEF SessionAssumption, HistoryInv
  <2>9. /\ Sound(l.log) /\ UsedIn(l.log) \subseteq UsedIn(loop[r].log)
        /\ SpentIn(l.log) \subseteq SpentIn(loop[r].log)
        /\ \A c : Open(l.log, c) => Open(loop[r].log, c)
    <3>1. Sound(loop[r].log)
      BY <2>6, <2>8 DEF LogSound
    <3>2. QED
      BY <2>2, <2>5, <2>8, <3>1, CompactedSound
  <2>10. \A c : Open(l.log, c) => c \in ToSet(l.batch)
    <3>1. \A c : Open(loop[r].log, c) => c \in CallsIn(loop[r].log)
      BY <2>5, OpenIsMade
    <3>2. QED
      BY <2>2, <2>6, <2>8, <2>9, <3>1 DEF LogSound
  <2>11. LogSound(r, "request", l)
    <3>1. ToSet(l.batch) \cap SpentIn(l.log) = {}
      BY <2>2, <2>6, <2>8, <2>9 DEF LogSound
    <3>2. \A c \in UsedIn(l.log) : c[1] = r => c[2] < l.turn
      BY <1>2, <2>2, <2>6, <2>8, <2>9 DEF LogSound
    <3>3. QED
      BY <2>7, <2>9, <2>10, <3>1, <3>2 DEF LogSound
  <2>12. \A c \in UsedIn(Ahead(l)) : c \in Known
    BY <2>6, <2>7, <2>9, UsedParts
  <2>13. QED
    BY <1>1, <1>2, <2>3, <2>4, <2>11, <2>12, LoopMove
<1>5. QED
  BY <1>3, <1>4 DEF Summarize

(* A run that is waiting for the provider has no open call, and has not     *)
(* made any in this turn.                                                   *)
LEMMA BetweenTurns ==
  ASSUME HistoryInv, LoopInv, NEW r \in Runs, pc[r] \in InnerPhases,
         pc[r] \notin CallPhases, pc[r] \notin AppendPhases
  PROVE  /\ loop[r].batch = <<>> /\ Ahead(loop[r]) = loop[r].log
         /\ Whole(loop[r].log) /\ \A c : ~Open(loop[r].log, c)
         /\ \A c \in UsedIn(loop[r].log) : c[1] = r => c[2] < loop[r].turn
         /\ \A c \in UsedIn(loop[r].log) : c \in Known
<1>1. loop[r].batch = <<>> /\ loop[r].todo = <<>> /\ loop[r].log \in Seq(Messages)
  BY OwnCalls, LoopFields DEF HistoryInv, Numbered, LoopInv
<1>2. Ahead(loop[r]) = loop[r].log
  BY <1>1, AheadTypes DEF LoopInv
<1>3. LogSound(r, pc[r], loop[r])
  BY DEF HistoryInv
<1>4. ToSet(loop[r].batch) = {}
  BY <1>1 DEF ToSet
<1>5. \A c : ~Open(loop[r].log, c)
  <2>1. \A c : Open(loop[r].log, c) => c \in CallsIn(loop[r].log)
    BY <1>1, OpenIsMade
  <2>2. QED
    BY <1>2, <1>3, <1>4, <2>1 DEF LogSound
<1>6. Whole(loop[r].log)
  BY <1>2, <1>3, <1>5 DEF LogSound, Whole
<1>7. QED
  BY <1>1, <1>2, <1>3, <1>5, <1>6, UsedParts DEF LogSound

(* The calls of a response are new to a log that has seen none of the turn. *)
LEMMA ResponseFits ==
  ASSUME NEW a \in Seq(Messages), Whole(a), NEW calls \in Responses, NEW r, NEW turn \in Nat,
         \A c \in ToSet(calls) : c[1] = r /\ c[2] = turn,
         \A c \in UsedIn(a) : c[1] = r => c[2] < turn
  PROVE  /\ Append(a, Assistant(calls)) \in Seq(Messages)
         /\ Sound(Append(a, Assistant(calls)))
         /\ \A c : Open(Append(a, Assistant(calls)), c) => c \in ToSet(calls)
         /\ ToSet(calls) \cap SpentIn(Append(a, Assistant(calls))) = {}
         /\ UsedIn(Append(a, Assistant(calls))) = UsedIn(a) \cup ToSet(calls)
<1>1. PICK m : m = Assistant(calls)
  OBVIOUS
<1>2. m \in Messages /\ ~IsResult(m) /\ m.kind # "outbound"
  BY <1>1, MessageTypes DEF Assistant, IsResult
<1>3. CallsOf(m) = ToSet(calls) /\ Uses(m) = ToSet(calls) /\ Spent(m) = {}
  BY <1>1, <1>2 DEF Assistant, CallsOf, Uses, Spent
<1>4. \A c \in ToSet(calls) : c \notin UsedIn(a)
  <2>1. ASSUME NEW c \in ToSet(calls), c \in UsedIn(a)
        PROVE  FALSE
    <3>1. c[2] = turn /\ c[2] < turn
      BY <2>1
    <3>2. QED
      BY <3>1
  <2>2. QED
    BY <2>1
<1>5. \A c : ~Open(a, c)
  BY WholeIs
<1>6. Fits(a, m)
  BY <1>2, <1>3, <1>4, <1>5, PartsUsed DEF Fits
<1>7. Sound(Append(a, m)) /\ Append(a, m) \in Seq(Messages)
  BY <1>2, <1>6, AppendSound, Appended DEF Whole
<1>8. /\ UsedIn(Append(a, m)) = UsedIn(a) \cup Uses(m)
      /\ SpentIn(Append(a, m)) = SpentIn(a) \cup Spent(m)
  BY <1>2, AppendUses
<1>9. \A c : Open(Append(a, m), c) => c \in ToSet(calls)
  BY <1>2, <1>3, <1>5, AppendOpen
<1>10. ToSet(calls) \cap SpentIn(Append(a, m)) = {}
  BY <1>3, <1>4, <1>8, PartsUsed
<1>11. QED
  BY <1>1, <1>3, <1>7, <1>8, <1>9, <1>10

LEMMA EndResponseHistory ==
  ASSUME HistoryInv, LoopInv, NEW r \in Runs, EndResponse(r)
  PROVE  HistoryInv'
<1>1. /\ pc[r] = "llm" /\ pc' = [pc EXCEPT ![r] = "answer"]
      /\ UNCHANGED <<store, command, opened, cached, snapshot, outcome, fan, copy>>
  BY DEF EndResponse, At, Goto, stores, hooks, fanout
<1>2. PICK blocks \in {<<>>, <<ProviderBlock(r, loop[r].turn)>>} :
        loop' = [loop EXCEPT ![r].todo = Append(blocks, Assistant(loop[r].accum)),
                             ![r].batch = loop[r].accum, ![r].accum = <<>>]
  BY DEF EndResponse
<1>3. PICK x, log, calls, turn :
        x = ProviderBlock(r, loop[r].turn) /\ log = loop[r].log /\ calls = loop[r].accum
        /\ turn = loop[r].turn
  OBVIOUS
<1>4. /\ log \in Seq(Messages) /\ calls \in Responses /\ turn \in Nat
      /\ Assistant(calls) \in Messages /\ x \in Messages
  BY <1>3, LoopFields, MessageTypes DEF LoopInv
<1>5. PICK l : l = [loop[r] EXCEPT !.todo = Append(blocks, Assistant(calls)), !.batch = calls,
                                   !.accum = <<>>]
  OBVIOUS
<1>6. /\ l.log = log /\ l.todo = Append(blocks, Assistant(calls)) /\ l.batch = calls
      /\ l.accum = <<>> /\ l.turn = turn
  BY <1>3, <1>5, LoopFields DEF LoopInv, Loops
<1>7. loop' = [loop EXCEPT ![r] = l]
  BY <1>2, <1>3, <1>5 DEF LoopInv, TypeOK
<1>8. /\ "answer" \notin {"stop", "fanwrite"} \cup EarlyPhases \cup {"idle", "start"}
      /\ "answer" \in CallPhases
      /\ pc[r] \notin CallPhases /\ pc[r] \notin AppendPhases /\ pc[r] \in InnerPhases
      /\ TypeOK
  BY <1>1 DEF EarlyPhases, LoopInv, CallPhases, AppendPhases, InnerPhases
<1>9. /\ Whole(log) /\ \A c \in UsedIn(log) : c[1] = r => c[2] < turn
      /\ \A c \in UsedIn(log) : c \in Known
  BY <1>3, <1>8, BetweenTurns
<1>10. calls \in Seq(CallIds) /\ \A i \in DOMAIN calls : calls[i] = <<r, turn, loop[r].attempt, i>>
  BY <1>3, <1>4, ResponseTypes DEF HistoryInv, Numbered
<1>11. \A c \in ToSet(calls) : c[1] = r /\ c[2] = turn
  BY <1>10 DEF ToSet
<1>12. Numbered(r, "answer", l)
  <2>1. \A i, j \in DOMAIN calls : calls[i] = calls[j] => i = j
    BY <1>10
  <2>2. QED
    BY <1>6, <1>8, <1>11, <2>1 DEF Numbered
<1>13. PICK a : a = log \o blocks
  OBVIOUS
<1>14. a \in Seq(Messages) /\ Ahead(l) = Append(a, Assistant(calls))
  <2>1. blocks \in Seq(Messages)
    <3>1. <<>> \in Seq(Messages) /\ <<x>> \in Seq(Messages)
      BY <1>4
    <3>2. QED
      BY <1>2, <1>3, <3>1
  <2>2. a \in Seq(Messages)
    BY <1>4, <1>13, <2>1, ConcatProperties
  <2>3. <<Assistant(calls)>> \in Seq(Messages)
    BY <1>4
  <2>4. Append(blocks, Assistant(calls)) = blocks \o <<Assistant(calls)>>
    BY <1>4, <2>1, AppendIsConcat
  <2>5. Append(a, Assistant(calls)) = a \o <<Assistant(calls)>>
    BY <1>4, <2>2, AppendIsConcat
  <2>6. log \o (blocks \o <<Assistant(calls)>>) = (log \o blocks) \o <<Assistant(calls)>>
    BY <1>4, <2>1, <2>3, ConcatAssociative
  <2>7. QED
    BY <1>6, <1>13, <2>2, <2>4, <2>5, <2>6 DEF Ahead
<1>15. Whole(a) /\ UsedIn(a) = UsedIn(log)
  <2>1. CASE blocks = <<>>
    BY <1>4, <1>9, <1>13, <2>1, ConcatEmptySeq
  <2>2. CASE blocks = <<x>>
    <3>1. a = Append(log, x)
      BY <1>4, <1>13, <2>2, AppendIsConcat
    <3>2. CallsOf(x) = {} /\ ~IsResult(x) /\ x.kind # "outbound"
      BY <1>3 DEF ProviderBlock, CallsOf, IsResult
    <3>3. Uses(x) = {}
      BY <3>2 DEF Uses
    <3>4. Whole(a)
      BY <1>4, <1>9, <3>1, <3>2, WholeAppend
    <3>5. UsedIn(a) = UsedIn(log) \cup Uses(x)
      BY <1>4, <3>1, AppendUses
    <3>6. QED
      BY <3>3, <3>4, <3>5
  <2>3. QED
    BY <1>2, <1>3, <2>1, <2>2
<1>16. /\ Sound(Ahead(l)) /\ \A c : Open(Ahead(l), c) => c \in ToSet(calls)
       /\ ToSet(calls) \cap SpentIn(Ahead(l)) = {}
       /\ UsedIn(Ahead(l)) = UsedIn(a) \cup ToSet(calls)
  BY <1>4, <1>9, <1>11, <1>14, <1>15, ResponseFits
<1>17. LogSound(r, "answer", l)
  BY <1>6, <1>8, <1>9, <1>11, <1>15, <1>16 DEF LogSound
<1>18. \A c \in UsedIn(Ahead(l)) : c \in Known \/ (c[1] = r /\ "answer" \notin EarlyPhases)
  BY <1>8, <1>9, <1>11, <1>15, <1>16
<1>19. QED
  BY <1>1, <1>7, <1>8, <1>12, <1>17, <1>18, LoopMove

(* The tool of call c returns: what it hands back. *)
LEMMA ResultFits ==
  ASSUME NEW a \in Seq(Messages), Sound(a), NEW c \in CallIds, c \notin SpentIn(a)
  PROVE  /\ Append(a, ToolResult(c)) \in Seq(Messages)
         /\ Sound(Append(a, ToolResult(c)))
         /\ \A d : Open(Append(a, ToolResult(c)), d) => Open(a, d) /\ d # c
         /\ SpentIn(Append(a, ToolResult(c))) = SpentIn(a) \cup {c}
         /\ UsedIn(Append(a, ToolResult(c))) = UsedIn(a) \cup {c}
         /\ \A m \in ToSet(Append(a, ToolResult(c))) : m.kind = "outbound" => m.call \in SpentIn(a)
<1>1. PICK m : m = ToolResult(c)
  OBVIOUS
<1>2. m \in Messages /\ IsResult(m) /\ m.call = c /\ m.kind # "outbound"
  BY <1>1, MessageTypes DEF ToolResult, IsResult
<1>3. CallsOf(m) = {} /\ Uses(m) = {c} /\ Spent(m) = {c}
  BY <1>2 DEF CallsOf, Uses, Spent, IsResult
<1>4. Fits(a, m)
  BY <1>2, <1>3, PartsUsed DEF Fits, is_unresolved_tail
<1>5. Sound(Append(a, m)) /\ Append(a, m) \in Seq(Messages)
  BY <1>2, <1>4, AppendSound, Appended
<1>6. /\ UsedIn(Append(a, m)) = UsedIn(a) \cup Uses(m)
      /\ SpentIn(Append(a, m)) = SpentIn(a) \cup Spent(m)
  BY <1>2, AppendUses
<1>7. \A d : Open(Append(a, m), d) => Open(a, d) /\ d # c
  BY <1>2, <1>3, AppendOpen
<1>8. \A y \in ToSet(Append(a, m)) : y.kind = "outbound" => y.call \in SpentIn(a)
  <2>1. \A y \in ToSet(Append(a, m)) : y.kind = "outbound" => y \in ToSet(a)
    BY <1>2, ToSetAppend
  <2>2. \A y : y.kind = "outbound" => y.call \in Spent(y)
    BY DEF Spent
  <2>3. QED
    BY <2>1, <2>2 DEF SpentIn
<1>9. QED
  BY <1>1, <1>3, <1>5, <1>6, <1>7, <1>8

LEMMA HandedFits ==
  ASSUME NEW a \in Seq(Messages), Sound(a), NEW c \in CallIds, NEW m \in Messages,
         m = Attachment(c) \/ \E s \in Sessions : m = ChannelOutbound(c, s),
         m.kind = "outbound" => m \notin ToSet(a),
         \A d : Open(a, d) => SameResponse(c, d)
  PROVE  /\ Append(a, m) \in Seq(Messages) /\ Sound(Append(a, m))
         /\ \A d : Open(Append(a, m), d) => Open(a, d)
         /\ SpentIn(Append(a, m)) \subseteq SpentIn(a) \cup {c}
         /\ UsedIn(Append(a, m)) \subseteq UsedIn(a) \cup {c}
<1>1. m.kind \in {"attachment", "outbound"} /\ m.call = c
  BY DEF Attachment, ChannelOutbound
<1>2. ~IsResult(m) /\ CallsOf(m) = {} /\ Uses(m) \subseteq {c} /\ Spent(m) \subseteq {c}
  BY <1>1 DEF IsResult, CallsOf, Uses, Spent
<1>3. m.kind \in HandedBack(m)
  BY <1>1 DEF HandedBack, IsInput, IsUser, AsInput, AsOutput
<1>4. Fits(a, m)
  BY <1>1, <1>2, <1>3 DEF Fits
<1>5. /\ UsedIn(Append(a, m)) = UsedIn(a) \cup Uses(m)
      /\ SpentIn(Append(a, m)) = SpentIn(a) \cup Spent(m)
  BY AppendUses
<1>6. QED
  BY <1>2, <1>4, <1>5, AppendSound, Appended, AppendOpen

(* The calls of a batch behind its first one are others. *)
LEMMA BatchTail ==
  ASSUME NEW batch \in Responses, batch # <<>>,
         \A i, j \in DOMAIN batch : batch[i] = batch[j] => i = j
  PROVE  /\ Head(batch) \in ToSet(batch)
         /\ ToSet(Tail(batch)) = ToSet(batch) \ {Head(batch)}
         /\ \A i, j \in DOMAIN Tail(batch) : Tail(batch)[i] = Tail(batch)[j] => i = j
<1>1. batch \in Seq(CallIds)
  BY ResponseTypes
<1>2. PICK t : t = Tail(batch)
  OBVIOUS
<1>3. t \in Seq(CallIds) /\ Len(t) = Len(batch) - 1 /\ \A i \in 1..Len(t) : t[i] = batch[i + 1]
  BY <1>1, <1>2, HeadTailProperties
<1>4. /\ Len(batch) \in Nat /\ DOMAIN batch = 1..Len(batch) /\ DOMAIN t = 1..Len(t)
      /\ Len(batch) > 0 /\ Len(t) \in Nat
  BY <1>1, <1>3, InSeq, EmptySeq
<1>5. Head(batch) = batch[1] /\ 1 \in DOMAIN batch
  BY <1>1, <1>4
<1>6. \A i \in DOMAIN t : i + 1 \in DOMAIN batch /\ t[i] = batch[i + 1] /\ i + 1 # 1
  BY <1>3, <1>4
<1>7. \A i \in DOMAIN batch : i = 1 \/ (i - 1 \in DOMAIN t /\ t[i - 1] = batch[i])
  BY <1>3, <1>4
<1>8. \A i, j \in DOMAIN t : t[i] = t[j] => i = j
  BY <1>4, <1>6
<1>9. ToSet(t) = ToSet(batch) \ {batch[1]}
  <2>1. ASSUME NEW c \in ToSet(t)
        PROVE  c \in ToSet(batch) \ {batch[1]}
    BY <1>5, <1>6, InRange
  <2>2. ASSUME NEW c \in ToSet(batch), c # batch[1]
        PROVE  c \in ToSet(t)
    BY <1>7, <2>2, InRange
  <2>3. QED
    BY <2>1, <2>2
<1>10. Head(batch) \in ToSet(batch)
  BY <1>5, InRange
<1>11. QED
  BY <1>2, <1>5, <1>8, <1>9, <1>10

LEMMA ResolveToolHistory ==
  ASSUME HistoryInv, LoopInv, NEW r \in Runs, ResolveTool(r)
  PROVE  HistoryInv'
<1>1. /\ pc[r] = "execute" /\ pc' = [pc EXCEPT ![r] = "resolve"]
      /\ UNCHANGED <<store, command, opened, cached, snapshot, outcome, fan, copy>>
  BY DEF ResolveTool, At, Goto, stores, hooks, fanout
<1>2. PICK x \in {<<>>, <<Attachment(Head(loop[r].batch))>>}
                   \cup {<<ChannelOutbound(Head(loop[r].batch), s)>> : s \in Sessions} :
        /\ Spend("extras", Len(x))
        /\ loop' = [loop EXCEPT ![r].todo = <<ToolResult(Head(loop[r].batch))>> \o x,
                                ![r].batch = Tail(@)]
  BY DEF ResolveTool
<1>3. PICK c, log, batch, turn :
        /\ c = Head(loop[r].batch) /\ log = loop[r].log /\ batch = loop[r].batch
        /\ turn = loop[r].turn
  OBVIOUS
<1>4. /\ "resolve" \notin {"stop", "fanwrite"} \cup EarlyPhases \cup {"idle", "start"}
      /\ "resolve" \in CallPhases /\ pc[r] \in CallPhases
      /\ pc[r] \notin AppendPhases
      /\ TypeOK
  BY <1>1 DEF EarlyPhases, LoopInv, CallPhases, AppendPhases
<1>5. /\ batch \in Responses /\ batch # <<>> /\ c \in CallIds /\ turn \in Nat
      /\ log \in Seq(Messages) /\ loop[r].todo = <<>>
  BY <1>1, <1>3, <1>4, OwnCalls, LoopFields, ResponseTypes DEF LoopInv
<1>6. PICK l : l = [loop[r] EXCEPT !.todo = <<ToolResult(c)>> \o x, !.batch = Tail(batch)]
  OBVIOUS
<1>7. /\ l.log = log /\ l.todo = <<ToolResult(c)>> \o x /\ l.batch = Tail(batch)
      /\ l.accum = loop[r].accum /\ l.turn = turn /\ l.attempt = loop[r].attempt
  BY <1>3, <1>6, LoopFields DEF LoopInv, Loops
<1>8. loop' = [loop EXCEPT ![r] = l]
  BY <1>2, <1>3, <1>6 DEF LoopInv, TypeOK
<1>20. x = <<>> \/ x = <<Attachment(c)>> \/ \E s \in Sessions : x = <<ChannelOutbound(c, s)>>
  BY <1>2, <1>3
<1>9. /\ \A i, j \in DOMAIN batch : batch[i] = batch[j] => i = j
      /\ \A d \in ToSet(batch) : d[1] = r /\ d[2] = turn
      /\ \A i \in DOMAIN loop[r].accum : loop[r].accum[i] = <<r, turn, loop[r].attempt, i>>
      /\ loop[r].accum = <<>>
  BY <1>1, <1>3 DEF HistoryInv, Numbered
<1>10. /\ c \in ToSet(batch) /\ ToSet(Tail(batch)) = ToSet(batch) \ {c}
       /\ \A i, j \in DOMAIN Tail(batch) : Tail(batch)[i] = Tail(batch)[j] => i = j
  BY <1>3, <1>5, <1>9, BatchTail
<1>11. Numbered(r, "resolve", l)
  BY <1>4, <1>7, <1>9, <1>10 DEF Numbered
<1>12. LogSound(r, pc[r], loop[r]) /\ Ahead(loop[r]) = log
  BY <1>3, <1>4, <1>5, AheadTypes DEF HistoryInv
<1>13. /\ Sound(log) /\ \A d : Open(log, d) => d \in ToSet(batch)
       /\ ToSet(batch) \cap SpentIn(log) = {}
       /\ \A d \in UsedIn(log) : d[1] = r => d[2] < turn \/ d[2] = turn
  BY <1>3, <1>5, <1>12, OpenIsMade DEF LogSound
<1>14. PICK a : a = Append(log, ToolResult(c))
  OBVIOUS
<1>15. /\ a \in Seq(Messages) /\ Sound(a)
       /\ \A d : Open(a, d) => d \in ToSet(Tail(batch))
       /\ SpentIn(a) = SpentIn(log) \cup {c} /\ UsedIn(a) = UsedIn(log) \cup {c}
       /\ \A m \in ToSet(a) : m.kind = "outbound" => m.call \in SpentIn(log)
  <2>1. c \notin SpentIn(log)
    BY <1>10, <1>13
  <2>2. QED
    BY <1>5, <1>10, <1>13, <1>14, <2>1, ResultFits
<1>16. /\ Sound(Ahead(l)) /\ \A d : Open(Ahead(l), d) => d \in ToSet(Tail(batch))
       /\ SpentIn(Ahead(l)) \subseteq SpentIn(log) \cup {c}
       /\ UsedIn(Ahead(l)) \subseteq UsedIn(log) \cup {c}
  <2>1. ToolResult(c) \in Messages /\ <<ToolResult(c)>> \in Seq(Messages)
    BY <1>5, MessageTypes
  <2>2. Append(log, ToolResult(c)) = log \o <<ToolResult(c)>>
    BY <1>5, <2>1, AppendIsConcat
  <2>3. CASE x = <<>>
    <3>1. l.todo = <<ToolResult(c)>>
      BY <1>7, <2>1, <2>3, ConcatEmptySeq
    <3>2. Ahead(l) = a
      BY <1>7, <1>14, <2>2, <3>1 DEF Ahead
    <3>3. QED
      BY <1>15, <3>2
  <2>4. ASSUME NEW m, x = <<m>>, m = Attachment(c) \/ \E s \in Sessions : m = ChannelOutbound(c, s)
        PROVE  /\ Sound(Ahead(l)) /\ \A d : Open(Ahead(l), d) => d \in ToSet(Tail(batch))
               /\ SpentIn(Ahead(l)) \subseteq SpentIn(log) \cup {c}
               /\ UsedIn(Ahead(l)) \subseteq UsedIn(log) \cup {c}
    <3>1. m \in Messages /\ m.call = c
      <4>1. CASE m = Attachment(c)
        BY <1>5, <4>1, MessageTypes DEF Attachment
      <4>2. CASE \E s \in Sessions : m = ChannelOutbound(c, s)
        BY <1>5, <4>2, MessageTypes DEF ChannelOutbound
      <4>3. QED
        BY <2>4, <4>1, <4>2
    <3>2. <<m>> \in Seq(Messages)
      BY <3>1
    <3>3. log \o (<<ToolResult(c)>> \o <<m>>) = (log \o <<ToolResult(c)>>) \o <<m>>
      BY <1>5, <2>1, <3>2, ConcatAssociative
    <3>4. Append(a, m) = a \o <<m>>
      BY <1>15, <3>1, AppendIsConcat
    <3>5. Ahead(l) = Append(a, m)
      BY <1>7, <1>14, <2>2, <2>4, <3>3, <3>4 DEF Ahead
    <3>6. m.kind = "outbound" => m \notin ToSet(a)
      BY <1>10, <1>13, <1>15, <3>1
    <3>7. \A d : Open(a, d) => SameResponse(c, d)
      BY <1>9, <1>10, <1>15 DEF SameResponse
    <3>8. /\ Sound(Append(a, m)) /\ \A d : Open(Append(a, m), d) => Open(a, d)
          /\ SpentIn(Append(a, m)) \subseteq SpentIn(a) \cup {c}
          /\ UsedIn(Append(a, m)) \subseteq UsedIn(a) \cup {c}
      BY <1>5, <1>15, <2>4, <3>1, <3>6, <3>7, HandedFits
    <3>9. QED
      BY <1>15, <3>5, <3>8
  <2>5. QED
    BY <1>20, <2>3, <2>4
<1>17. LogSound(r, "resolve", l)
  <2>1. \A d \in UsedIn(Ahead(l)) : d[1] = r => d[2] < turn \/ d[2] = turn
    BY <1>9, <1>10, <1>13, <1>16
  <2>2. ToSet(Tail(batch)) \cap SpentIn(Ahead(l)) = {}
    BY <1>10, <1>13, <1>16
  <2>3. QED
    BY <1>4, <1>7, <1>16, <2>1, <2>2 DEF LogSound
<1>18. \A d \in UsedIn(Ahead(l)) : d \in Known \/ (d[1] = r /\ "resolve" \notin EarlyPhases)
  BY <1>4, <1>9, <1>10, <1>12, <1>16, UsedParts
<1>19. QED
  BY <1>1, <1>4, <1>8, <1>11, <1>17, <1>18, LoopMove

LEMMA PauseHistory ==
  ASSUME HistoryInv, LoopInv, NEW r \in Runs, Pause(r)
  PROVE  HistoryInv'
<1>1. /\ Finish(r, "paused")
      /\ UNCHANGED <<store, command, opened, cached, snapshot, fan, copy>>
  BY DEF Pause, stores, hooks, fanout
<1>2. QED
  BY <1>1, FinishMoves DEF LoopInv

LEMMA LeaveHistory ==
  ASSUME HistoryInv, LoopInv, NEW r \in Runs, ObserveCancel(r) \/ Fail(r)
  PROVE  HistoryInv'
<1>1. /\ Finish(r, "failed")
      /\ UNCHANGED <<store, command, opened, cached, snapshot, fan, copy>>
  BY DEF ObserveCancel, Fail, stores, hooks, fanout
<1>2. QED
  BY <1>1, FinishMoves DEF LoopInv

LEMMA OpenSessionHistory ==
  ASSUME HistoryInv, LoopInv, SessionAssumption, NEW r \in Runs, OpenSession(r)
  PROVE  HistoryInv'
<1>1. /\ pc[r] = "start" /\ pc' = [pc EXCEPT ![r] = "replay"]
      /\ UNCHANGED <<store, command, outcome, fan, copy>>
  BY DEF OpenSession, At, Goto, stores, fanout
<1>2. PICK old :
        /\ old = store[SessionOf[r]] \/ old = <<>>
        /\ loop' = [loop EXCEPT ![r].todo = Append(old, User(r))]
        /\ \/ UNCHANGED <<opened, cached, snapshot>>
           \/ /\ opened' = opened \cup {r}
              /\ cached' = [cached EXCEPT ![r] = store[SessionOf[r]]]
              /\ snapshot' = [snapshot EXCEPT ![r] = store[SessionOf[r]]]
  <2>1. Append(<<>>, User(r)) = <<User(r)>>
    OBVIOUS
  <2>2. \/ /\ loop' = [loop EXCEPT ![r].todo = Append(store[SessionOf[r]], User(r))]
           /\ opened' = opened \cup {r}
           /\ cached' = [cached EXCEPT ![r] = store[SessionOf[r]]]
           /\ snapshot' = [snapshot EXCEPT ![r] = store[SessionOf[r]]]
        \/ /\ loop' = [loop EXCEPT ![r].todo = <<User(r)>>]
           /\ UNCHANGED <<opened, cached, snapshot>>
    BY DEF OpenSession
  <2>3. QED
    BY <2>1, <2>2
<1>3. PICK s \in Sessions : s = SessionOf[r]
  BY DEF SessionAssumption
<1>4. /\ store[s] \in Seq(Messages) /\ Whole(store[s]) /\ UsedIn(store[s]) \subseteq Known
      /\ User(r) \in Messages
  BY <1>3, UsedStored, MessageTypes DEF LoopInv, TypeOK, HistoryInv, StoreSound
<1>5. old \in Seq(Messages) /\ Whole(old) /\ UsedIn(old) \subseteq Known
  <2>1. <<>> \in Seq(Messages)
    OBVIOUS
  <2>2. CASE old = store[SessionOf[r]]
    BY <1>3, <1>4, <2>2
  <2>3. CASE old = <<>>
    BY <2>1, <2>3, EmptyWhole
  <2>4. QED
    BY <1>2, <2>2, <2>3
<1>6. /\ Append(old, User(r)) \in Seq(Messages)
      /\ Whole(Append(old, User(r))) /\ UsedIn(Append(old, User(r))) \subseteq Known
  <2>1. PICK m \in Messages : m = User(r)
    BY <1>4
  <2>2. CallsOf(m) = {} /\ Uses(m) = {} /\ ~IsResult(m) /\ m.kind # "outbound"
    BY <2>1 DEF User, CallsOf, Uses, IsResult
  <2>3. Whole(Append(old, m))
    BY <1>5, <2>2, WholeAppend
  <2>4. UsedIn(Append(old, m)) = UsedIn(old) \cup Uses(m)
    BY <1>5, AppendUses
  <2>5. QED
    BY <1>5, <2>1, <2>2, <2>3, <2>4, Appended
<1>7. PICK l : l = [NoLoop EXCEPT !.todo = Append(old, User(r))]
  OBVIOUS
<1>8. l.log = <<>> /\ l.todo = Append(old, User(r)) /\ l.batch = <<>> /\ l.accum = <<>>
  BY <1>7 DEF NoLoop
<1>9. loop[r] = NoLoop /\ Unmentioned(r)
  BY <1>1 DEF HistoryInv, Numbered, EarlyPhases
<1>10. pc'[r] = "replay" /\ loop'[r] = l
  BY <1>1, <1>2, <1>7, <1>9 DEF LoopInv, TypeOK
<1>11. Ahead(l) = Append(old, User(r))
  BY <1>6, <1>8, ConcatEmptySeq DEF Ahead
<1>12. Numbered(r, "replay", l)
  BY <1>8 DEF Numbered, ToSet
<1>13. LogSound(r, "replay", l)
  <2>1. ToSet(l.batch) = {}
    BY <1>8 DEF ToSet
  <2>2. \A c \in UsedIn(Ahead(l)) : c[1] # r
    BY <1>6, <1>9, <1>11 DEF Unmentioned
  <2>3. Sound(Ahead(l)) /\ \A c \in CallsIn(Ahead(l)) : ~Open(Ahead(l), c)
    BY <1>6, <1>11 DEF Whole
  <2>4. QED
    BY <2>1, <2>2, <2>3 DEF LogSound
<1>14. \A q \in Runs \ {r} :
           /\ pc'[q] = pc[q] /\ loop'[q] = loop[q] /\ outcome'[q] = outcome[q]
           /\ cached'[q] = cached[q] /\ snapshot'[q] = snapshot[q]
           /\ copy'[q] = copy[q] /\ fan'[q] = fan[q]
           /\ q \in opened' => q \in opened
  <2>1. SUFFICES ASSUME NEW q \in Runs \ {r}
                 PROVE  /\ pc'[q] = pc[q] /\ loop'[q] = loop[q] /\ outcome'[q] = outcome[q]
                        /\ cached'[q] = cached[q] /\ snapshot'[q] = snapshot[q]
                        /\ copy'[q] = copy[q] /\ fan'[q] = fan[q]
                        /\ q \in opened' => q \in opened
    OBVIOUS
  <2>2. pc'[q] = pc[q] /\ loop'[q] = loop[q]
    BY <1>1, <1>2 DEF LoopInv, TypeOK
  <2>3. cached'[q] = cached[q] /\ snapshot'[q] = snapshot[q] /\ (q \in opened' => q \in opened)
    BY <1>2 DEF LoopInv, TypeOK
  <2>4. QED
    BY <1>1, <2>2, <2>3
<1>15. cached'[r] \in {cached[r], store[s]} /\ snapshot'[r] \in {snapshot[r], store[s]}
  BY <1>2, <1>3 DEF LoopInv, TypeOK
<1>16. HookSound(r)'
  <2>1. HookSound(r) /\ Sound(store[s])
    BY <1>4 DEF HistoryInv, Whole
  <2>2. copy'[r] = copy[r]
    BY <1>1
  <2>3. QED
    BY <1>4, <1>10, <1>15, <2>1, <2>2 DEF HookSound
<1>17. \A c \in UsedBy(r)' : c \in Known
  <2>1. UsedBy(r)' = UsedIn(Ahead(l)) \cup UsedIn(cached'[r]) \cup UsedIn(snapshot'[r])
                       \cup UsedIn(copy[r]) \cup UsedIn(fan[r])
    BY <1>1, <1>10 DEF UsedBy
  <2>2. UsedIn(cached'[r]) \subseteq Known /\ UsedIn(snapshot'[r]) \subseteq Known
    BY <1>4, <1>15, UsedParts
  <2>3. QED
    BY <1>6, <1>11, <2>1, <2>2, UsedParts
<1>18. \A t \in Sessions : StoreSound(t)' /\ UsedAt(t)' \subseteq Known
  BY <1>1, StoreStays
<1>19. pc[r] \in EarlyPhases
  BY <1>1 DEF EarlyPhases
<1>20. QED
  BY <1>10, <1>12, <1>13, <1>14, <1>16, <1>17, <1>18, <1>19, HistoryStep

(* MessageLog::append moves a message from what is to be appended to the    *)
(* log: the two together stay as they are.                                  *)
LEMMA AheadStays ==
  ASSUME NEW S, NEW a \in Seq(S), NEW t \in Seq(S), t # <<>>
  PROVE  /\ Append(a, Head(t)) \in Seq(S) /\ Tail(t) \in Seq(S)
         /\ Append(a, Head(t)) \o Tail(t) = a \o t
<1>1. Head(t) \in S /\ Tail(t) \in Seq(S) /\ <<Head(t)>> \in Seq(S)
  BY HeadTailProperties
<1>2. Append(a, Head(t)) = a \o <<Head(t)>>
  BY <1>1, AppendIsConcat
<1>3. (a \o <<Head(t)>>) \o Tail(t) = a \o (<<Head(t)>> \o Tail(t))
  BY <1>1, ConcatAssociative
<1>4. <<Head(t)>> \o Tail(t) = t
  BY HeadTailProperties
<1>5. Append(a, Head(t)) \in Seq(S)
  BY <1>1, Appended
<1>6. QED
  BY <1>1, <1>2, <1>3, <1>4, <1>5

(* Where a run goes with the log it has appended to.                        *)
AppendMove(r, log, todo, next) ==
  \/ /\ todo # <<>>
     /\ loop' = [loop EXCEPT ![r] = [loop[r] EXCEPT !.log = log, !.todo = todo]]
     /\ UNCHANGED <<pc, outcome>>
  \/ /\ todo = <<>> /\ next = "stop"
     /\ Finish(r, "completed")
  \/ /\ todo = <<>> /\ next # "stop"
     /\ pc' = [pc EXCEPT ![r] = next]
     /\ \E turn :
          /\ turn = IF pc[r] = "resolve" /\ next = "turn" THEN loop[r].turn + 1
                    ELSE loop[r].turn
          /\ loop' = [loop EXCEPT ![r] =
                       [loop[r] EXCEPT !.log = log, !.todo = todo, !.turn = turn]]
     /\ UNCHANGED outcome

LEMMA AppendMoves ==
  ASSUME LoopInv, NEW r \in Runs, AppendMessage(r)
  PROVE  \E log, todo, next :
           /\ log = Append(loop[r].log, Head(loop[r].todo)) /\ todo = Tail(loop[r].todo)
           /\ next = AfterAppends(r)
           /\ AppendMove(r, log, todo, next)
<1>1. pc[r] \in AppendPhases
  BY DEF AppendMessage, At, AppendPhases
<1>2. PICK log, next, todo : /\ log = Append(loop[r].log, Head(loop[r].todo))
                             /\ next = AfterAppends(r) /\ todo = Tail(loop[r].todo)
  OBVIOUS
<1>3. Len(loop[r].todo) = 1 <=> todo = <<>>
  BY <1>1, <1>2, AppendedIs
<1>4. PICK l : l = [loop[r] EXCEPT !.log = log, !.todo = todo]
  OBVIOUS
<1>5. [loop[r] EXCEPT !.log = Append(loop[r].log, Head(loop[r].todo)), !.todo = Tail(@)] = l
  BY <1>2, <1>4
<1>6. \/ /\ Len(loop[r].todo) # 1
         /\ loop' = [loop EXCEPT ![r] = l]
         /\ UNCHANGED <<pc, outcome>>
      \/ /\ Len(loop[r].todo) = 1 /\ next = "stop"
         /\ Finish(r, "completed")
      \/ /\ Len(loop[r].todo) = 1 /\ next # "stop"
         /\ Goto(r, next)
         /\ loop' = [loop EXCEPT ![r] =
                       [l EXCEPT !.turn = IF pc[r] = "resolve" /\ next = "turn"
                                          THEN @ + 1 ELSE @]]
         /\ UNCHANGED outcome
  BY <1>2, <1>5 DEF AppendMessage
<1>7. PICK turn : turn = IF pc[r] = "resolve" /\ next = "turn" THEN loop[r].turn + 1
                         ELSE loop[r].turn
  OBVIOUS
<1>8. CASE /\ Len(loop[r].todo) = 1 /\ next # "stop"
           /\ Goto(r, next)
           /\ loop' = [loop EXCEPT ![r] =
                         [l EXCEPT !.turn = IF pc[r] = "resolve" /\ next = "turn"
                                            THEN @ + 1 ELSE @]]
           /\ UNCHANGED outcome
  <2>1. l.turn = loop[r].turn
    BY <1>4, LoopFields DEF LoopInv, Loops
  <2>2. loop' = [loop EXCEPT ![r] = [l EXCEPT !.turn = turn]]
    BY <1>7, <1>8, <2>1
  <2>3. [l EXCEPT !.turn = turn] = [loop[r] EXCEPT !.log = log, !.todo = todo, !.turn = turn]
    BY <1>4
  <2>4. loop' = [loop EXCEPT ![r] = [loop[r] EXCEPT !.log = log, !.todo = todo, !.turn = turn]]
    BY <2>2, <2>3
  <2>5. /\ todo = <<>> /\ next # "stop"
        /\ pc' = [pc EXCEPT ![r] = next]
        /\ UNCHANGED outcome
    BY <1>3, <1>8 DEF Goto
  <2>6. \E t :
          /\ t = IF pc[r] = "resolve" /\ next = "turn" THEN loop[r].turn + 1 ELSE loop[r].turn
          /\ loop' = [loop EXCEPT ![r] = [loop[r] EXCEPT !.log = log, !.todo = todo, !.turn = t]]
    BY <1>7, <2>4
  <2>7. AppendMove(r, log, todo, next)
    BY <2>5, <2>6 DEF AppendMove
  <2>8. QED
    BY <1>2, <2>7
<1>9. CASE /\ Len(loop[r].todo) # 1
           /\ loop' = [loop EXCEPT ![r] = l]
           /\ UNCHANGED <<pc, outcome>>
  <2>1. AppendMove(r, log, todo, next)
    BY <1>3, <1>4, <1>9 DEF AppendMove
  <2>2. QED
    BY <1>2, <2>1
<1>10. CASE /\ Len(loop[r].todo) = 1 /\ next = "stop"
            /\ Finish(r, "completed")
  <2>1. AppendMove(r, log, todo, next)
    BY <1>3, <1>10 DEF AppendMove
  <2>2. QED
    BY <1>2, <2>1
<1>11. QED
  BY <1>6, <1>8, <1>9, <1>10

LEMMA AppendMessageHistory ==
  ASSUME HistoryInv, LoopInv, SessionAssumption, NEW r \in Runs, AppendMessage(r)
  PROVE  HistoryInv'
<1>1. /\ pc[r] \in AppendPhases
      /\ UNCHANGED <<command, opened, fan, copy>>
  BY DEF AppendMessage, At, AppendPhases, fanout
<1>2. PICK log, todo, next :
           /\ log = Append(loop[r].log, Head(loop[r].todo)) /\ todo = Tail(loop[r].todo)
           /\ next = AfterAppends(r)
           /\ AppendMove(r, log, todo, next)
  BY AppendMoves
<1>3. TypeOK /\ LogSound(r, pc[r], loop[r]) /\ Numbered(r, pc[r], loop[r]) /\ HookSound(r)
  BY DEF LoopInv, HistoryInv
<1>4. loop[r].log \in Seq(Messages) /\ loop[r].todo \in Seq(Messages) /\ loop[r].todo # <<>>
  BY <1>1, <1>3, OwnCalls, LoopFields
<1>5. log \in Seq(Messages) /\ todo \in Seq(Messages) /\ log \o todo = Ahead(loop[r])
  BY <1>2, <1>4, AheadStays DEF Ahead
<1>6. Sound(log) /\ UsedIn(log) \subseteq Known
  <2>1. Sound(log \o todo) /\ UsedIn(log \o todo) \subseteq Known
    BY <1>3, <1>5, UsedParts DEF LogSound
  <2>2. QED
    BY <1>5, <2>1, ConcatSound
<1>7. is_error_safe_log(log) => Whole(log)
  BY <1>5, <1>6, InputWhole DEF is_error_safe_log
<1>8. /\ cached' = IF r \in opened THEN [cached EXCEPT ![r] = log] ELSE cached
      /\ \/ UNCHANGED <<snapshot, store>>
         \/ /\ is_error_safe_log(log)
            /\ snapshot' = [snapshot EXCEPT ![r] = log]
            /\ store' = store \/ store' = [store EXCEPT ![SessionOf[r]] = log]
  BY <1>2 DEF AppendMessage, Save
<1>9. /\ r \in opened => cached'[r] = log
      /\ cached'[r] \in {cached[r], log}
      /\ snapshot'[r] = snapshot[r] \/ (is_error_safe_log(log) /\ snapshot'[r] = log)
  BY <1>3, <1>8 DEF TypeOK
<1>10. \A t \in Sessions : StoreSound(t)' /\ UsedAt(t)' \subseteq Known
  <2>1. CASE store' = store
    BY <1>1, <2>1, StoreStays
  <2>2. CASE is_error_safe_log(log) /\ store' = [store EXCEPT ![SessionOf[r]] = log]
    <3>1. SessionOf[r] \in Sessions
      BY DEF SessionAssumption
    <3>2. QED
      BY <1>1, <1>3, <1>6, <1>7, <2>2, <3>1, StoreStep
  <2>3. QED
    BY <1>8, <2>1, <2>2
<1>11. \A q \in Runs \ {r} : cached'[q] = cached[q] /\ snapshot'[q] = snapshot[q]
  BY <1>3, <1>8 DEF TypeOK
<1>12. UsedIn(cached'[r]) \subseteq Known /\ UsedIn(snapshot'[r]) \subseteq Known
  BY <1>6, <1>9, UsedParts
<1>13. Sound(cached'[r]) /\ Whole(snapshot'[r]) /\ Whole(copy'[r])
  BY <1>1, <1>3, <1>6, <1>7, <1>9 DEF HookSound
<1>14. ASSUME NEW p, NEW l,
              pc' = [pc EXCEPT ![r] = p], loop' = [loop EXCEPT ![r] = l],
              \A q \in Runs \ {r} : outcome'[q] = outcome[q],
              p # "fanwrite", p \in EarlyPhases => pc[r] \in EarlyPhases,
              p = "stop" /\ r \in opened => Whole(log),
              Numbered(r, p, l), LogSound(r, p, l), \A c \in UsedIn(Ahead(l)) : c \in Known
       PROVE  HistoryInv'
  <2>1. pc'[r] = p /\ loop'[r] = l
    BY <1>3, <1>14 DEF TypeOK
  <2>2. \A q \in Runs \ {r} :
           /\ pc'[q] = pc[q] /\ loop'[q] = loop[q] /\ outcome'[q] = outcome[q]
           /\ cached'[q] = cached[q] /\ snapshot'[q] = snapshot[q]
           /\ copy'[q] = copy[q] /\ fan'[q] = fan[q]
           /\ q \in opened' => q \in opened
    <3>1. \A q \in Runs \ {r} : pc'[q] = pc[q] /\ loop'[q] = loop[q] /\ outcome'[q] = outcome[q]
      BY <1>3, <1>14 DEF TypeOK
    <3>2. QED
      BY <1>1, <1>11, <3>1
  <2>3. HookSound(r)'
    <3>1. pc'[r] = "stop" /\ r \in opened' => Whole(cached'[r])
      BY <1>1, <1>9, <1>14, <2>1
    <3>2. pc'[r] # "fanwrite"
      BY <1>14, <2>1
    <3>3. QED
      BY <1>13, <3>1, <3>2 DEF HookSound
  <2>4. \A c \in UsedBy(r)' : c \in Known
    <3>1. UsedBy(r)' = UsedIn(Ahead(l)) \cup UsedIn(cached'[r]) \cup UsedIn(snapshot'[r])
                         \cup UsedIn(copy[r]) \cup UsedIn(fan[r])
      BY <1>1, <2>1 DEF UsedBy
    <3>2. QED
      BY <1>12, <1>14, <3>1, UsedParts
  <2>5. Numbered(r, pc'[r], loop'[r]) /\ LogSound(r, pc'[r], loop'[r])
        /\ (pc'[r] \in EarlyPhases => pc[r] \in EarlyPhases)
    BY <1>14, <2>1
  <2>6. QED
    BY <1>10, <2>2, <2>3, <2>4, <2>5, HistoryStep
<1>15. CASE /\ todo # <<>>
            /\ loop' = [loop EXCEPT ![r] = [loop[r] EXCEPT !.log = log, !.todo = todo]]
            /\ UNCHANGED <<pc, outcome>>
  <2>1. PICK l : l = [loop[r] EXCEPT !.log = log, !.todo = todo]
    OBVIOUS
  <2>2. /\ l.log = log /\ l.todo = todo /\ l.batch = loop[r].batch /\ l.accum = loop[r].accum
        /\ l.turn = loop[r].turn /\ l.attempt = loop[r].attempt
    BY <2>1, LoopFields DEF LoopInv, Loops
  <2>3. Ahead(l) = Ahead(loop[r])
    BY <1>5, <2>2 DEF Ahead
  <2>4. LogSound(r, pc[r], l) /\ \A c \in UsedIn(Ahead(l)) : c \in Known
    BY <1>3, <2>2, <2>3, LogStays
  <2>5. pc[r] \notin {"stop", "fanwrite", "idle", "start"}
    BY <1>1 DEF AppendPhases
  <2>6. Numbered(r, pc[r], l)
    BY <1>3, <2>2, <2>5 DEF Numbered
  <2>7. pc' = [pc EXCEPT ![r] = pc[r]] /\ loop' = [loop EXCEPT ![r] = l]
    BY <1>3, <1>15, <2>1 DEF TypeOK
  <2>8. \A q \in Runs \ {r} : outcome'[q] = outcome[q]
    BY <1>15
  <2>9. QED
    BY <1>14, <2>4, <2>5, <2>6, <2>7, <2>8
<1>16. CASE /\ todo = <<>> /\ next = "stop"
            /\ Finish(r, "completed")
  <2>1. pc' = [pc EXCEPT ![r] = "stop"] /\ loop' = [loop EXCEPT ![r] = NoLoop]
        /\ \A q \in Runs \ {r} : outcome'[q] = outcome[q]
    BY <1>3, <1>16 DEF Finish, Goto, TypeOK
  <2>2. Ahead(loop[r]) = log
    BY <1>5, <1>16, ConcatEmptySeq
  <2>3. loop[r].batch = <<>>
    BY <1>1, <1>2, <1>3, <1>16 DEF AfterAppends, AppendPhases
  <2>4. Whole(log)
    <3>1. ToSet(loop[r].batch) = {}
      BY <2>3 DEF ToSet
    <3>2. QED
      BY <1>3, <1>6, <2>2, <3>1 DEF LogSound, Whole
  <2>5. Numbered(r, "stop", NoLoop) /\ LogSound(r, "stop", NoLoop)
        /\ \A c \in UsedIn(Ahead(NoLoop)) : c \in Known
    BY NoLoopSound
  <2>6. "stop" # "fanwrite" /\ "stop" \notin EarlyPhases
    BY DEF EarlyPhases
  <2>7. QED
    BY <1>14, <2>1, <2>4, <2>5, <2>6
<1>17. ASSUME NEW turn, todo = <<>>, next # "stop", pc' = [pc EXCEPT ![r] = next],
              turn = (IF pc[r] = "resolve" /\ next = "turn" THEN loop[r].turn + 1
                      ELSE loop[r].turn),
              loop' = [loop EXCEPT ![r] =
                         [loop[r] EXCEPT !.log = log, !.todo = todo, !.turn = turn]],
              outcome' = outcome
       PROVE  HistoryInv'
  <2>1. PICK l : l = [loop[r] EXCEPT !.log = log, !.todo = todo, !.turn = turn]
    OBVIOUS
  <2>2. /\ l.log = log /\ l.todo = todo /\ l.batch = loop[r].batch /\ l.accum = loop[r].accum
        /\ l.turn = turn /\ l.attempt = loop[r].attempt
    BY <2>1, LoopFields DEF LoopInv, Loops
  <2>3. Ahead(l) = Ahead(loop[r])
    BY <1>5, <2>2 DEF Ahead
  <2>4. /\ next \in {"turn", "tool"}
        /\ next = "turn" => loop[r].batch = <<>> /\ pc[r] \in {"replay", "resolve"}
        /\ next = "tool" => pc[r] \in {"answer", "resolve"}
    BY <1>1, <1>2, <1>3, <1>17 DEF AfterAppends, AppendPhases, Numbered, CallPhases
  <2>5. \/ turn = loop[r].turn /\ (pc[r] \in CallPhases => next \in CallPhases)
        \/ turn = loop[r].turn + 1
    BY <1>1, <1>17, <2>4 DEF CallPhases
  <2>6. LogSound(r, next, l) /\ \A c \in UsedIn(Ahead(l)) : c \in Known
    BY <1>3, <2>2, <2>3, <2>5, LogStays
  <2>7. loop[r].accum = <<>>
    BY <1>1, <1>3 DEF Numbered, AppendPhases
  <2>8. Numbered(r, next, l)
    <3>1. next = "tool" => l.turn = loop[r].turn /\ next \in CallPhases
      BY <1>17, <2>2, <2>4 DEF CallPhases
    <3>2. \A c \in ToSet(l.batch) : c[1] = r /\ c[2] = l.turn
      <4>1. CASE next = "tool"
        BY <1>3, <2>2, <3>1, <4>1 DEF Numbered
      <4>2. CASE next = "turn"
        BY <2>2, <2>4, <4>2 DEF ToSet
      <4>3. QED
        BY <2>4, <4>1, <4>2
    <3>3. QED
      BY <1>3, <2>2, <2>4, <2>7, <3>1, <3>2 DEF Numbered
  <2>9. next # "fanwrite" /\ next \notin EarlyPhases /\ next # "stop"
    BY <2>4 DEF EarlyPhases
  <2>10. loop' = [loop EXCEPT ![r] = l] /\ \A q \in Runs \ {r} : outcome'[q] = outcome[q]
    BY <1>17, <2>1
  <2>11. QED
    BY <1>14, <1>17, <2>6, <2>8, <2>9, <2>10
<1>18. QED
  BY <1>2, <1>15, <1>16, <1>17 DEF AppendMove

------------------------------------------------------------------------------
(* Steps of one run that has left the loop *)

LEMMA UsedGrows ==
  ASSUME NEW a, NEW b, ToSet(a) \subseteq ToSet(b)
  PROVE  UsedIn(a) \subseteq UsedIn(b)
  BY DEF UsedIn

LEMMA FinalMove ==
  ASSUME HistoryInv, TypeOK, NEW r \in Runs, NEW p \in {"fan", "fanwrite", "send", "sent"},
         pc[r] \in FinalPhases, pc' = [pc EXCEPT ![r] = p], UNCHANGED <<loop, outcome>>,
         \A q \in Runs \ {r} :
           /\ cached'[q] = cached[q] /\ snapshot'[q] = snapshot[q]
           /\ copy'[q] = copy[q] /\ fan'[q] = fan[q]
           /\ q \in opened' => q \in opened,
         Sound(cached'[r]), Whole(snapshot'[r]), Whole(copy'[r]),
         p = "fanwrite" => Head(fan'[r]) \notin ToSet(copy'[r]),
         UsedIn(cached'[r]) \subseteq Known, UsedIn(snapshot'[r]) \subseteq Known,
         UsedIn(copy'[r]) \subseteq Known, UsedIn(fan'[r]) \subseteq Known,
         \A s \in Sessions : StoreSound(s)' /\ UsedAt(s)' \subseteq Known
  PROVE  HistoryInv'
<1>1. pc'[r] = p /\ loop'[r] = loop[r]
  BY DEF TypeOK
<1>2. \A q \in Runs \ {r} :
           /\ pc'[q] = pc[q] /\ loop'[q] = loop[q] /\ outcome'[q] = outcome[q]
           /\ cached'[q] = cached[q] /\ snapshot'[q] = snapshot[q]
           /\ copy'[q] = copy[q] /\ fan'[q] = fan[q]
           /\ q \in opened' => q \in opened
  BY DEF TypeOK
<1>3. HookSound(r)'
  BY <1>1 DEF HookSound
<1>4. \A c \in UsedBy(r)' : c \in Known
  <2>1. UsedBy(r)' = UsedIn(Ahead(loop[r])) \cup UsedIn(cached'[r]) \cup UsedIn(snapshot'[r])
                       \cup UsedIn(copy'[r]) \cup UsedIn(fan'[r])
    BY <1>1 DEF UsedBy
  <2>2. QED
    BY <2>1, UsedParts
<1>5. pc[r] \notin CallPhases /\ pc[r] # "llm" /\ p \notin EarlyPhases \cup {"idle", "start"}
  BY DEF FinalPhases, CallPhases, EarlyPhases
<1>6. Numbered(r, p, loop[r])
  BY <1>5 DEF HistoryInv, Numbered
<1>7. LogSound(r, p, loop[r])
  BY <1>5, LogStays
<1>8. Numbered(r, pc'[r], loop'[r]) /\ LogSound(r, pc'[r], loop'[r])
      /\ (pc'[r] \in EarlyPhases => pc[r] \in EarlyPhases)
  BY <1>1, <1>5, <1>6, <1>7
<1>9. QED
  BY <1>2, <1>3, <1>4, <1>8, HistoryStep

(* Whatever the outcome of a run, what it stores at its end is whole.       *)
LEMMA KeptLogWhole ==
  ASSUME HistoryInv, LoopInv, NEW r \in opened, pc[r] = "stop"
  PROVE  Whole(KeptLog(r)) /\ UsedIn(KeptLog(r)) \subseteq Known
<1>1. r \in Runs /\ outcome[r] \in {"completed", "paused", "failed"}
      /\ cached[r] \in Seq(Messages) /\ snapshot[r] \in Seq(Messages)
  BY DEF LoopInv, TypeOK, ControlInv, Control
<1>2. HookSound(r) /\ UsedIn(cached[r]) \subseteq Known /\ UsedIn(snapshot[r]) \subseteq Known
  BY <1>1, UsedParts DEF HistoryInv
<1>3. CASE outcome[r] = "completed"
  BY <1>2, <1>3 DEF KeptLog, HookSound
<1>4. CASE outcome[r] = "failed"
  <2>1. /\ Whole(longest_safe_prefix(snapshot[r], cached[r]))
        /\ UsedIn(longest_safe_prefix(snapshot[r], cached[r]))
             \subseteq UsedIn(snapshot[r]) \cup UsedIn(cached[r])
    BY <1>1, <1>2, LongestSafeWhole DEF HookSound
  <2>2. QED
    BY <1>2, <1>4, <2>1 DEF KeptLog
<1>5. CASE outcome[r] = "paused"
  <2>1. \A m \in Messages : m.kind = "assistant" => m.calls \in Seq(CallIds)
    BY MessageKinds, ResponseTypes
  <2>2. \A c \in CallIds : Interrupted(c) \in Messages
    BY MessageTypes
  <2>3. /\ Whole(repaired_paused_log(cached[r]))
        /\ UsedIn(repaired_paused_log(cached[r])) \subseteq UsedIn(cached[r])
    BY <1>1, <1>2, <2>1, <2>2, RepairedWhole DEF HookSound
  <2>4. QED
    BY <1>2, <1>5, <2>3 DEF KeptLog
<1>6. QED
  BY <1>1, <1>3, <1>4, <1>5

LEMMA OnStopHistory ==
  ASSUME HistoryInv, LoopInv, SessionAssumption, NEW r \in Runs, OnStop(r)
  PROVE  HistoryInv'
<1>1. /\ pc[r] = "stop" /\ UNCHANGED <<loop, outcome, copy, command>>
      /\ opened' = opened \ {r}
      /\ cached' = [cached EXCEPT ![r] = <<>>] /\ snapshot' = [snapshot EXCEPT ![r] = <<>>]
  BY DEF OnStop
<1>2. PICK p \in {"fan", "send"} : pc' = [pc EXCEPT ![r] = p]
  BY DEF OnStop, Goto
<1>3. TypeOK /\ pc[r] \in FinalPhases /\ SessionOf[r] \in Sessions
  BY <1>1 DEF LoopInv, FinalPhases, SessionAssumption
<1>4. \/ store' = store
      \/ r \in opened /\ store' = [store EXCEPT ![SessionOf[r]] = KeptLog(r)]
  BY DEF OnStop, Save
<1>5. \A s \in Sessions : StoreSound(s)' /\ UsedAt(s)' \subseteq Known
  <2>1. CASE store' = store
    BY <1>1, <2>1, StoreStays
  <2>2. CASE r \in opened /\ store' = [store EXCEPT ![SessionOf[r]] = KeptLog(r)]
    <3>1. Whole(KeptLog(r)) /\ UsedIn(KeptLog(r)) \subseteq Known
      BY <1>1, <2>2, KeptLogWhole
    <3>2. QED
      BY <1>1, <1>3, <2>2, <3>1, StoreStep
  <2>3. QED
    BY <1>4, <2>1, <2>2
<1>6. \/ fan' = fan
      \/ \E y \in {cached[r], <<>>} : fan' = [fan EXCEPT ![r] = y]
  BY DEF OnStop
<1>7. UsedIn(fan'[r]) \subseteq Known /\ \A q \in Runs \ {r} : fan'[q] = fan[q]
  <2>1. fan'[r] \in {fan[r], cached[r], <<>>} /\ \A q \in Runs \ {r} : fan'[q] = fan[q]
    BY <1>3, <1>6 DEF TypeOK
  <2>2. QED
    BY <2>1, UsedParts, EmptyWhole
<1>8. /\ cached'[r] = <<>> /\ snapshot'[r] = <<>>
      /\ \A q \in Runs \ {r} : cached'[q] = cached[q] /\ snapshot'[q] = snapshot[q]
                               /\ (q \in opened' => q \in opened)
  BY <1>1, <1>3 DEF TypeOK
<1>9. copy' = copy /\ Whole(copy[r]) /\ UsedIn(copy[r]) \subseteq Known
  BY <1>1, UsedParts DEF HistoryInv, HookSound
<1>10. Sound(<<>>)
  BY EmptyWhole DEF Whole
<1>11. /\ Sound(cached'[r]) /\ Whole(snapshot'[r]) /\ Whole(copy'[r])
       /\ UsedIn(cached'[r]) \subseteq Known /\ UsedIn(snapshot'[r]) \subseteq Known
       /\ UsedIn(copy'[r]) \subseteq Known
  BY <1>8, <1>9, <1>10, EmptyWhole
<1>12. \A q \in Runs \ {r} :
           /\ cached'[q] = cached[q] /\ snapshot'[q] = snapshot[q]
           /\ copy'[q] = copy[q] /\ fan'[q] = fan[q]
           /\ q \in opened' => q \in opened
  BY <1>7, <1>8, <1>9
<1>13. p \in {"fan", "fanwrite", "send", "sent"} /\ p # "fanwrite"
       /\ UNCHANGED <<loop, outcome>>
  BY <1>1
<1>14. QED
  BY <1>2, <1>3, <1>5, <1>7, <1>11, <1>12, <1>13, FinalMove

LEMMA SendTerminalHistory ==
  ASSUME HistoryInv, LoopInv, NEW r \in Runs, SendTerminal(r)
  PROVE  HistoryInv'
<1>1. /\ pc[r] \in {"fan", "send"} /\ pc' = [pc EXCEPT ![r] = "sent"]
      /\ fan' = [fan EXCEPT ![r] = <<>>]
      /\ UNCHANGED <<store, loop, opened, cached, snapshot, outcome, copy, command>>
  BY DEF SendTerminal, Goto, stores, hooks
<1>2. TypeOK /\ pc[r] \in FinalPhases /\ HookSound(r)
  BY <1>1 DEF LoopInv, FinalPhases, HistoryInv
<1>3. fan'[r] = <<>> /\ \A q \in Runs \ {r} : fan'[q] = fan[q]
  BY <1>1, <1>2 DEF TypeOK
<1>4. \A s \in Sessions : StoreSound(s)' /\ UsedAt(s)' \subseteq Known
  BY <1>1, StoreStays
<1>5. /\ Sound(cached'[r]) /\ Whole(snapshot'[r]) /\ Whole(copy'[r])
      /\ UsedIn(cached'[r]) \subseteq Known /\ UsedIn(snapshot'[r]) \subseteq Known
      /\ UsedIn(copy'[r]) \subseteq Known /\ UsedIn(fan'[r]) \subseteq Known
  BY <1>1, <1>2, <1>3, UsedParts, EmptyWhole DEF HookSound
<1>6. \A q \in Runs \ {r} :
           /\ cached'[q] = cached[q] /\ snapshot'[q] = snapshot[q]
           /\ copy'[q] = copy[q] /\ fan'[q] = fan[q]
           /\ q \in opened' => q \in opened
  BY <1>1, <1>3
<1>7. UNCHANGED <<loop, outcome>> /\ "sent" # "fanwrite"
  BY <1>1
<1>8. QED
  BY <1>1, <1>2, <1>4, <1>5, <1>6, <1>7, FinalMove

LEMMA OneMessage ==
  ASSUME NEW S, NEW m \in S
  PROVE  /\ <<m>> \in Seq(S) /\ ToSet(<<m>>) = {m} /\ Len(<<m>>) = 1 /\ <<m>>[1] = m
         /\ <<>> \in Seq(S) /\ Append(<<>>, m) = <<m>>
<1>1. <<>> \in Seq(S) /\ Append(<<>>, m) = <<m>> /\ <<m>> \in Seq(S)
  OBVIOUS
<1>2. Len(<<m>>) = 1 /\ <<m>>[1] = m
  OBVIOUS
<1>3. ToSet(<<m>>) = {m}
  BY DEF ToSet
<1>4. QED
  BY <1>1, <1>2, <1>3

LEMMA TwoMessages ==
  ASSUME NEW S, NEW m \in S, NEW n \in S
  PROVE  <<m, n>> \in Seq(S) /\ <<m, n>> = Append(<<m>>, n)
<1>1. <<m, n>> \in Seq(S) /\ Len(<<m, n>>) = 2 /\ <<m, n>>[1] = m /\ <<m, n>>[2] = n
  OBVIOUS
<1>2. PICK one : one = <<m>>
  OBVIOUS
<1>3. one \in Seq(S) /\ Len(one) = 1 /\ one[1] = m
  BY <1>2, OneMessage
<1>4. PICK two : two = Append(one, n)
  OBVIOUS
<1>5. two \in Seq(S) /\ Len(two) = 2 /\ two[2] = n /\ two[1] = m
  BY <1>3, <1>4, Appended
<1>6. PICK pair : pair = <<m, n>>
  OBVIOUS
<1>7. pair \in Seq(S) /\ Len(pair) = 2 /\ pair[1] = m /\ pair[2] = n
  BY <1>1, <1>6
<1>8. \A i \in 1..Len(pair) : pair[i] = two[i]
  BY <1>5, <1>7
<1>9. pair = two
  BY <1>5, <1>7, <1>8, SeqEqual
<1>10. QED
  BY <1>2, <1>4, <1>6, <1>7, <1>9

LEMMA ReadTargetHistory ==
  ASSUME HistoryInv, LoopInv, NEW r \in Runs, ReadTarget(r)
  PROVE  HistoryInv'
<1>1. /\ pc[r] = "fan"
      /\ UNCHANGED <<store, loop, opened, cached, snapshot, outcome, command>>
  BY DEF ReadTarget, stores, hooks, signals
<1>2. PICK n, out, rest :
        /\ n \in DOMAIN fan[r]
        /\ out = fan[r][n] /\ rest = SubSeq(fan[r], n + 1, Len(fan[r]))
        /\ NextForeign(r, n)
        /\ \/ /\ fan' = [fan EXCEPT ![r] = rest]
              /\ UNCHANGED <<pc, copy>>
           \/ /\ out \notin ToSet(store[out.to])
              /\ copy' = [copy EXCEPT ![r] = store[out.to]]
              /\ fan' = [fan EXCEPT ![r] = <<out>> \o rest]
              /\ pc' = [pc EXCEPT ![r] = "fanwrite"]
  BY DEF ReadTarget, Goto
<1>3. TypeOK /\ pc[r] \in FinalPhases /\ HookSound(r)
  BY <1>1 DEF LoopInv, FinalPhases, HistoryInv
<1>4. /\ fan[r] \in Seq(Messages) /\ Len(fan[r]) \in Nat /\ n \in 1..Len(fan[r])
      /\ out \in Messages /\ out \in ToSet(fan[r])
  <2>1. fan[r] \in Seq(Messages)
    BY <1>3 DEF TypeOK
  <2>2. QED
    BY <1>2, <2>1, InSeq, InDomain
<1>5. out.to \in Sessions
  BY <1>2, <1>4, MessageKinds DEF NextForeign, IsForeign
<1>6. rest \in Seq(Messages) /\ ToSet(rest) \subseteq ToSet(fan[r])
  <2>1. n + 1 \in Nat /\ n + 1 >= 1 /\ Len(fan[r]) <= Len(fan[r])
    BY <1>4
  <2>2. QED
    BY <1>2, <1>4, <2>1, ToSetSubSeq
<1>7. PICK long : long = <<out>> \o rest
  OBVIOUS
<1>8. ToSet(long) \subseteq ToSet(fan[r]) /\ Head(long) = out
  <2>1. PICK one : one = <<out>>
    OBVIOUS
  <2>2. one \in Seq(Messages) /\ ToSet(one) = {out} /\ Len(one) = 1 /\ one[1] = out
    BY <1>4, <2>1, OneMessage
  <2>3. long = one \o rest /\ long \in Seq(Messages) /\ ToSet(long) = ToSet(one) \cup ToSet(rest)
    <3>1. long = one \o rest
      BY <1>7, <2>1
    <3>2. one \o rest \in Seq(Messages) /\ ToSet(one \o rest) = ToSet(one) \cup ToSet(rest)
      BY <1>6, <2>2, ToSetConcat
    <3>3. QED
      BY <3>1, <3>2
  <2>4. /\ Len(long) = Len(one) + Len(rest)
        /\ \A i \in 1 .. Len(one) + Len(rest) :
             long[i] = IF i <= Len(one) THEN one[i] ELSE rest[i - Len(one)]
    BY <1>6, <2>2, <2>3, ConcatProperties
  <2>5. Len(rest) \in Nat
    BY <1>6, InSeq
  <2>6. Len(long) > 0 /\ long[1] = out
    BY <2>2, <2>4, <2>5
  <2>7. Head(long) = out
    BY <2>3, <2>6, EmptySeq
  <2>8. QED
    BY <1>4, <1>6, <2>2, <2>3, <2>7
<1>9. /\ UsedIn(rest) \subseteq Known /\ UsedIn(long) \subseteq Known
      /\ Whole(store[out.to]) /\ UsedIn(store[out.to]) \subseteq Known
  BY <1>5, <1>6, <1>8, UsedGrows, UsedParts, UsedStored DEF HistoryInv, StoreSound
<1>10. /\ Sound(cached'[r]) /\ Whole(snapshot'[r])
       /\ UsedIn(cached'[r]) \subseteq Known /\ UsedIn(snapshot'[r]) \subseteq Known
       /\ Whole(copy[r]) /\ UsedIn(copy[r]) \subseteq Known
  BY <1>1, <1>3, UsedParts DEF HookSound
<1>11. \A s \in Sessions : StoreSound(s)' /\ UsedAt(s)' \subseteq Known
  BY <1>1, StoreStays
<1>12. ASSUME NEW p \in {"fan", "fanwrite"}, NEW y, NEW z,
              pc' = [pc EXCEPT ![r] = p], fan' = [fan EXCEPT ![r] = y],
              copy' = [copy EXCEPT ![r] = z],
              UsedIn(y) \subseteq Known, UsedIn(z) \subseteq Known, Whole(z),
              p = "fanwrite" => Head(y) \notin ToSet(z)
       PROVE  HistoryInv'
  <2>1. fan'[r] = y /\ copy'[r] = z
    BY <1>3, <1>12 DEF TypeOK
  <2>2. \A q \in Runs \ {r} : fan'[q] = fan[q] /\ copy'[q] = copy[q]
    BY <1>3, <1>12 DEF TypeOK
  <2>3. \A q \in Runs \ {r} :
           /\ cached'[q] = cached[q] /\ snapshot'[q] = snapshot[q]
           /\ copy'[q] = copy[q] /\ fan'[q] = fan[q]
           /\ q \in opened' => q \in opened
    BY <1>1, <2>2
  <2>4. p \in {"fan", "fanwrite", "send", "sent"} /\ UNCHANGED <<loop, outcome>>
    BY <1>1, <1>12
  <2>5. /\ Whole(copy'[r]) /\ UsedIn(copy'[r]) \subseteq Known /\ UsedIn(fan'[r]) \subseteq Known
        /\ p = "fanwrite" => Head(fan'[r]) \notin ToSet(copy'[r])
    BY <1>12, <2>1
  <2>6. QED
    BY <1>3, <1>10, <1>11, <1>12, <2>3, <2>4, <2>5, FinalMove
<1>13. CASE fan' = [fan EXCEPT ![r] = rest] /\ UNCHANGED <<pc, copy>>
  <2>1. pc' = [pc EXCEPT ![r] = "fan"] /\ copy' = [copy EXCEPT ![r] = copy[r]]
    BY <1>1, <1>3, <1>13 DEF TypeOK
  <2>2. QED
    BY <1>9, <1>10, <1>12, <1>13, <2>1
<1>14. CASE /\ out \notin ToSet(store[out.to])
            /\ copy' = [copy EXCEPT ![r] = store[out.to]]
            /\ fan' = [fan EXCEPT ![r] = <<out>> \o rest]
            /\ pc' = [pc EXCEPT ![r] = "fanwrite"]
  <2>1. Head(long) \notin ToSet(store[out.to]) /\ fan' = [fan EXCEPT ![r] = long]
    BY <1>7, <1>8, <1>14
  <2>2. QED
    BY <1>9, <1>12, <1>14, <2>1
<1>15. QED
  BY <1>2, <1>13, <1>14

LEMMA WriteTargetHistory ==
  ASSUME HistoryInv, LoopInv, SessionAssumption, NEW r \in Runs, WriteTarget(r)
  PROVE  HistoryInv'
<1>1. /\ pc[r] = "fanwrite" /\ pc' = [pc EXCEPT ![r] = "fan"]
      /\ fan' = [fan EXCEPT ![r] = Tail(fan[r])]
      /\ copy' = [copy EXCEPT ![r] = <<>>]
      /\ UNCHANGED <<loop, opened, cached, snapshot, outcome, command>>
  BY DEF WriteTarget, Goto, hooks, signals
<1>2. TypeOK /\ pc[r] \in FinalPhases /\ HookSound(r) /\ UsedIn(fan[r]) \subseteq Known
  BY <1>1, UsedParts DEF LoopInv, FinalPhases, HistoryInv
<1>3. /\ fan[r] \in Seq(Messages) /\ fan[r] # <<>> /\ Head(fan[r]).kind = "outbound"
      /\ copy[r] \in Seq(Messages)
  BY <1>1, ValueTypes, SessionAssumption DEF LoopInv, ControlInv, Control
<1>4. Head(fan[r]) \in Messages /\ Tail(fan[r]) \in Seq(Messages)
  BY <1>3, HeadTailProperties
<1>5. PICK out, note, msgs : /\ out = Head(fan[r]) /\ note = NotifyRecord(out)
                             /\ msgs = copy[r] \o <<out, note>>
  OBVIOUS
<1>6. /\ out \in Messages /\ out.kind = "outbound" /\ out.to \in Sessions /\ note \in Messages
      /\ Overwrite(out.to, copy[r], msgs)
  BY <1>3, <1>4, <1>5, MessageKinds DEF WriteTarget
<1>7. Head(fan[r]) \in ToSet(fan[r]) /\ ToSet(Tail(fan[r])) \subseteq ToSet(fan[r])
  <2>1. PICK one, rest : one = Append(<<>>, Head(fan[r])) /\ rest = Tail(fan[r])
    OBVIOUS
  <2>2. one \in Seq(Messages) /\ ToSet(one) = {Head(fan[r])} /\ rest \in Seq(Messages)
    BY <1>4, <2>1, OneMessage
  <2>3. one \o rest = fan[r]
    <3>1. <<>> \in Seq(Messages)
      OBVIOUS
    <3>2. one \o rest = <<>> \o fan[r]
      BY <1>3, <2>1, <3>1, AheadStays
    <3>3. QED
      BY <1>3, <3>2, ConcatEmptySeq
  <2>4. ToSet(one \o rest) = ToSet(one) \cup ToSet(rest)
    BY <2>2, ToSetConcat
  <2>5. QED
    BY <2>1, <2>2, <2>3, <2>4
<1>8. UsedIn(Tail(fan[r])) \subseteq Known /\ Uses(out) \subseteq Known
  <2>1. UsedIn(Tail(fan[r])) \subseteq UsedIn(fan[r])
    BY <1>7, UsedGrows
  <2>2. Uses(out) \subseteq UsedIn(fan[r])
    BY <1>5, <1>7 DEF UsedIn
  <2>3. QED
    BY <1>2, <2>1, <2>2
<1>9. msgs = Append(Append(copy[r], out), note)
  <2>1. <<out>> \in Seq(Messages) /\ <<note>> \in Seq(Messages) /\ <<out, note>> = <<out>> \o <<note>>
    <3>1. <<out>> \in Seq(Messages) /\ <<note>> \in Seq(Messages)
      BY <1>6, OneMessage
    <3>2. Append(<<out>>, note) = <<out>> \o <<note>>
      BY <1>6, <3>1, AppendIsConcat
    <3>3. Append(<<out>>, note) = <<out, note>>
      BY <1>6, TwoMessages
    <3>4. QED
      BY <3>1, <3>2, <3>3
  <2>2. Append(copy[r], out) \in Seq(Messages) /\ Append(copy[r], out) = copy[r] \o <<out>>
    BY <1>3, <1>6, AppendIsConcat, Appended
  <2>3. Append(Append(copy[r], out), note) = (copy[r] \o <<out>>) \o <<note>>
    BY <1>6, <2>2, AppendIsConcat
  <2>4. (copy[r] \o <<out>>) \o <<note>> = copy[r] \o (<<out>> \o <<note>>)
    BY <1>3, <2>1, ConcatAssociative
  <2>5. QED
    BY <1>5, <2>1, <2>3, <2>4
<1>10. Whole(copy[r]) /\ UsedIn(copy[r]) \subseteq Known /\ out \notin ToSet(copy[r])
  BY <1>1, <1>2, <1>5, UsedParts DEF HookSound
<1>11. Whole(msgs) /\ UsedIn(msgs) \subseteq Known
  <2>1. PICK a : a = Append(copy[r], out)
    OBVIOUS
  <2>2. CallsOf(out) = {} /\ ~IsResult(out)
    BY <1>6 DEF CallsOf, IsResult
  <2>3. a \in Seq(Messages) /\ Whole(a) /\ UsedIn(a) = UsedIn(copy[r]) \cup Uses(out)
    BY <1>3, <1>6, <1>10, <2>1, <2>2, WholeAppend, AppendUses, Appended
  <2>4. note.kind = "notify"
    BY <1>5 DEF NotifyRecord
  <2>5. CallsOf(note) = {} /\ ~IsResult(note) /\ note.kind # "outbound" /\ Uses(note) = {}
    BY <2>4 DEF CallsOf, IsResult, Uses
  <2>6. Whole(msgs) /\ UsedIn(msgs) = UsedIn(a) \cup Uses(note)
    <3>1. Whole(Append(a, note))
      BY <1>6, <2>3, <2>5, WholeAppend
    <3>2. UsedIn(Append(a, note)) = UsedIn(a) \cup Uses(note)
      BY <1>6, <2>3, AppendUses
    <3>3. QED
      BY <1>9, <2>1, <3>1, <3>2
  <2>7. QED
    BY <1>8, <1>10, <2>3, <2>5, <2>6
<1>12. \A s \in Sessions : StoreSound(s)' /\ UsedAt(s)' \subseteq Known
  <2>1. store' = store \/ store' = [store EXCEPT ![out.to] = msgs]
    BY <1>6 DEF Overwrite, Overwritten
  <2>2. QED
    BY <1>1, <1>2, <1>6, <1>11, <2>1, StoreStep
<1>13. /\ fan'[r] = Tail(fan[r]) /\ copy'[r] = <<>>
       /\ \A q \in Runs \ {r} : fan'[q] = fan[q] /\ copy'[q] = copy[q]
  BY <1>1, <1>2 DEF TypeOK
<1>14. \A q \in Runs \ {r} :
           /\ cached'[q] = cached[q] /\ snapshot'[q] = snapshot[q]
           /\ copy'[q] = copy[q] /\ fan'[q] = fan[q]
           /\ q \in opened' => q \in opened
  BY <1>1, <1>13
<1>15. /\ Sound(cached'[r]) /\ Whole(snapshot'[r]) /\ Whole(copy'[r])
       /\ UsedIn(cached'[r]) \subseteq Known /\ UsedIn(snapshot'[r]) \subseteq Known
       /\ UsedIn(copy'[r]) \subseteq Known /\ UsedIn(fan'[r]) \subseteq Known
  BY <1>1, <1>2, <1>8, <1>13, UsedParts, EmptyWhole DEF HookSound
<1>16. UNCHANGED <<loop, outcome>> /\ "fan" # "fanwrite"
  BY <1>1
<1>17. QED
  BY <1>1, <1>2, <1>12, <1>14, <1>15, <1>16, FinalMove

------------------------------------------------------------------------------
(* Steps of the other tasks *)

(* Runs that stay as they are or end, with no entry in the hooks or one     *)
(* they had.                                                                *)
LEMMA OtherStep ==
  ASSUME HistoryInv,
         \A r \in Runs :
           \/ /\ pc'[r] = pc[r] /\ loop'[r] = loop[r] /\ outcome'[r] = outcome[r]
              /\ copy'[r] = copy[r] /\ fan'[r] = fan[r]
           \/ /\ pc'[r] = "killed" /\ loop'[r] = NoLoop
              /\ copy'[r] = <<>> /\ fan'[r] = <<>>,
         \A r \in Runs : \/ cached'[r] = cached[r] /\ snapshot'[r] = snapshot[r]
                         \/ cached'[r] = <<>> /\ snapshot'[r] = <<>>,
         opened' \subseteq opened,
         \A s \in Sessions : StoreSound(s)' /\ UsedAt(s)' \subseteq Known
  PROVE  HistoryInv'
<1>1. ASSUME NEW r \in Runs
      PROVE  /\ Numbered(r, pc'[r], loop'[r]) /\ LogSound(r, pc'[r], loop'[r])
             /\ UsedIn(Ahead(loop'[r])) \subseteq Known
  <2>1. CASE pc'[r] = pc[r] /\ loop'[r] = loop[r]
    BY <2>1, UsedParts DEF HistoryInv
  <2>2. CASE loop'[r] = NoLoop
    BY <2>2, NoLoopSound
  <2>3. QED
    BY <2>1, <2>2
<1>2. Sound(<<>>)
  BY EmptyWhole DEF Whole
<1>3. ASSUME NEW r \in Runs
      PROVE  /\ Whole(snapshot'[r]) /\ Sound(cached'[r])
             /\ UsedIn(cached'[r]) \subseteq Known /\ UsedIn(snapshot'[r]) \subseteq Known
             /\ cached'[r] = cached[r] \/ Whole(cached'[r])
  <2>1. HookSound(r)
    BY DEF HistoryInv
  <2>2. CASE cached'[r] = cached[r] /\ snapshot'[r] = snapshot[r]
    BY <2>1, <2>2, UsedParts DEF HookSound
  <2>3. CASE cached'[r] = <<>> /\ snapshot'[r] = <<>>
    BY <1>2, <2>3, EmptyWhole
  <2>4. QED
    BY <2>2, <2>3
<1>4. ASSUME NEW r \in Runs
      PROVE  HookSound(r)' /\ UsedIn(copy'[r]) \subseteq Known /\ UsedIn(fan'[r]) \subseteq Known
  <2>1. HookSound(r)
    BY DEF HistoryInv
  <2>2. CASE /\ pc'[r] = pc[r] /\ loop'[r] = loop[r] /\ outcome'[r] = outcome[r]
             /\ copy'[r] = copy[r] /\ fan'[r] = fan[r]
    <3>1. pc'[r] = "stop" /\ outcome'[r] = "completed" /\ r \in opened' => Whole(cached'[r])
      BY <1>3, <2>1, <2>2 DEF HookSound
    <3>2. QED
      BY <1>3, <2>1, <2>2, <3>1, UsedParts DEF HookSound
  <2>3. CASE pc'[r] = "killed" /\ copy'[r] = <<>> /\ fan'[r] = <<>>
    BY <1>3, <2>3, EmptyWhole DEF HookSound
  <2>4. QED
    BY <2>2, <2>3
<1>5. ASSUME NEW c \in Known'
      PROVE  c \in Known
  <2>1. ASSUME NEW r \in Runs, c \in UsedBy(r)'
        PROVE  c \in Known
    BY <1>1, <1>3, <1>4, <2>1 DEF UsedBy
  <2>2. \/ \E r \in Runs : c \in UsedBy(r)'
        \/ \E s \in Sessions : c \in UsedAt(s)'
    BY <1>5 DEF Known
  <2>3. QED
    BY <2>1, <2>2
<1>6. ASSUME NEW r \in Runs, pc'[r] \in EarlyPhases
      PROVE  Unmentioned(r)'
  <2>1. pc[r] \in EarlyPhases
    BY <1>6 DEF EarlyPhases
  <2>2. QED
    BY <1>5, <2>1 DEF HistoryInv, Unmentioned
<1>7. QED
  BY <1>1, <1>4, <1>6 DEF HistoryInv

(* Only the store and the commands change. *)
LEMMA StoreOnly ==
  ASSUME HistoryInv, UNCHANGED <<pc, loop, outcome, opened, cached, snapshot, copy, fan>>,
         \A s \in Sessions : StoreSound(s)' /\ UsedAt(s)' \subseteq Known
  PROVE  HistoryInv'
  BY OtherStep

LEMMA SignalHistory ==
  ASSUME HistoryInv,
         \/ \E r \in Runs : \/ CancelRun(r) \/ DropStream(r) \/ Inject(r) \/ ForwardShutdown(r)
         \/ BeginPause \/ BeginShutdown \/ UNCHANGED vars
  PROVE  HistoryInv'
<1>1. UNCHANGED <<pc, loop, outcome, opened, cached, snapshot, copy, fan, store, command>>
  BY DEF CancelRun, DropStream, Inject, ForwardShutdown, BeginPause, BeginShutdown, vars, stores,
     hooks, fanout
<1>2. QED
  BY <1>1, StoreStays, StoreOnly

LEMMA KillHistory ==
  ASSUME HistoryInv, NEW rs, Kill(rs), UNCHANGED <<stores, hooks, command>>
  PROVE  HistoryInv'
<1>1. \A r \in Runs :
           \/ /\ pc'[r] = pc[r] /\ loop'[r] = loop[r] /\ outcome'[r] = outcome[r]
              /\ copy'[r] = copy[r] /\ fan'[r] = fan[r]
           \/ /\ pc'[r] = "killed" /\ loop'[r] = NoLoop
              /\ copy'[r] = <<>> /\ fan'[r] = <<>>
  BY DEF Kill
<1>2. UNCHANGED <<store, command, opened, cached, snapshot>>
  BY DEF stores, hooks
<1>3. QED
  BY <1>1, <1>2, StoreStays, OtherStep

LEMMA RebootHistory ==
  ASSUME HistoryInv, Reboot
  PROVE  HistoryInv'
<1>1. /\ Kill(LiveRuns) /\ opened' = {} /\ store' = store
      /\ cached' = [r \in Runs |-> <<>>] /\ snapshot' = [r \in Runs |-> <<>>]
      /\ command' = [s \in Sessions |-> NoCommand]
  BY DEF Reboot, stores
<1>2. \A r \in Runs :
           \/ /\ pc'[r] = pc[r] /\ loop'[r] = loop[r] /\ outcome'[r] = outcome[r]
              /\ copy'[r] = copy[r] /\ fan'[r] = fan[r]
           \/ /\ pc'[r] = "killed" /\ loop'[r] = NoLoop
              /\ copy'[r] = <<>> /\ fan'[r] = <<>>
  BY <1>1 DEF Kill
<1>3. ASSUME NEW s \in Sessions
      PROVE  StoreSound(s)' /\ UsedAt(s)' \subseteq Known
  <2>1. store'[s] = store[s] /\ command'[s].read = <<>>
    BY <1>1 DEF NoCommand
  <2>2. QED
    BY <2>1, UsedStored, EmptyWhole DEF HistoryInv, StoreSound, UsedAt
<1>4. \A r \in Runs : cached'[r] = <<>> /\ snapshot'[r] = <<>>
  BY <1>1
<1>5. QED
  BY <1>1, <1>2, <1>3, <1>4, OtherStep

(* A command reads the store of its session, or lets go of what it read,    *)
(* and may write a whole log of known calls.                                *)
LEMMA CommandMoves ==
  ASSUME HistoryInv, TypeOK, NEW s \in Sessions, NEW m,
         UNCHANGED <<pc, loop, outcome, opened, cached, snapshot, copy, fan>>,
         store' = store \/ (store' = [store EXCEPT ![s] = m] /\ Whole(m) /\ UsedIn(m) \subseteq Known),
         \A t \in Sessions : command'[t].read \in {command[t].read, store[t], <<>>}
  PROVE  HistoryInv'
<1>1. ASSUME NEW t \in Sessions
      PROVE  StoreSound(t)' /\ UsedAt(t)' \subseteq Known
  <2>1. /\ StoreSound(t) /\ UsedIn(store[t]) \subseteq Known
        /\ UsedIn(command[t].read) \subseteq Known
    BY UsedStored DEF HistoryInv
  <2>2. Whole(store'[t]) /\ UsedIn(store'[t]) \subseteq Known
    <3>1. store'[t] = store[t] \/ (store'[t] = m /\ Whole(m) /\ UsedIn(m) \subseteq Known)
      BY DEF TypeOK
    <3>2. QED
      BY <2>1, <3>1 DEF StoreSound
  <2>3. Whole(command'[t].read) /\ UsedIn(command'[t].read) \subseteq Known
    BY <2>1, EmptyWhole DEF StoreSound
  <2>4. QED
    BY <2>2, <2>3 DEF StoreSound, UsedAt
<1>2. QED
  BY <1>1, StoreOnly

LEMMA CommandReads ==
  ASSUME HistoryInv, TypeOK, NEW s \in Sessions,
         DispatchCommand(s) \/ CompactRead(s) \/ RecordRead(s)
  PROVE  HistoryInv'
<1>1. UNCHANGED <<pc, loop, outcome, opened, cached, snapshot, copy, fan, store>>
  BY DEF DispatchCommand, CompactRead, RecordRead, stores, hooks, fanout
<1>2. \A t \in Sessions : command'[t].read \in {command[t].read, store[t], <<>>}
  <2>1. \/ command' = [command EXCEPT ![s] = [at |-> "record", nth |-> budget.commands, read |-> <<>>]]
        \/ command' = [command EXCEPT ![s] = [at |-> "compact", nth |-> budget.commands, read |-> store[s]]]
        \/ command' = [command EXCEPT ![s].at = "save", ![s].read = store[s]]
        \/ command' = [command EXCEPT ![s] = NoCommand]
    BY DEF DispatchCommand, CompactRead, RecordRead
  <2>2. ASSUME NEW t \in Sessions \ {s}
        PROVE  command'[t].read = command[t].read
    BY <2>1 DEF TypeOK
  <2>3. command'[s].read \in {command[s].read, store[s], <<>>}
    BY <2>1 DEF TypeOK, NoCommand
  <2>4. QED
    BY <2>2, <2>3
<1>3. QED
  BY <1>1, <1>2, CommandMoves

LEMMA CompactWriteHistory ==
  ASSUME HistoryInv, TypeOK, SessionAssumption, NEW s \in Sessions, CompactWrite(s)
  PROVE  HistoryInv'
<1>1. UNCHANGED <<pc, loop, outcome, opened, cached, snapshot, copy, fan>>
  BY DEF CompactWrite, hooks, fanout
<1>2. PICK read : read = command[s].read
  OBVIOUS
<1>3. read \in Seq(Messages) /\ Whole(read) /\ UsedIn(read) \subseteq Known
  BY <1>2, UsedStored DEF TypeOK, HistoryInv, StoreSound
<1>4. PICK m : m = CompactedLog(read, KeepRecent)
  OBVIOUS
<1>5. Whole(m) /\ UsedIn(m) \subseteq Known
  <2>1. KeepRecent \in Nat /\ Summary \in Messages
    BY MessageTypes DEF SessionAssumption
  <2>2. Whole(m)
    BY <1>3, <1>4, <2>1, CompactedWhole
  <2>3. UsedIn(m) \subseteq UsedIn(read)
    BY <1>3, <1>4, <2>1, CompactedSound DEF Whole
  <2>4. QED
    BY <1>3, <2>2, <2>3
<1>6. store' = store \/ store' = [store EXCEPT ![s] = m]
  BY <1>2, <1>4 DEF CompactWrite, Overwrite, Overwritten
<1>7. \A t \in Sessions : command'[t].read \in {command[t].read, store[t], <<>>}
  <2>1. \/ command' = [command EXCEPT ![s] = NoCommand]
        \/ command' = [command EXCEPT ![s].at = "record", ![s].read = <<>>]
    BY DEF CompactWrite
  <2>2. ASSUME NEW t \in Sessions \ {s}
        PROVE  command'[t].read = command[t].read
    BY <2>1 DEF TypeOK
  <2>3. command'[s].read = <<>>
    BY <2>1 DEF TypeOK, NoCommand
  <2>4. QED
    BY <2>2, <2>3
<1>8. QED
  BY <1>1, <1>5, <1>6, <1>7, CommandMoves

LEMMA RecordWriteHistory ==
  ASSUME HistoryInv, TypeOK, NEW s \in Sessions, RecordWrite(s)
  PROVE  HistoryInv'
<1>1. /\ UNCHANGED <<pc, loop, outcome, opened, cached, snapshot, copy, fan>>
      /\ command' = [command EXCEPT ![s] = NoCommand]
  BY DEF RecordWrite, hooks, fanout
<1>2. PICK read, in, reply, m :
        /\ read = command[s].read /\ in = CommandInput(command[s].nth) /\ reply = Assistant(<<>>)
        /\ m = read \o <<in, reply>>
  OBVIOUS
<1>3. read \in Seq(Messages) /\ Whole(read) /\ UsedIn(read) \subseteq Known
  BY <1>2, UsedStored DEF TypeOK, HistoryInv, StoreSound
<1>4. in \in Messages /\ reply \in Messages
  BY <1>2, MessageTypes, ResponseTypes DEF TypeOK
<1>5. m = Append(Append(read, in), reply)
  <2>1. /\ <<in>> \in Seq(Messages) /\ <<reply>> \in Seq(Messages)
        /\ <<in, reply>> = Append(<<in>>, reply)
    BY <1>4, OneMessage, TwoMessages
  <2>2. Append(<<in>>, reply) = <<in>> \o <<reply>>
    BY <1>4, <2>1, AppendIsConcat
  <2>3. Append(read, in) \in Seq(Messages) /\ Append(read, in) = read \o <<in>>
    BY <1>3, <1>4, AppendIsConcat, Appended
  <2>4. Append(Append(read, in), reply) = (read \o <<in>>) \o <<reply>>
    BY <1>4, <2>3, AppendIsConcat
  <2>5. (read \o <<in>>) \o <<reply>> = read \o (<<in>> \o <<reply>>)
    BY <1>3, <2>1, ConcatAssociative
  <2>6. QED
    BY <1>2, <2>1, <2>2, <2>4, <2>5
<1>6. Whole(m) /\ UsedIn(m) \subseteq Known
  <2>1. PICK a : a = Append(read, in)
    OBVIOUS
  <2>2. in.kind = "command"
    BY <1>2 DEF CommandInput
  <2>3. CallsOf(in) = {} /\ ~IsResult(in) /\ in.kind # "outbound" /\ Uses(in) = {}
    BY <2>2 DEF CallsOf, IsResult, Uses
  <2>4. a \in Seq(Messages) /\ Whole(a) /\ UsedIn(a) = UsedIn(read) \cup Uses(in)
    <3>1. a \in Seq(Messages)
      BY <1>3, <1>4, <2>1, Appended
    <3>2. Whole(a)
      BY <1>3, <1>4, <2>1, <2>3, WholeAppend
    <3>3. UsedIn(a) = UsedIn(read) \cup Uses(in)
      BY <1>3, <1>4, <2>1, AppendUses
    <3>4. QED
      BY <3>1, <3>2, <3>3
  <2>5. reply.kind = "assistant" /\ reply.calls = <<>>
    BY <1>2 DEF Assistant
  <2>6. CallsOf(reply) = {} /\ ~IsResult(reply) /\ reply.kind # "outbound" /\ Uses(reply) = {}
    BY <2>5 DEF CallsOf, IsResult, Uses, ToSet
  <2>7. Whole(Append(a, reply))
    BY <1>4, <2>4, <2>6, WholeAppend
  <2>8. UsedIn(Append(a, reply)) = UsedIn(a) \cup Uses(reply)
    BY <1>4, <2>4, AppendUses
  <2>9. QED
    BY <1>3, <1>5, <2>1, <2>3, <2>4, <2>6, <2>7, <2>8
<1>7. store' = store \/ store' = [store EXCEPT ![s] = m]
  BY <1>2 DEF RecordWrite, Overwrite, Overwritten
<1>8. \A t \in Sessions : command'[t].read \in {command[t].read, store[t], <<>>}
  BY <1>1 DEF TypeOK, NoCommand
<1>9. QED
  BY <1>1, <1>6, <1>7, <1>8, CommandMoves

LEMMA InitHistory ==
  ASSUME Init
  PROVE  HistoryInv
<1>1. /\ \A r \in Runs : loop[r] = NoLoop /\ cached[r] = <<>> /\ snapshot[r] = <<>>
      /\ \A r \in Runs : pc[r] = "idle" /\ copy[r] = <<>> /\ fan[r] = <<>>
      /\ \A s \in Sessions : store[s] = <<>> /\ command[s].read = <<>>
  BY DEF Init, NoCommand
<1>2. \A r \in Runs : Numbered(r, pc[r], loop[r]) /\ LogSound(r, pc[r], loop[r])
  BY <1>1, NoLoopSound
<1>3. \A r \in Runs : HookSound(r)
  BY <1>1, EmptyWhole DEF HookSound, Whole
<1>4. \A s \in Sessions : StoreSound(s)
  BY <1>1, EmptyWhole DEF StoreSound
<1>5. \A r \in Runs : UsedBy(r) = {}
  BY <1>1, NoLoopSound, EmptyWhole DEF UsedBy
<1>6. \A s \in Sessions : UsedAt(s) = {}
  BY <1>1, EmptyWhole DEF UsedAt
<1>7. Known = {}
  BY <1>5, <1>6 DEF Known
<1>8. QED
  BY <1>2, <1>3, <1>4, <1>7 DEF HistoryInv, Unmentioned

LEMMA NextHistory ==
  ASSUME LoopInv, HistoryInv, SessionAssumption, [Next]_vars
  PROVE  HistoryInv'
<1>1. ASSUME NEW r \in Runs, Driver(r)
      PROVE  HistoryInv'
  BY <1>1, SpawnDriverHistory, OpenSessionHistory, AppendMessageHistory, PauseHistory,
     BeginTurnHistory, SummarizeHistory, SendRequestHistory, StreamToolUseHistory,
     FallBackHistory, EndResponseHistory, DispatchToolHistory, ResolveToolHistory, LeaveHistory,
     OnStopHistory, ReadTargetHistory, WriteTargetHistory, SendTerminalHistory DEF Driver
<1>2. ASSUME NEW r \in Runs, Consumer(r)
      PROVE  HistoryInv'
  <2>1. CASE AbortDropped(r)
    BY <2>1, KillHistory DEF AbortDropped
  <2>2. CASE ~AbortDropped(r)
    BY <1>2, <2>2, SignalHistory DEF Consumer
  <2>3. QED
    BY <2>1, <2>2
<1>3. ASSUME NEW s \in Sessions, Commands(s)
      PROVE  HistoryInv'
  BY <1>3, CommandReads, CompactWriteHistory, RecordWriteHistory DEF Commands, LoopInv
<1>4. CASE Shutdown
  <2>1. CASE FinishShutdown
    BY <2>1, KillHistory DEF FinishShutdown
  <2>2. CASE BeginPause \/ BeginShutdown
    BY <2>2, SignalHistory
  <2>3. QED
    BY <1>4, <2>1, <2>2 DEF Shutdown
<1>5. CASE Reboot
  BY <1>5, RebootHistory
<1>6. CASE UNCHANGED vars
  BY <1>6, SignalHistory
<1>7. QED
  BY <1>1, <1>2, <1>3, <1>4, <1>5, <1>6 DEF Next

(* Every log of the system stays sound: what a run holds, what its hooks     *)
(* keep of it, what a command or the fan-out has read, and what is stored.  *)
THEOREM HistoryInvHolds == Spec => []HistoryInv
<1>1. Init => HistoryInv
  BY InitHistory
<1>2. LoopInv /\ HistoryInv /\ [Next]_vars => HistoryInv'
  BY SessionAssumption, NextHistory
<1>3. Spec => []LoopInv
  BY TypesHold, PTL DEF LoopInv
<1>4. QED
  BY <1>1, <1>2, <1>3, PTL DEF Spec

(* on_message and on_stop of SessionPersistHook, the fan-out and the slash   *)
(* commands never store a call without a result, except where an attachment *)
(* has cut the results of its response in two.                              *)
THEOREM HistoriesAreWhole == Spec => []NoDanglingHistory
<1>1. LoopInv /\ HistoryInv => NoDanglingHistory
  <2>1. SUFFICES ASSUME LoopInv, HistoryInv, NEW s \in Sessions, NEW c \in Dangling(store[s])
                 PROVE  \E m \in ToSet(store[s]) :
                          m.kind = "attachment" /\ SameResponse(m.call, c)
    BY DEF NoDanglingHistory
  <2>2. PICK a : a = store[s]
    OBVIOUS
  <2>3. a \in Seq(Messages) /\ Whole(a) /\ c \in CallsIn(a) /\ c \notin ResolvedIn(a)
    BY <2>1, <2>2 DEF HistoryInv, StoreSound, LoopInv, TypeOK, Dangling
  <2>4. PICK i \in DOMAIN a : c \in CallsOf(a[i])
    <3>1. PICK m \in ToSet(a) : c \in CallsOf(m)
      BY <2>3 DEF CallsIn
    <3>2. QED
      BY <2>3, <3>1 DEF ToSet
  <2>5. Answered(a, i, Len(a), c, AsInput)
    BY <2>3, <2>4 DEF Whole, Open
  <2>6. PICK k \in i + 1 .. Len(a) :
          \/ IsResult(a[k]) /\ a[k].call = c
          \/ a[k].kind \in AsInput /\ SameResponse(a[k].call, c)
    BY <2>5 DEF Answered
  <2>7. a[k] \in ToSet(a)
    BY <2>3, <2>4, <2>6, InSeq
  <2>8. ~(IsResult(a[k]) /\ a[k].call = c)
    BY <2>3, <2>7 DEF ResolvedIn
  <2>9. QED
    BY <2>2, <2>6, <2>7, <2>8 DEF AsInput
<1>2. QED
  BY <1>1, HistoryInvHolds, TypesHold, PTL DEF LoopInv

(* Splice and project_conversation make a well-formed request of every log  *)
(* a run sends, with every call followed by its one result.                 *)
THEOREM RequestsWellFormed == Spec => []RequestsAreWellFormed
<1>1. LoopInv /\ HistoryInv => RequestsAreWellFormed
  <2>1. SUFFICES ASSUME LoopInv, HistoryInv, NEW r \in Runs, pc[r] = "request"
                 PROVE  WellFormed(LlmRequest(r))
    BY DEF RequestsAreWellFormed
  <2>2. PICK a, p : a = loop[r].log /\ p = pending[r]
    OBVIOUS
  <2>3. "request" \in InnerPhases /\ "request" \notin CallPhases /\ "request" \notin AppendPhases
    BY DEF InnerPhases, CallPhases, AppendPhases
  <2>4. Whole(a)
    BY <2>1, <2>2, <2>3, BetweenTurns
  <2>5. a \in Seq(Messages)
    BY <2>1, <2>2, LoopFields DEF LoopInv
  <2>6. PICK E : E = [kind : {"injected"}, nth : Nat]
    OBVIOUS
  <2>7. p \in Seq(E)
    BY <2>1, <2>2, <2>6 DEF LoopInv, TypeOK
  <2>8. PICK S : S = Messages \cup E
    OBVIOUS
  <2>9. a \in Seq(S) /\ p \in Seq(S)
    BY <2>5, <2>7, <2>8
  <2>10. \A n \in DOMAIN a : a[n].kind # "injected"
    <3>1. \A m \in Messages : m.kind # "injected"
      BY DEF Messages
    <3>2. \A n \in DOMAIN a : a[n] \in Messages
      BY <2>5, InSeq
    <3>3. QED
      BY <3>1, <3>2
  <2>11. \A n \in DOMAIN p : p[n].kind = "injected"
    <3>1. \A m \in E : m.kind = "injected"
      BY <2>6
    <3>2. \A n \in DOMAIN p : p[n] \in E
      BY <2>7, InSeq
    <3>3. QED
      BY <3>1, <3>2
  <2>12. QED
    BY <2>2, <2>4, <2>9, <2>10, <2>11, WholeRequest DEF LlmRequest, Whole
<1>2. QED
  BY <1>1, HistoryInvHolds, TypesHold, PTL DEF LoopInv

(* The second half of NotifiesArriveOnce: append_outbound_to_conv searches  *)
(* the target, so that no stored log has a sent message twice.              *)
THEOREM NotifiesAreSingle ==
  Spec => [](\A s \in Sessions : \A i, j \in DOMAIN store[s] :
               store[s][i].kind = "outbound" /\ store[s][i] = store[s][j] => i = j)
<1>1. HistoryInv => \A s \in Sessions : \A i, j \in DOMAIN store[s] :
                      store[s][i].kind = "outbound" /\ store[s][i] = store[s][j] => i = j
  BY DEF HistoryInv, StoreSound, Whole, Sound, Unique
<1>2. QED
  BY <1>1, HistoryInvHolds, PTL

------------------------------------------------------------------------------
(* The contract of a run: AgentRun is implemented *)

ContractStep == [Contract!Next]_(Contract!vars)

(* Run r gets to stage s, and no other run moves. *)
Moved(r, s) ==
  /\ Stage(pc'[r]) = s
  /\ \A q \in Runs \ {r} : Stage(pc'[q]) = Stage(pc[q])

Unmoved == \A r \in Runs : Stage(pc'[r]) = Stage(pc[r])

(* The stage of each phase. *)
LEMMA StageValues ==
  /\ Stage("idle") = "idle" /\ Stage("execute") = "calling"
  /\ \A p \in InnerPhases \ {"execute"} : Stage(p) = "working"
  /\ \A p \in FinalPhases : Stage(p) = "leaving"
  /\ \A p \in EndPhases : Stage(p) = "ended"
<1>1. /\ "idle" # "execute" /\ "idle" \notin InnerPhases \cup FinalPhases \cup EndPhases
      /\ "execute" \notin FinalPhases \cup EndPhases
      /\ \A p \in InnerPhases : p \notin FinalPhases \cup EndPhases /\ p # "idle"
      /\ \A p \in FinalPhases : p \notin EndPhases /\ p # "idle"
      /\ \A p \in EndPhases : p # "idle"
  BY DEF InnerPhases, FinalPhases, EndPhases
<1>2. QED
  BY <1>1 DEF Stage

(* A run is live for its callers when it is for the kernel. *)
LEMMA LiveStages ==
  ASSUME TypeOK, NEW r \in Runs
  PROVE  Stage(pc[r]) \in {"working", "calling", "leaving"} <=> r \in LiveRuns
<1>1. pc[r] \in {"idle"} \cup InnerPhases \cup FinalPhases \cup EndPhases
  BY DEF TypeOK, LivePhases
<1>2. "execute" \in InnerPhases /\ "idle" \notin InnerPhases \cup FinalPhases
      /\ \A p \in EndPhases : p \notin InnerPhases \cup FinalPhases
  BY DEF InnerPhases, FinalPhases, EndPhases
<1>3. r \in LiveRuns <=> pc[r] \in InnerPhases \cup FinalPhases
  BY DEF LiveRuns, Live, LivePhases
<1>4. CASE pc[r] \in InnerPhases \cup FinalPhases
  <2>1. Stage(pc[r]) \in {"working", "calling", "leaving"}
    BY <1>4, StageValues
  <2>2. QED
    BY <1>3, <1>4, <2>1
<1>5. CASE pc[r] \notin InnerPhases \cup FinalPhases
  <2>1. Stage(pc[r]) \in {"idle", "ended"}
    BY <1>1, <1>5, StageValues
  <2>2. QED
    BY <1>3, <1>5, <2>1
<1>6. QED
  BY <1>4, <1>5

(* A driver that goes on to another phase moves itself only. *)
LEMMA DriverMoves ==
  ASSUME TypeOK, NEW r \in Runs, NEW p, pc' = [pc EXCEPT ![r] = p]
  PROVE  Moved(r, Stage(p))
<1>1. pc'[r] = p /\ \A q \in Runs \ {r} : pc'[q] = pc[q]
  BY DEF TypeOK
<1>2. QED
  BY <1>1 DEF Moved

(* A move, as AgentRun writes it. *)
LEMMA MovedBecomes ==
  ASSUME NEW r \in Runs, NEW s, Moved(r, s)
  PROVE  Contract!Becomes(r, s)
BY DEF Moved, Contract!Becomes

(* Calls done, and the gate, change with what they are read from. *)
LEMMA ReadFrom ==
  /\ executed' = executed =>
       [q \in Runs |-> ExecutedBy(q)]' = [q \in Runs |-> ExecutedBy(q)]
  /\ kernel' = kernel => Gate' = Gate
BY DEF ExecutedBy, Gate

(* Steps its callers do not see. *)
LEMMA HiddenStep ==
  ASSUME Unmoved, UNCHANGED <<executed, outcome, cancelled, paused>>, Gate' = Gate
  PROVE  ContractStep
<1>1. [q \in Runs |-> Stage(pc[q])]' = [q \in Runs |-> Stage(pc[q])]
  BY DEF Unmoved
<1>2. [q \in Runs |-> ExecutedBy(q)]' = [q \in Runs |-> ExecutedBy(q)]
  BY ReadFrom
<1>3. QED
  BY <1>1, <1>2 DEF ContractStep, Contract!vars

(* A run begins, or is refused. *)
LEMMA BeginStep ==
  ASSUME NEW r \in Runs, Stage(pc[r]) = "idle",
         Moved(r, IF Gate = "open" THEN "working" ELSE "ended"),
         UNCHANGED <<executed, outcome, cancelled, paused, kernel>>
  PROVE  ContractStep
<1>1. Contract!Becomes(r, IF Gate = "open" THEN "working" ELSE "ended")
  BY MovedBecomes
<1>2. Contract!Begin(r)
  BY <1>1, ReadFrom DEF Contract!Begin
<1>3. QED
  BY <1>2 DEF ContractStep, Contract!Next

(* A run begins a call. *)
LEMMA CallStep ==
  ASSUME NEW r \in Runs, Stage(pc[r]) = "working", Moved(r, "calling"),
         r \notin cancelled, ~paused,
         UNCHANGED <<executed, outcome, cancelled, paused, kernel>>
  PROVE  ContractStep
<1>1. Contract!Becomes(r, "calling")
  BY MovedBecomes
<1>2. Contract!Call(r)
  BY <1>1, ReadFrom DEF Contract!Call
<1>3. QED
  BY <1>2 DEF ContractStep, Contract!Next

(* A call is done that was not done before. *)
LEMMA ReturnStep ==
  ASSUME NEW r \in Runs, Stage(pc[r]) = "calling", Moved(r, "working"), r \notin cancelled,
         NEW c, c \notin executed, c[1] = r, executed' = executed \cup {c},
         UNCHANGED <<outcome, cancelled, paused, kernel>>
  PROVE  ContractStep
<1>1. Contract!Becomes(r, "working")
  BY MovedBecomes
<1>2. /\ ExecutedBy(r)' = ExecutedBy(r) \cup {c}
      /\ c \notin ExecutedBy(r)
      /\ \A q \in Runs \ {r} : ExecutedBy(q)' = ExecutedBy(q)
  BY DEF ExecutedBy
<1>3. [q \in Runs |-> ExecutedBy(q)]'
        = [[q \in Runs |-> ExecutedBy(q)] EXCEPT ![r] = @ \cup {c}]
  BY <1>2
<1>4. c \in [q \in Runs |-> ExecutedBy(q)]'[r] \ [q \in Runs |-> ExecutedBy(q)][r]
  BY <1>2
<1>5. Contract!Return(r)
  BY <1>1, <1>3, <1>4, ReadFrom DEF Contract!Return
<1>6. QED
  BY <1>5 DEF ContractStep, Contract!Next

(* A run leaves, as its token and the pause allow. *)
LEMMA LeaveStep ==
  ASSUME NEW r \in Runs, NEW how, Moved(r, "leaving"), outcome' = [outcome EXCEPT ![r] = how],
         \/ Stage(pc[r]) \in {"working", "calling"} /\ how = "failed"
         \/ /\ Stage(pc[r]) = "working" /\ r \notin cancelled
            /\ how = "completed" \/ (how = "paused" /\ paused),
         UNCHANGED <<executed, cancelled, paused, kernel>>
  PROVE  ContractStep
<1>1. Contract!Becomes(r, "leaving")
  BY MovedBecomes
<1>2. Contract!Leave(r, how)
  BY <1>1, ReadFrom DEF Contract!Leave
<1>3. how \in {"completed", "paused", "failed"}
  OBVIOUS
<1>4. QED
  BY <1>2, <1>3 DEF ContractStep, Contract!Next

(* A run is over. *)
LEMMA EndStep ==
  ASSUME NEW r \in Runs, Stage(pc[r]) = "leaving", Moved(r, "ended"),
         cancelled' = cancelled \ {r},
         UNCHANGED <<executed, outcome, paused, kernel>>
  PROVE  ContractStep
<1>1. Contract!Becomes(r, "ended")
  BY MovedBecomes
<1>2. Contract!End(r)
  BY <1>1, ReadFrom DEF Contract!End
<1>3. QED
  BY <1>2 DEF ContractStep, Contract!Next

(* A token fires. *)
LEMMA CancelStep ==
  ASSUME TypeOK, NEW r \in LiveRuns, cancelled' = cancelled \cup {r},
         UNCHANGED <<pc, executed, outcome, paused, kernel>>
  PROVE  ContractStep
<1>1. r \in Runs /\ Stage(pc[r]) \in {"working", "calling", "leaving"}
  BY LiveStages DEF LiveRuns
<1>2. Contract!Cancel(r)
  BY <1>1, ReadFrom DEF Contract!Cancel, Contract!Live
<1>3. QED
  BY <1>1, <1>2 DEF ContractStep, Contract!Next

(* Runs that are killed are cut off. *)
LEMMA KillCuts ==
  ASSUME TypeOK, NEW S \in SUBSET Runs, Kill(S), cancelled' = cancelled \ S, executed' = executed
  PROVE  Contract!Cut(S)
<1>1. "killed" \in EndPhases
  BY DEF EndPhases
<1>2. \A r \in Runs : Stage(pc'[r]) = IF r \in S THEN "ended" ELSE Stage(pc[r])
  BY <1>1, StageValues DEF Kill
<1>3. [q \in Runs |-> Stage(pc[q])]'
        = [r \in Runs |-> IF r \in S THEN "ended" ELSE [q \in Runs |-> Stage(pc[q])][r]]
  BY <1>2
<1>4. outcome' = [r \in Runs |-> IF r \in S THEN "none" ELSE outcome[r]]
  BY DEF Kill
<1>5. QED
  BY <1>3, <1>4, ReadFrom DEF Contract!Cut

(* The live runs, as AgentRun sees them. *)
LEMMA RunningIsLive ==
  ASSUME TypeOK
  PROVE  Contract!Running = LiveRuns
<1>1. \A r \in Runs : [q \in Runs |-> Stage(pc[q])][r] \in {"working", "calling", "leaving"}
                        <=> r \in LiveRuns
  BY LiveStages
<1>2. LiveRuns \subseteq Runs
  BY DEF LiveRuns
<1>3. QED
  BY <1>1, <1>2 DEF Contract!Running, Contract!Live

------------------------------------------------------------------------------
(* The calls a run has executed lie behind it *)

(* Calls lie behind a run that goes on with its turn and its batch, or with *)
(* a part of it.                                                            *)
LEMMA StaysBehind ==
  ASSUME NEW calls, NEW p, NEW l, NEW p2 \in InnerPhases, NEW l2, Behind(calls, p, l),
         p \in {"idle"} \cup InnerPhases, l2.turn = l.turn,
         p \in CallPhases => p2 \in CallPhases /\ ToSet(l2.batch) \subseteq ToSet(l.batch)
  PROVE  Behind(calls, p2, l2)
BY DEF Behind

(* One driver goes on, inside the loop or behind it. *)
LEMMA DriverKeeps ==
  ASSUME LoopInv, ContractInv, NEW r \in Runs, NEW p \in LivePhases,
         pc' = [pc EXCEPT ![r] = p],
         p \in InnerPhases => Behind(ExecutedBy(r)', p, loop'[r]),
         \A q \in Runs \ {r} : loop'[q] = loop[q] /\ ExecutedBy(q)' = ExecutedBy(q),
         UNCHANGED <<cancelled, dropped>>
  PROVE  ContractInv'
<1>1. pc \in [Runs -> {"idle"} \cup LivePhases \cup EndPhases]
  BY DEF LoopInv, TypeOK
<1>2. pc'[r] = p /\ \A q \in Runs \ {r} : pc'[q] = pc[q]
  BY <1>1
<1>3. p \notin InnerPhases => p # "idle"
  BY DEF LivePhases, FinalPhases
<1>4. Behind(ExecutedBy(r)', pc'[r], loop'[r])
  <2>1. CASE p \in InnerPhases
    BY <1>2, <2>1
  <2>2. CASE p \notin InnerPhases
    BY <1>2, <1>3, <2>2 DEF Behind
  <2>3. QED
    BY <2>1, <2>2
<1>5. \A q \in Runs \ {r} : Behind(ExecutedBy(q)', pc'[q], loop'[q])
  BY <1>2 DEF ContractInv
<1>6. cancelled' \subseteq LiveRuns' /\ dropped' \subseteq cancelled'
  <2>1. LiveRuns' = LiveRuns \cup {r}
    BY <1>2 DEF LiveRuns, Live
  <2>2. QED
    BY <2>1 DEF ContractInv
<1>7. QED
  BY <1>4, <1>5, <1>6 DEF ContractInv

(* Other steps: runs stay where they are or are killed, and the tokens of   *)
(* the killed ones are gone.                                                *)
LEMMA OthersKeep ==
  ASSUME ContractInv, executed' = executed,
         \A q \in Runs : \/ pc'[q] = pc[q] /\ loop'[q] = loop[q]
                         \/ pc'[q] \in FinalPhases \cup EndPhases,
         cancelled' \subseteq LiveRuns', dropped' \subseteq cancelled'
  PROVE  ContractInv'
<1>1. \A q \in Runs : ExecutedBy(q)' = ExecutedBy(q)
  BY DEF ExecutedBy
<1>2. \A p \in FinalPhases \cup EndPhases : p \notin {"idle"} \cup InnerPhases
  BY DEF FinalPhases, EndPhases, InnerPhases
<1>3. ASSUME NEW q \in Runs
      PROVE  Behind(ExecutedBy(q)', pc'[q], loop'[q])
  <2>1. CASE pc'[q] = pc[q] /\ loop'[q] = loop[q]
    BY <1>1, <2>1 DEF ContractInv
  <2>2. CASE pc'[q] \in FinalPhases \cup EndPhases
    BY <1>2, <2>2 DEF Behind
  <2>3. QED
    BY <2>1, <2>2
<1>4. QED
  BY <1>3 DEF ContractInv

------------------------------------------------------------------------------
(* One lemma per action, or per group of actions alike *)

ContractKept == ContractStep /\ ContractInv'

(* The loop goes on between two calls, in the same turn. *)
LEMMA HiddenMove ==
  ASSUME LoopInv, ContractInv, NEW r \in Runs, NEW p \in InnerPhases \ {"execute"},
         pc[r] \in InnerPhases \ {"execute"}, pc' = [pc EXCEPT ![r] = p],
         \A q \in Runs \ {r} : loop'[q] = loop[q], loop'[r].turn = loop[r].turn,
         pc[r] \in CallPhases => p \in CallPhases /\ loop'[r].batch = loop[r].batch,
         UNCHANGED <<executed, outcome, cancelled, dropped, paused, kernel>>
  PROVE  ContractKept
<1>1. Stage(pc[r]) = "working" /\ Stage(p) = "working"
  BY StageValues
<1>2. Unmoved
  BY <1>1, DriverMoves DEF LoopInv, Moved, Unmoved
<1>3. ContractStep
  BY <1>2, HiddenStep, ReadFrom
<1>4. \A q \in Runs : ExecutedBy(q)' = ExecutedBy(q)
  BY DEF ExecutedBy
<1>5. Behind(ExecutedBy(r), p, loop'[r])
  BY StaysBehind DEF ContractInv
<1>6. Behind(ExecutedBy(r)', p, loop'[r])
  BY <1>4, <1>5
<1>7. ContractInv'
  BY <1>4, <1>6, DriverKeeps DEF LivePhases
<1>8. QED
  BY <1>3, <1>7 DEF ContractKept

(* run_streaming takes the run, or refuses it. *)
LEMMA SpawnDriverContract ==
  ASSUME LoopInv, ContractInv, NEW r \in Runs, SpawnDriver(r)
  PROVE  ContractKept
<1>1. /\ pc[r] = "idle"
      /\ pc' = [pc EXCEPT ![r] = IF kernel \in {"up", "pausing"} THEN "start" ELSE "refused"]
      /\ UNCHANGED <<loop, executed, outcome, cancelled, dropped, paused, kernel>>
  BY DEF SpawnDriver, Goto, signals, observed
<1>2. /\ TypeOK /\ pc[r] \notin LivePhases
      /\ "start" \in InnerPhases \ {"execute"} /\ "refused" \in EndPhases
  BY <1>1 DEF LoopInv, LivePhases, InnerPhases, FinalPhases, EndPhases
<1>3. Gate = "open" <=> kernel \in {"up", "pausing"}
  BY <1>2 DEF TypeOK, Gate
<1>4. Moved(r, IF Gate = "open" THEN "working" ELSE "ended")
  <2>1. CASE Gate = "open"
    BY <1>1, <1>2, <1>3, <2>1, DriverMoves, StageValues
  <2>2. CASE Gate # "open"
    BY <1>1, <1>2, <1>3, <2>2, DriverMoves, StageValues
  <2>3. QED
    BY <2>1, <2>2
<1>5. ContractStep
  BY <1>1, <1>4, BeginStep, StageValues
<1>6. ContractInv'
  <2>1. CASE Gate = "open"
    <3>1. \A q \in Runs : ExecutedBy(q)' = ExecutedBy(q)
      BY <1>1 DEF ExecutedBy
    <3>2. "idle" \notin CallPhases
      BY DEF CallPhases
    <3>3. Behind(ExecutedBy(r), "start", loop[r])
      BY <1>1, <1>2, <3>2, StaysBehind DEF ContractInv
    <3>4. pc' = [pc EXCEPT ![r] = "start"] /\ "start" \in LivePhases
      BY <1>1, <1>2, <1>3, <2>1 DEF LivePhases
    <3>5. Behind(ExecutedBy(r)', "start", loop'[r])
      BY <1>1, <3>1, <3>3
    <3>6. QED
      BY <1>1, <3>1, <3>4, <3>5, DriverKeeps
  <2>2. CASE Gate # "open"
    <3>1. pc'[r] = "refused" /\ \A q \in Runs \ {r} : pc'[q] = pc[q]
      BY <1>1, <1>2, <1>3, <2>2 DEF TypeOK
    <3>2. LiveRuns \subseteq LiveRuns'
      BY <1>2, <3>1 DEF LiveRuns, Live
    <3>3. QED
      BY <1>1, <1>2, <3>1, <3>2, OthersKeep DEF ContractInv
  <2>3. QED
    BY <2>1, <2>2
<1>7. QED
  BY <1>5, <1>6 DEF ContractKept

(* A provider answers, the log is compacted or sent: nothing to be seen. *)
LEMMA TurnContract ==
  ASSUME LoopInv, ContractInv, NEW r \in Runs,
         \/ OpenSession(r) \/ BeginTurn(r) \/ Summarize(r) \/ SendRequest(r)
         \/ StreamToolUse(r) \/ FallBack(r) \/ EndResponse(r)
  PROVE  ContractKept
<1>1. /\ pc \in [Runs -> {"idle"} \cup LivePhases \cup EndPhases]
      /\ loop \in [Runs -> Loops] /\ loop[r] \in Loops
  BY DEF LoopInv, TypeOK
<1>2. /\ pc[r] \in {"start", "turn", "summarize", "request", "llm"}
      /\ UNCHANGED <<executed, outcome, cancelled, dropped, paused, kernel>>
  BY DEF OpenSession, BeginTurn, Summarize, SendRequest, StreamToolUse, FallBack, EndResponse,
     At, signals, observed
<1>3. /\ pc[r] \in InnerPhases \ {"execute"} /\ pc[r] \notin CallPhases
      /\ {"replay", "summarize", "request", "llm", "answer"} \subseteq InnerPhases \ {"execute"}
  BY <1>2 DEF InnerPhases, CallPhases
<1>4. \E p \in InnerPhases \ {"execute"} : pc' = [pc EXCEPT ![r] = p]
  <2>1. CASE OpenSession(r) \/ BeginTurn(r) \/ Summarize(r) \/ SendRequest(r) \/ EndResponse(r)
    BY <1>3, <2>1 DEF OpenSession, BeginTurn, Summarize, SendRequest, EndResponse, Goto
  <2>2. CASE StreamToolUse(r) \/ FallBack(r)
    <3>1. pc' = [pc EXCEPT ![r] = pc[r]]
      BY <1>1, <2>2 DEF StreamToolUse, FallBack
    <3>2. QED
      BY <1>3, <3>1
  <2>3. QED
    BY <2>1, <2>2
<1>5. loop'[r].turn = loop[r].turn /\ \A q \in Runs \ {r} : loop'[q] = loop[q]
  <2>1. CASE BeginTurn(r)
    BY <2>1 DEF BeginTurn
  <2>2. CASE OpenSession(r)
    BY <1>1, <2>2 DEF OpenSession, Loops
  <2>3. CASE Summarize(r)
    BY <1>1, <2>3 DEF Summarize, Loops
  <2>4. CASE SendRequest(r)
    BY <1>1, <2>4 DEF SendRequest, Loops
  <2>5. CASE StreamToolUse(r)
    BY <1>1, <2>5 DEF StreamToolUse, Loops
  <2>6. CASE FallBack(r)
    BY <1>1, <2>6 DEF FallBack, Loops
  <2>7. CASE EndResponse(r)
    BY <1>1, <2>7 DEF EndResponse, Loops
  <2>8. QED
    BY <2>1, <2>2, <2>3, <2>4, <2>5, <2>6, <2>7
<1>6. QED
  BY <1>2, <1>3, <1>4, <1>5, HiddenMove

(* A call begins: stream_tool_call. *)
LEMMA DispatchToolContract ==
  ASSUME LoopInv, ContractInv, NEW r \in Runs, DispatchTool(r)
  PROVE  ContractKept
<1>1. /\ pc[r] = "tool" /\ r \notin cancelled /\ ~paused
      /\ pc' = [pc EXCEPT ![r] = "execute"]
      /\ UNCHANGED <<loop, executed, outcome, cancelled, dropped, paused, kernel>>
  BY DEF DispatchTool, At, Goto, signals, observed
<1>2. /\ "execute" \in InnerPhases \cap CallPhases /\ "tool" \in InnerPhases \ {"execute"}
      /\ "execute" \in LivePhases
  BY DEF LivePhases, InnerPhases, CallPhases
<1>3. Stage(pc[r]) = "working" /\ Moved(r, "calling")
  BY <1>1, <1>2, DriverMoves, StageValues DEF LoopInv
<1>4. ContractStep
  BY <1>1, <1>3, CallStep
<1>5. \A q \in Runs : ExecutedBy(q)' = ExecutedBy(q)
  BY <1>1 DEF ExecutedBy
<1>6. Behind(ExecutedBy(r), "execute", loop[r])
  BY <1>1, <1>2, StaysBehind DEF ContractInv
<1>7. Behind(ExecutedBy(r)', "execute", loop'[r])
  BY <1>1, <1>5, <1>6
<1>8. ContractInv'
  BY <1>1, <1>2, <1>5, <1>6, <1>7, DriverKeeps
<1>9. QED
  BY <1>4, <1>8 DEF ContractKept

(* drive_inner returns with an outcome. *)
LEMMA LeaveContract ==
  ASSUME LoopInv, ContractInv, NEW r \in Runs, NEW how, Finish(r, how),
         \/ pc[r] \in InnerPhases /\ how = "failed"
         \/ /\ pc[r] \in InnerPhases \ {"execute"} /\ r \notin cancelled
            /\ how = "completed" \/ (how = "paused" /\ paused),
         UNCHANGED <<executed, cancelled, dropped, paused, kernel>>
  PROVE  ContractKept
<1>1. /\ pc' = [pc EXCEPT ![r] = "stop"] /\ outcome' = [outcome EXCEPT ![r] = how]
      /\ \A q \in Runs \ {r} : loop'[q] = loop[q]
  BY DEF Finish, Goto, LoopInv, TypeOK
<1>2. "stop" \in FinalPhases /\ "stop" \in LivePhases /\ "stop" \notin InnerPhases
  BY DEF FinalPhases, LivePhases, InnerPhases
<1>3. Moved(r, "leaving")
  BY <1>1, <1>2, DriverMoves, StageValues DEF LoopInv
<1>4. /\ pc[r] \in InnerPhases => Stage(pc[r]) \in {"working", "calling"}
      /\ pc[r] \in InnerPhases \ {"execute"} => Stage(pc[r]) = "working"
  BY StageValues
<1>5. ContractStep
  BY <1>1, <1>3, <1>4, LeaveStep
<1>6. \A q \in Runs : ExecutedBy(q)' = ExecutedBy(q)
  BY DEF ExecutedBy
<1>7. ContractInv'
  BY <1>1, <1>2, <1>6, DriverKeeps
<1>8. QED
  BY <1>5, <1>7 DEF ContractKept

(* A message is appended; after the last one of a turn the calls done are   *)
(* of an earlier turn.                                                      *)
LEMMA AppendMessageContract ==
  ASSUME LoopInv, HistoryInv, ContractInv, NEW r \in Runs, AppendMessage(r)
  PROVE  ContractKept
<1>1. /\ pc[r] \in {"replay", "answer", "resolve"} /\ r \notin cancelled
      /\ UNCHANGED <<executed, cancelled, dropped, paused, kernel>>
  BY DEF AppendMessage, At, signals
<1>2. /\ pc \in [Runs -> {"idle"} \cup LivePhases \cup EndPhases]
      /\ loop \in [Runs -> Loops] /\ loop[r] \in Loops /\ loop[r].turn \in Nat
      /\ \A c \in ExecutedBy(r) : c[2] \in Nat
  BY LoopFields DEF LoopInv, TypeOK, ExecutedBy, CallIds
<1>3. PICK log, todo, next :
        /\ next = AfterAppends(r)
        /\ AppendMove(r, log, todo, next)
  BY AppendMoves
<1>4. /\ pc[r] \in InnerPhases \ {"execute"}
      /\ {"turn", "tool"} \subseteq InnerPhases \ {"execute"} /\ "tool" \in CallPhases
      /\ pc[r] \in CallPhases <=> pc[r] # "replay"
  BY <1>1 DEF InnerPhases, CallPhases
<1>5. \/ pc[r] = "replay" /\ next = "turn"
      \/ pc[r] \in {"answer", "resolve"} /\ next \in {"tool", "stop"}
      \/ pc[r] = "resolve" /\ next = "turn"
  BY <1>1, <1>3 DEF AfterAppends
<1>6. CASE /\ todo = <<>> /\ next = "stop"
           /\ Finish(r, "completed")
  BY <1>1, <1>4, <1>6, LeaveContract
<1>7. CASE /\ todo # <<>>
           /\ loop' = [loop EXCEPT ![r] = [loop[r] EXCEPT !.log = log, !.todo = todo]]
           /\ UNCHANGED <<pc, outcome>>
  <2>1. /\ loop'[r].turn = loop[r].turn /\ loop'[r].batch = loop[r].batch
        /\ \A q \in Runs \ {r} : loop'[q] = loop[q]
    BY <1>2, <1>7 DEF Loops
  <2>2. pc' = [pc EXCEPT ![r] = pc[r]]
    BY <1>2, <1>7
  <2>3. QED
    BY <1>1, <1>4, <1>7, <2>1, <2>2, HiddenMove
<1>8. ASSUME NEW turn, todo = <<>>, next # "stop", pc' = [pc EXCEPT ![r] = next],
             turn = (IF pc[r] = "resolve" /\ next = "turn" THEN loop[r].turn + 1
                     ELSE loop[r].turn),
             loop' = [loop EXCEPT ![r] =
                        [loop[r] EXCEPT !.log = log, !.todo = todo, !.turn = turn]],
             outcome' = outcome
      PROVE  ContractKept
  <2>1. /\ loop'[r].turn = turn /\ loop'[r].batch = loop[r].batch
        /\ \A q \in Runs \ {r} : loop'[q] = loop[q]
    BY <1>2, <1>8 DEF Loops
  <2>2. CASE pc[r] # "resolve" \/ next # "turn"
    BY <1>1, <1>4, <1>5, <1>8, <2>1, <2>2, HiddenMove
  <2>3. CASE pc[r] = "resolve" /\ next = "turn"
    <3>1. Stage(pc[r]) = "working" /\ Stage("turn") = "working"
      BY <1>4, StageValues
    <3>2. Unmoved
      BY <1>8, <2>3, <3>1, DriverMoves DEF LoopInv, Moved, Unmoved
    <3>3. ContractStep
      BY <1>1, <1>8, <3>2, HiddenStep, ReadFrom
    <3>4. \A q \in Runs : ExecutedBy(q)' = ExecutedBy(q)
      BY <1>1 DEF ExecutedBy
    <3>5. \A c \in ExecutedBy(r) : c[2] < turn
      <4>1. \A c \in ExecutedBy(r) : c[2] < loop[r].turn \/ c[2] = loop[r].turn
        BY <1>4 DEF ContractInv, Behind
      <4>2. turn = loop[r].turn + 1
        BY <1>8, <2>3
      <4>3. QED
        BY <1>2, <4>1, <4>2
    <3>6. Behind(ExecutedBy(r)', "turn", loop'[r])
      BY <2>1, <3>4, <3>5 DEF Behind
    <3>7. ContractInv'
      BY <1>1, <1>4, <1>8, <2>1, <2>3, <3>4, <3>6, DriverKeeps DEF LivePhases
    <3>8. QED
      BY <3>3, <3>7 DEF ContractKept
  <2>4. QED
    BY <2>2, <2>3
<1>9. QED
  BY <1>3, <1>6, <1>7, <1>8, ZenonT(30) DEF AppendMove

(* A tool returns: its call was still in the batch, so it was not done yet. *)
LEMMA ResolveToolContract ==
  ASSUME LoopInv, HistoryInv, ContractInv, NEW r \in Runs, ResolveTool(r)
  PROVE  ContractKept
<1>1. /\ pc[r] = "execute" /\ r \notin cancelled /\ pc' = [pc EXCEPT ![r] = "resolve"]
      /\ UNCHANGED <<outcome, cancelled, dropped, paused, kernel>>
  BY DEF ResolveTool, At, Goto, signals
<1>2. PICK c : c = Head(loop[r].batch)
  OBVIOUS
<1>3. /\ executed' = executed \cup {c}
      /\ \E x : loop' = [loop EXCEPT ![r].todo = x, ![r].batch = Tail(@)]
  BY <1>2 DEF ResolveTool
<1>4. loop \in [Runs -> Loops] /\ loop[r] \in Loops /\ loop[r].turn \in Nat
  BY LoopFields DEF LoopInv, TypeOK
<1>5. /\ loop'[r].turn = loop[r].turn /\ loop'[r].batch = Tail(loop[r].batch)
      /\ \A q \in Runs \ {r} : loop'[q] = loop[q]
  BY <1>3, <1>4 DEF Loops
<1>6. /\ loop[r].batch \in Responses /\ loop[r].batch # <<>>
      /\ \A i, j \in DOMAIN loop[r].batch : loop[r].batch[i] = loop[r].batch[j] => i = j
      /\ \A d \in ToSet(loop[r].batch) : d[1] = r /\ d[2] = loop[r].turn
  BY <1>1, LoopFields, OwnCalls DEF LoopInv, HistoryInv, Numbered
<1>7. c \in ToSet(loop[r].batch) /\ ToSet(Tail(loop[r].batch)) = ToSet(loop[r].batch) \ {c}
  BY <1>2, <1>6, BatchTail
<1>8. c[1] = r /\ c[2] = loop[r].turn
  BY <1>6, <1>7
<1>9. /\ {"execute", "resolve"} \subseteq InnerPhases \cap CallPhases
      /\ "resolve" \in InnerPhases \ {"execute"} /\ "resolve" \in LivePhases
  BY DEF LivePhases, InnerPhases, CallPhases
<1>10. \A d \in ExecutedBy(r) :
         d[2] < loop[r].turn \/ (d[2] = loop[r].turn /\ d \notin ToSet(loop[r].batch))
  BY <1>1, <1>9 DEF ContractInv, Behind
<1>11. c \notin executed
  <2>1. ~(loop[r].turn < loop[r].turn)
    BY <1>4
  <2>2. c \notin ExecutedBy(r)
    BY <1>7, <1>8, <1>10, <2>1
  <2>3. QED
    BY <1>8, <2>2 DEF ExecutedBy
<1>12. Stage(pc[r]) = "calling" /\ Moved(r, "working")
  BY <1>1, <1>9, DriverMoves, StageValues DEF LoopInv
<1>13. ContractStep
  BY <1>1, <1>3, <1>8, <1>11, <1>12, ReturnStep
<1>14. /\ ExecutedBy(r)' = ExecutedBy(r) \cup {c}
       /\ \A q \in Runs \ {r} : ExecutedBy(q)' = ExecutedBy(q)
  BY <1>3, <1>8 DEF ExecutedBy
<1>15. Behind(ExecutedBy(r)', "resolve", loop'[r])
  BY <1>5, <1>7, <1>8, <1>9, <1>10, <1>14 DEF Behind
<1>16. ContractInv'
  BY <1>1, <1>5, <1>9, <1>14, <1>15, DriverKeeps
<1>17. QED
  BY <1>13, <1>16 DEF ContractKept

(* on_stop and the fan-out, which nobody waits for but the stream. *)
LEMMA FinalContract ==
  ASSUME LoopInv, ContractInv, NEW r \in Runs, OnStop(r) \/ ReadTarget(r) \/ WriteTarget(r)
  PROVE  ContractKept
<1>1. /\ pc[r] \in {"stop", "fan", "fanwrite"}
      /\ UNCHANGED <<loop, executed, outcome, cancelled, dropped, paused, kernel>>
  BY DEF OnStop, ReadTarget, WriteTarget, signals
<1>2. /\ pc \in [Runs -> {"idle"} \cup LivePhases \cup EndPhases]
      /\ pc[r] \in FinalPhases /\ {"fan", "fanwrite", "send"} \subseteq FinalPhases
      /\ \A p \in FinalPhases : p \in LivePhases /\ p \notin InnerPhases
  BY <1>1 DEF LoopInv, TypeOK, FinalPhases, LivePhases, InnerPhases
<1>3. \E p \in FinalPhases : pc' = [pc EXCEPT ![r] = p]
  <2>1. CASE UNCHANGED pc
    <3>1. pc' = [pc EXCEPT ![r] = pc[r]]
      BY <1>2, <2>1
    <3>2. QED
      BY <1>2, <3>1
  <2>2. CASE ~UNCHANGED pc
    BY <1>2, <2>2 DEF OnStop, ReadTarget, WriteTarget, Goto
  <2>3. QED
    BY <2>1, <2>2
<1>4. PICK p \in FinalPhases : pc' = [pc EXCEPT ![r] = p]
  BY <1>3
<1>5. Stage(pc[r]) = "leaving" /\ Stage(p) = "leaving"
  BY <1>2, <1>4, StageValues
<1>6. Unmoved
  BY <1>4, <1>5, DriverMoves DEF LoopInv, Moved, Unmoved
<1>7. ContractStep
  BY <1>1, <1>6, HiddenStep, ReadFrom
<1>8. \A q \in Runs : ExecutedBy(q)' = ExecutedBy(q)
  BY <1>1 DEF ExecutedBy
<1>9. ContractInv'
  BY <1>1, <1>2, <1>4, <1>8, DriverKeeps
<1>10. QED
  BY <1>7, <1>9 DEF ContractKept

(* The last item of the stream is sent. *)
LEMMA SendTerminalContract ==
  ASSUME LoopInv, ContractInv, NEW r \in Runs, SendTerminal(r)
  PROVE  ContractKept
<1>1. /\ pc[r] \in {"send", "fan"} /\ pc' = [pc EXCEPT ![r] = "sent"]
      /\ cancelled' = cancelled \ {r} /\ dropped' = dropped \ {r}
      /\ UNCHANGED <<loop, executed, outcome, paused, kernel>>
  BY DEF SendTerminal, Goto, observed
<1>2. /\ pc[r] \in FinalPhases /\ "sent" \in EndPhases
      /\ pc \in [Runs -> {"idle"} \cup LivePhases \cup EndPhases]
  BY <1>1 DEF LoopInv, TypeOK, FinalPhases, EndPhases
<1>3. Stage(pc[r]) = "leaving" /\ Moved(r, "ended")
  BY <1>1, <1>2, DriverMoves, StageValues DEF LoopInv
<1>4. ContractStep
  BY <1>1, <1>3, EndStep
<1>5. pc'[r] = "sent" /\ \A q \in Runs \ {r} : pc'[q] = pc[q]
  BY <1>1, <1>2
<1>6. cancelled' \subseteq LiveRuns' /\ dropped' \subseteq cancelled'
  <2>1. LiveRuns \ {r} \subseteq LiveRuns'
    BY <1>5 DEF LiveRuns, Live
  <2>2. QED
    BY <1>1, <2>1 DEF ContractInv
<1>7. ContractInv'
  BY <1>1, <1>2, <1>5, <1>6, OthersKeep
<1>8. QED
  BY <1>4, <1>7 DEF ContractKept

(* Tokens fire, for callers, for consumers that go away, for a shutdown. *)
LEMMA TokenContract ==
  ASSUME LoopInv, ContractInv, NEW r \in Runs,
         CancelRun(r) \/ DropStream(r) \/ ForwardShutdown(r) \/ Inject(r)
  PROVE  ContractKept
<1>1. UNCHANGED <<pc, loop, executed, outcome, paused, kernel>> /\ Live(r)
  BY DEF CancelRun, DropStream, ForwardShutdown, Inject, signals, observed
<1>2. r \in LiveRuns /\ LiveRuns' = LiveRuns
  BY <1>1 DEF LiveRuns, Live
<1>3. \/ cancelled' = cancelled \cup {r} /\ dropped' \subseteq dropped \cup {r}
      \/ UNCHANGED <<cancelled, dropped>>
  BY DEF CancelRun, DropStream, ForwardShutdown, Inject, signals
<1>4. ContractStep
  <2>1. CASE cancelled' = cancelled \cup {r}
    BY <1>1, <1>2, <2>1, CancelStep DEF LoopInv
  <2>2. CASE UNCHANGED cancelled
    BY <1>1, <2>2, HiddenStep, ReadFrom DEF Unmoved
  <2>3. QED
    BY <1>3, <2>1, <2>2
<1>5. cancelled' \subseteq LiveRuns' /\ dropped' \subseteq cancelled'
  BY <1>2, <1>3 DEF ContractInv
<1>6. ContractInv'
  BY <1>1, <1>5, OthersKeep
<1>7. QED
  BY <1>4, <1>6 DEF ContractKept

(* A kill keeps the invariant if it takes the tokens along. *)
LEMMA KillCutsTokens ==
  ASSUME LoopInv, ContractInv, NEW S \in SUBSET Runs, Kill(S), executed' = executed,
         cancelled' = cancelled \ S, dropped' \subseteq dropped \ S
  PROVE  ContractInv'
<1>1. \A q \in Runs : IF q \in S THEN pc'[q] = "killed" ELSE pc'[q] = pc[q] /\ loop'[q] = loop[q]
  BY DEF Kill
<1>2. "killed" \in EndPhases
  BY DEF EndPhases
<1>3. LiveRuns \ S \subseteq LiveRuns'
  BY <1>1 DEF LiveRuns, Live
<1>4. cancelled' \subseteq LiveRuns' /\ dropped' \subseteq cancelled'
  BY <1>3 DEF ContractInv
<1>5. QED
  BY <1>1, <1>2, <1>4, OthersKeep

(* The watchdog of a dropped stream aborts a run whose token has fired. *)
LEMMA AbortDroppedContract ==
  ASSUME LoopInv, ContractInv, NEW r \in Runs, AbortDropped(r)
  PROVE  ContractKept
<1>1. /\ r \in dropped /\ r \in LiveRuns /\ Kill({r})
      /\ cancelled' = cancelled \ {r} /\ dropped' = dropped \ {r}
      /\ UNCHANGED <<executed, paused, kernel>>
  BY DEF AbortDropped, observed, LiveRuns
<1>2. Contract!Cut({r})
  BY <1>1, KillCuts DEF LoopInv
<1>3. r \in cancelled /\ Stage(pc[r]) \in {"working", "calling", "leaving"}
  BY <1>1, LiveStages DEF ContractInv, LoopInv
<1>4. Contract!Abort(r)
  BY <1>1, <1>2, <1>3, ReadFrom DEF Contract!Abort, Contract!Live
<1>5. ContractStep
  BY <1>4 DEF ContractStep, Contract!Next
<1>6. {r} \in SUBSET Runs /\ dropped' \subseteq dropped \ {r}
  BY <1>1
<1>7. ContractInv'
  BY <1>1, <1>6, KillCutsTokens
<1>8. QED
  BY <1>5, <1>7 DEF ContractKept

(* request_pause, and the shutdown token. *)
LEMMA BeginShutdownContract ==
  ASSUME LoopInv, ContractInv, BeginPause \/ BeginShutdown
  PROVE  ContractKept
<1>1. UNCHANGED <<pc, loop, executed, outcome, cancelled, dropped>>
  BY DEF BeginPause, BeginShutdown, observed
<1>2. [q \in Runs |-> Stage(pc[q])]' = [q \in Runs |-> Stage(pc[q])]
  BY <1>1
<1>3. ASSUME BeginPause
      PROVE  ContractStep
  <2>1. Gate = "open" /\ Gate' = "open" /\ paused' = TRUE
    BY <1>3 DEF BeginPause, Gate
  <2>2. Contract!Pause
    BY <1>1, <1>2, <2>1, ReadFrom DEF Contract!Pause
  <2>3. QED
    BY <2>2 DEF ContractStep, Contract!Next
<1>4. ASSUME BeginShutdown
      PROVE  ContractStep
  <2>1. kernel \in {"up", "pausing"} /\ kernel' = "draining" /\ paused' = paused
    BY <1>4 DEF BeginShutdown
  <2>2. Gate = "open" /\ Gate' = "closing"
    BY <2>1 DEF Gate
  <2>3. Contract!Shut
    BY <1>1, <1>2, <2>1, <2>2, ReadFrom DEF Contract!Shut
  <2>4. QED
    BY <2>3 DEF ContractStep, Contract!Next
<1>5. ContractInv'
  <2>1. LiveRuns' = LiveRuns
    BY <1>1 DEF LiveRuns, Live
  <2>2. QED
    BY <1>1, <2>1, OthersKeep DEF ContractInv
<1>6. QED
  BY <1>3, <1>4, <1>5 DEF ContractKept

(* drain_set is done, or the process ends. *)
LEMMA EndOfProcessContract ==
  ASSUME LoopInv, ContractInv, FinishShutdown \/ Reboot
  PROVE  ContractKept
<1>1. /\ Kill(LiveRuns) /\ cancelled' = {} /\ dropped' = {} /\ UNCHANGED executed
      /\ LiveRuns \in SUBSET Runs
  BY DEF FinishShutdown, Reboot, observed, LiveRuns
<1>2. cancelled' = cancelled \ LiveRuns
  BY <1>1 DEF ContractInv
<1>3. Contract!Cut(Contract!Running)
  BY <1>1, <1>2, KillCuts, RunningIsLive DEF LoopInv
<1>4. ASSUME FinishShutdown
      PROVE  ContractStep
  <2>1. kernel = "draining" /\ kernel' = "down" /\ paused' = paused
    BY <1>4 DEF FinishShutdown
  <2>2. Gate = "closing" /\ Gate' = "closed"
    BY <2>1 DEF Gate
  <2>3. Contract!Close
    BY <1>3, <2>1, <2>2 DEF Contract!Close
  <2>4. QED
    BY <2>3 DEF ContractStep, Contract!Next
<1>5. ASSUME Reboot
      PROVE  ContractStep
  <2>1. Gate' = "open" /\ paused' = FALSE
    BY <1>5 DEF Reboot, Gate
  <2>2. Contract!Restart
    BY <1>3, <2>1 DEF Contract!Restart
  <2>3. QED
    BY <2>2 DEF ContractStep, Contract!Next
<1>6. ContractInv'
  <2>1. dropped' \subseteq dropped \ LiveRuns
    BY <1>1
  <2>2. QED
    BY <1>1, <1>2, <2>1, KillCutsTokens
<1>7. QED
  BY <1>4, <1>5, <1>6 DEF ContractKept

(* Steps that leave the runs alone. *)
LEMMA QuietContract ==
  ASSUME ContractInv, UNCHANGED <<pc, loop, executed, outcome, cancelled, dropped, paused, kernel>>
  PROVE  ContractKept
<1>1. ContractStep
  BY HiddenStep, ReadFrom DEF Unmoved
<1>2. LiveRuns' = LiveRuns
  BY DEF LiveRuns, Live
<1>3. ContractInv'
  BY <1>2, OthersKeep DEF ContractInv
<1>4. QED
  BY <1>1, <1>3 DEF ContractKept

(* Every step is a step of the contract, or hidden from the callers. *)
LEMMA NextContract ==
  ASSUME LoopInv, HistoryInv, ContractInv, [Next]_vars
  PROVE  ContractKept
<1>1. ASSUME NEW r \in Runs, Driver(r)
      PROVE  ContractKept
  <2>1. CASE Pause(r)
    <3>1. /\ Finish(r, "paused") /\ pc[r] \in InnerPhases \ {"execute"} /\ r \notin cancelled
          /\ paused /\ UNCHANGED <<executed, cancelled, dropped, paused, kernel>>
      BY <2>1 DEF Pause, At, InnerPhases, signals, observed
    <3>2. QED
      BY <3>1, LeaveContract
  <2>2. CASE ObserveCancel(r) \/ Fail(r)
    <3>1. /\ Finish(r, "failed") /\ pc[r] \in InnerPhases
          /\ UNCHANGED <<executed, cancelled, dropped, paused, kernel>>
      BY <2>2 DEF ObserveCancel, Fail, signals, observed
    <3>2. QED
      BY <3>1, LeaveContract
  <2>3. QED
    BY <1>1, <2>1, <2>2, SpawnDriverContract, TurnContract, DispatchToolContract,
       AppendMessageContract, ResolveToolContract, FinalContract, SendTerminalContract DEF Driver
<1>2. ASSUME NEW r \in Runs, Consumer(r)
      PROVE  ContractKept
  BY <1>2, TokenContract, AbortDroppedContract DEF Consumer
<1>3. ASSUME NEW s \in Sessions, Commands(s)
      PROVE  ContractKept
  BY <1>3, QuietContract
     DEF Commands, DispatchCommand, CompactRead, CompactWrite, RecordRead, RecordWrite, signals,
         observed
<1>4. CASE Shutdown \/ Reboot
  BY <1>4, BeginShutdownContract, EndOfProcessContract DEF Shutdown
<1>5. CASE UNCHANGED vars
  BY <1>5, QuietContract DEF vars, signals, observed
<1>6. QED
  BY <1>1, <1>2, <1>3, <1>4, <1>5 DEF Next

(* No run has begun. *)
LEMMA InitContract ==
  ASSUME Init
  PROVE  Contract!Init /\ ContractInv
<1>1. /\ \A r \in Runs : Stage(pc[r]) = "idle" /\ ExecutedBy(r) = {}
      /\ Gate = "open"
  BY StageValues DEF Init, ExecutedBy, Gate
<1>2. Contract!Init
  BY <1>1 DEF Init, Contract!Init
<1>3. ContractInv
  BY <1>1 DEF Init, ContractInv, Behind
<1>4. QED
  BY <1>2, <1>3

(* Kernel runs implement AgentRun, for any number of runs, sessions, turns, *)
(* calls, cancels, shutdowns and restarts: run_streaming, drive_stream,     *)
(* stream_tool_call, abort_after_grace and shutdown_with_pause together     *)
(* keep what is promised to those who start runs.                           *)
THEOREM RunsImplementAgentRun == Spec => ImplementsAgentRun
<1>1. Init => Contract!Init /\ ContractInv
  BY InitContract
<1>2. LoopInv /\ HistoryInv /\ ContractInv /\ [Next]_vars
        => ContractInv' /\ [Contract!Next]_(Contract!vars)
  BY NextContract DEF ContractKept, ContractStep
<1>3. TypeOK /\ ControlInv => LoopInv
  BY DEF LoopInv
<1>4. QED
  BY <1>1, <1>2, <1>3, TypesHold, HistoryInvHolds, PTL DEF Spec, ImplementsAgentRun, Contract!Spec
==============================================================================
