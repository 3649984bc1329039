----------------------------- MODULE SessionRuns -----------------------------
(***************************************************************************)
(* Kernel runs over persisted sessions: crabgent-core's run loop and        *)
(* shutdown, with the hooks that touch the message log (crabgent-session    *)
(* SessionPersistHook, crabgent-hook-compact, crabgent-hook-inject) and the *)
(* session store they share.                                                *)
(*                                                                          *)
(* A run loads the stored history of its session, replays it and its own    *)
(* prompt into its log one message at a time, and then takes turns: compact *)
(* the log, send it to a provider, append the answer, execute the tool      *)
(* calls of the answer.  After every message that is user or system input   *)
(* the whole log is written to the store.  Cancellation drops the loop at   *)
(* any await, a pause stops it at a turn or between two tool calls, and     *)
(* on_stop writes what the outcome allows to keep.  A completed run then    *)
(* copies the messages it sent to other conversations into their sessions.  *)
(*                                                                          *)
(* The channel inbox starts one run at a time per conversation (module      *)
(* ChannelInbox), so two runs of a session do not overlap; the fan-out of a *)
(* run on another session does, and so do slash commands, which the inbox   *)
(* decorator of crabgent-command answers while a run goes on: /compact and  *)
(* the recording of a command's exchange.                                   *)
(***************************************************************************)
EXTENDS Transcript, Functions

CONSTANTS
  Runs,         \* run ids
  Sessions,     \* stored sessions, one per conversation
  SessionOf,    \* the session of each run
  MaxTurns,     \* max_turns
  MaxAttempts,  \* resolved models: the primary and its fallbacks
  MaxMessages,  \* max_messages: a longer log is compacted
  KeepRecent,   \* keep_recent_messages
  MaxBatch,     \* bound: tool calls in one response of each run
  Budgets       \* bound: how often each event may happen, see BudgetType

(* What happens to the runs in a behaviour is limited by the budget it      *)
(* starts with: runs started, attachments, notifications and provider       *)
(* blocks, fallbacks to another model, injected messages, tokens fired and  *)
(* streams dropped by callers, slash commands, failed store operations,     *)
(* shutdowns, and crashes or restarts of the process.                       *)
BudgetType == [starts : Nat, extras : Nat, fallbacks : Nat, injects : Nat, cancels : Nat,
               commands : Nat, faults : Nat, shutdowns : Nat, reboots : Nat]

ASSUME SessionAssumption ==
  /\ SessionOf \in [Runs -> Sessions]
  /\ MaxTurns \in Nat \ {0} /\ MaxAttempts \in Nat \ {0}
  /\ {MaxMessages, KeepRecent} \subseteq Nat
  /\ MaxBatch \in [Runs -> Nat]
  /\ Budgets \subseteq BudgetType

VARIABLES
  store,      \* SessionStore: the messages of each session
  archive,    \* SessionStore: the messages archived from each session
  pc,         \* where the driver task of each run stands
  loop,       \* the locals of drive_inner, see NoLoop
  opened,     \* runs with an entry in SessionPersistHook.state
  cached,     \* SessionPersistHook.state: session.messages of the run
  snapshot,   \* SessionPersistHook.safe_messages
  muted,      \* CompactHook.muted_runs
  pending,    \* InjectionRegistry: messages queued for each run
  outcome,    \* Outcome of each run, as far as on_stop tells them apart
  fan,        \* the messages the fan-out of a run has not looked at yet
  copy,       \* the target session the fan-out of a run has read
  cancelled,  \* runs whose cancel token fired
  dropped,    \* runs whose RunStream was dropped by its consumer
  kernel,     \* progress of shutdown_with_pause
  paused,     \* the kernel's pause token fired
  command,    \* the slash command of each session, see NoCommand
  budget      \* what may still happen, see Budgets

(* Observability variables: they record history and guard no action. *)
VARIABLES
  history,    \* the history each run loaded, until it has replayed it
  ready,      \* runs that have replayed it and got to their first turn
  executed,   \* tool calls that ran to completion
  recorded,   \* slash commands whose exchange was written
  arrived,    \* messages a fan-out has written to the session they were sent to
  tainted     \* sessions where a write failed, or two writers overlapped

stores   == <<store, archive>>
hooks    == <<opened, cached, snapshot, muted, pending>>
fanout   == <<fan, copy>>
signals  == <<cancelled, dropped, kernel, paused>>
observed == <<history, ready, executed, recorded, arrived, tainted>>
vars     == <<stores, pc, loop, hooks, outcome, fanout, signals, command, budget, observed>>

------------------------------------------------------------------------------
(* State *)

(* InnerPhases: inside drive_inner, where cancellation drops the future.    *)
(* FinalPhases: finish_success and finish_error, which only an abort stops. *)
InnerPhases == {"start", "replay", "turn", "summarize", "request", "llm",
                "answer", "tool", "execute", "resolve"}
FinalPhases == {"stop", "fan", "fanwrite", "send"}
LivePhases  == InnerPhases \cup FinalPhases
EndPhases   == {"sent", "killed", "refused"}

Live(r) == pc[r] \in LivePhases
LiveRuns == {r \in Runs : Live(r)}

(* Runs whose hook entry holds the messages of session s. *)
Holders(s) == {r \in opened : SessionOf[r] = s /\ Live(r)}

(* The locals of drive_inner: the MessageLog, the messages about to be      *)
(* appended to it, the tool calls of the response that are not dispatched   *)
(* yet, the turns completed, the index of the provider attempt, and the     *)
(* calls it has streamed (StreamAccum.tool_calls).                          *)
NoLoop == [log |-> <<>>, todo |-> <<>>, batch |-> <<>>, turn |-> 0, attempt |-> 1, accum |-> <<>>]

(* Where dispatch_command stands, and the session it has read.              *)
NoCommand == [at |-> "none", nth |-> 0, read |-> <<>>]

CallIds == Runs \X Nat \X Nat \X Nat

(* The calls of one response, all streamed by one provider attempt.         *)
Responses == {calls \in Seq(CallIds) : \A i, j \in DOMAIN calls : calls[i][3] = calls[j][3]}

(* Calls of one response: the same turn of the same run. *)
SameResponse(c, d) == c[1] = d[1] /\ c[2] = d[2]

(* The messages of a log.  An injected message is never in one.             *)
Messages ==
       [kind : {"user"}, run : Runs]
  \cup [kind : {"attachment", "notify", "result", "interrupted"}, call : CallIds]
  \cup [kind : {"summary"}]
  \cup [kind : {"command"}, nth : Nat]
  \cup [kind : {"assistant"}, calls : Responses]
  \cup [kind : {"outbound"}, call : CallIds, to : Sessions]
  \cup [kind : {"block"}, run : Runs, turn : Nat]

Loops == [log : Seq(Messages), todo : Seq(Messages), batch : Responses, turn : Nat,
          attempt : Nat, accum : Responses]

Outcomes == {"none", "completed", "paused", "failed"}

TypeOK ==
  /\ store \in [Sessions -> Seq(Messages)]
  /\ archive \in [Sessions -> SUBSET Messages]
  /\ pc \in [Runs -> {"idle"} \cup LivePhases \cup EndPhases]
  /\ loop \in [Runs -> Loops]
  /\ opened \subseteq Runs
  /\ cached \in [Runs -> Seq(Messages)]
  /\ snapshot \in [Runs -> Seq(Messages)]
  /\ muted \subseteq Runs
  /\ pending \in [Runs -> Seq([kind : {"injected"}, nth : Nat])]
  /\ outcome \in [Runs -> Outcomes]
  /\ fan \in [Runs -> Seq(Messages)]
  /\ copy \in [Runs -> Seq(Messages)]
  /\ cancelled \subseteq Runs
  /\ dropped \subseteq Runs
  /\ kernel \in {"up", "pausing", "draining", "down"}
  /\ paused \in BOOLEAN
  /\ command \in [Sessions -> [at : {"none", "compact", "record", "save"}, nth : Nat,
                               read : Seq(Messages)]]
  /\ budget \in BudgetType
  /\ history \in [Runs -> Seq(Messages)]
  /\ ready \subseteq Runs
  /\ executed \subseteq CallIds
  /\ recorded \subseteq Sessions \X Nat
  /\ arrived \subseteq Messages
  /\ tainted \subseteq Sessions

Init ==
  /\ store = [s \in Sessions |-> <<>>]
  /\ archive = [s \in Sessions |-> {}]
  /\ pc = [r \in Runs |-> "idle"]
  /\ loop = [r \in Runs |-> NoLoop]
  /\ opened = {}
  /\ cached = [r \in Runs |-> <<>>]
  /\ snapshot = [r \in Runs |-> <<>>]
  /\ muted = {}
  /\ pending = [r \in Runs |-> <<>>]
  /\ outcome = [r \in Runs |-> "none"]
  /\ fan = [r \in Runs |-> <<>>]
  /\ copy = [r \in Runs |-> <<>>]
  /\ cancelled = {}
  /\ dropped = {}
  /\ kernel = "up"
  /\ paused = FALSE
  /\ command = [s \in Sessions |-> NoCommand]
  /\ budget \in Budgets
  /\ history = [r \in Runs |-> <<>>]
  /\ ready = {}
  /\ executed = {}
  /\ recorded = {}
  /\ arrived = {}
  /\ tainted = {}

------------------------------------------------------------------------------
(* Helpers *)

Goto(r, p) == pc' = [pc EXCEPT ![r] = p]

Spend(event, n) ==
  /\ budget[event] >= n
  /\ budget' = [budget EXCEPT ![event] = @ - n]

Fault == Spend("faults", 1)

(* save_messages: written, or failed and only logged. *)
Save(s, msgs) ==
  \/ /\ store' = [store EXCEPT ![s] = msgs]
     /\ UNCHANGED <<budget, tainted>>
  \/ /\ Fault
     /\ tainted' = tainted \cup {s}
     /\ UNCHANGED store

(* drive_inner returns; finish_success or finish_error goes on. *)
Finish(r, how) ==
  /\ Goto(r, "stop")
  /\ outcome' = [outcome EXCEPT ![r] = how]
  /\ loop' = [loop EXCEPT ![r] = NoLoop]

(* Every poll of drive_stream looks at the token before it polls            *)
(* drive_inner.  A token that fires during a poll is seen by the next one,  *)
(* so what that poll still does counts as before the token.                 *)
At(r, p) == pc[r] = p /\ r \notin cancelled

------------------------------------------------------------------------------
(* Starting a run *)

(* The other runs of the session of r that still run. *)
Overlapping(r) == {q \in LiveRuns \ {r} : SessionOf[q] = SessionOf[r]}

(* Mutant: the driver is spawned whether the kernel shuts down or not. *)
SpawnDriver_Late(r) ==
  /\ pc[r] = "idle"
  /\ \A q \in Overlapping(r) : q \in cancelled /\ pc[q] \in FinalPhases
  /\ Spend("starts", 1)
  /\ Goto(r, "start")
  /\ UNCHANGED <<stores, loop, hooks, outcome, fanout, signals, command, observed>>

(* run_streaming: the shutdown token is read under the lock of the JoinSet. *)
(* A stop message frees the conversation before the run it cancels is gone; *)
(* that run does nothing more until it has seen the token.                  *)
SpawnDriver(r) ==
  /\ pc[r] = "idle"
  /\ \A q \in Overlapping(r) : q \in cancelled /\ pc[q] \in FinalPhases
  /\ Spend("starts", 1)
  /\ Goto(r, IF kernel \in {"up", "pausing"} THEN "start" ELSE "refused")
  /\ UNCHANGED <<stores, loop, hooks, outcome, fanout, signals, command, observed>>

(* on_session_start, then on_user_prompt_submit: the stored history goes in *)
(* front of the prompt.  Without a session the run is not persisted.        *)
OpenSession(r) ==
  LET s == SessionOf[r]
  IN  /\ At(r, "start")
      /\ Goto(r, "replay")
      /\ \/ /\ opened' = opened \cup {r}
            /\ cached' = [cached EXCEPT ![r] = store[s]]
            /\ snapshot' = [snapshot EXCEPT ![r] = store[s]]
            /\ loop' = [loop EXCEPT ![r].todo = Append(store[s], User(r))]
            /\ history' = [history EXCEPT ![r] = store[s]]
            /\ tainted' = IF Holders(s) = {} THEN tainted ELSE tainted \cup {s}
            /\ UNCHANGED budget
         \/ /\ Fault
            /\ loop' = [loop EXCEPT ![r].todo = <<User(r)>>]
            /\ tainted' = tainted \cup {s}
            /\ UNCHANGED <<opened, cached, snapshot, history>>
      /\ UNCHANGED <<stores, muted, pending, outcome, fanout, signals, command, ready, executed,
                     recorded, arrived>>

------------------------------------------------------------------------------
(* MessageLog::append, and SessionPersistHook::on_message on every message  *)

(* Where drive_inner goes after the last of them: to the first turn, to the *)
(* first tool call or out with the final text, to the next tool call, the   *)
(* next turn or out of turns.                                               *)
AfterAppends(r) ==
  CASE pc[r] = "replay" -> "turn"
    [] pc[r] = "answer" -> IF loop[r].batch = <<>> THEN "stop" ELSE "tool"
    [] pc[r] = "resolve" ->
         IF loop[r].batch # <<>> THEN "tool"
         ELSE IF loop[r].turn + 1 < MaxTurns THEN "turn" ELSE "stop"

AppendMessage(r) ==
  LET log  == Append(loop[r].log, Head(loop[r].todo))
      done == Len(loop[r].todo) = 1
      next == AfterAppends(r)
      appended == [loop[r] EXCEPT !.log = log, !.todo = Tail(@)]
  IN  /\ \E p \in {"replay", "answer", "resolve"} : At(r, p)
      /\ cached' = IF r \in opened THEN [cached EXCEPT ![r] = log] ELSE cached
      /\ IF r \in opened /\ is_error_safe_log(log)
         THEN /\ snapshot' = [snapshot EXCEPT ![r] = log]
              /\ Save(SessionOf[r], log)
         ELSE UNCHANGED <<snapshot, store, budget, tainted>>
      /\ \/ /\ ~done
            /\ loop' = [loop EXCEPT ![r] = appended]
            /\ UNCHANGED <<pc, outcome>>
         \/ /\ done /\ next = "stop"
            /\ Finish(r, "completed")
         \/ /\ done /\ next # "stop"
            /\ Goto(r, next)
            /\ loop' = [loop EXCEPT ![r] =
                          [appended EXCEPT !.turn = IF pc[r] = "resolve" /\ next = "turn"
                                                    THEN @ + 1 ELSE @]]
            /\ UNCHANGED outcome
      /\ ready' = IF done THEN ready \cup {r} ELSE ready
      /\ history' = IF done THEN [history EXCEPT ![r] = <<>>] ELSE history
      /\ UNCHANGED <<archive, opened, muted, pending, fanout, signals, command, executed,
                     recorded, arrived>>

------------------------------------------------------------------------------
(* One turn *)

(* check_pause: at the start of a turn, and between two tool calls. *)
Pause(r) ==
  /\ At(r, "turn") \/ At(r, "tool")
  /\ paused
  /\ Finish(r, "paused")
  /\ UNCHANGED <<stores, hooks, fanout, signals, command, budget, observed>>

MustCompact(msgs) == Len(msgs) > MaxMessages /\ HasPlan(msgs, KeepRecent)

(* Mutant: the messages are cut without being archived. *)
BeginTurn_NoArchive(r) ==
  /\ At(r, "turn")
  /\ ~paused
  /\ Goto(r, IF MustCompact(loop[r].log) /\ r \notin muted THEN "summarize" ELSE "request")
  /\ UNCHANGED <<stores, loop, hooks, outcome, fanout, signals, command, budget, observed>>

(* CompactHook::pre_compact up to the archive: if that fails the run goes   *)
(* on with its whole log, and does not try again.                           *)
BeginTurn(r) ==
  /\ At(r, "turn")
  /\ ~paused
  /\ IF MustCompact(loop[r].log) /\ r \notin muted
     THEN \/ /\ Goto(r, "summarize")
             /\ archive' = IF r \in opened
                           THEN [archive EXCEPT ![SessionOf[r]] =
                                   @ \cup ToSet(Compacted(loop[r].log, KeepRecent))]
                           ELSE archive
             /\ UNCHANGED <<muted, budget>>
          \/ /\ r \in opened
             /\ Fault
             /\ muted' = muted \cup {r}
             /\ Goto(r, "request")
             /\ UNCHANGED archive
     ELSE /\ Goto(r, "request")
          /\ UNCHANGED <<archive, muted, budget>>
  /\ UNCHANGED <<store, loop, opened, cached, snapshot, pending, outcome, fanout, signals,
                 command, observed>>

(* The summary is written, and its window takes the place of the log; or    *)
(* no model of the chain answers and the run keeps its log from now on.     *)
Summarize(r) ==
  /\ At(r, "summarize")
  /\ Goto(r, "request")
  /\ \/ /\ loop' = [loop EXCEPT ![r].log = CompactedLog(@, KeepRecent)]
        /\ UNCHANGED muted
     \/ /\ muted' = muted \cup {r}
        /\ UNCHANGED loop
  /\ UNCHANGED <<stores, opened, cached, snapshot, pending, outcome, fanout, signals, command,
                 budget, observed>>

(* The request of a turn, as the provider gets it. *)
LlmRequest(r) == project_conversation(Splice(loop[r].log, pending[r]))

(* bind_run_surface from apply_before_llm on, and the first open_stream. *)
SendRequest(r) ==
  /\ At(r, "request")
  /\ Goto(r, "llm")
  /\ pending' = [pending EXCEPT ![r] = <<>>]
  /\ loop' = [loop EXCEPT ![r].attempt = 1, ![r].accum = <<>>]
  /\ UNCHANGED <<stores, opened, cached, snapshot, muted, outcome, fanout, signals, command,
                 budget, observed>>

(* ProviderEvent::ToolUse. *)
StreamToolUse(r) ==
  /\ At(r, "llm")
  /\ Len(loop[r].accum) < MaxBatch[r]
  /\ loop' = [loop EXCEPT ![r].accum =
                Append(@, <<r, loop[r].turn, loop[r].attempt, Len(@) + 1>>)]
  /\ UNCHANGED <<stores, pc, hooks, outcome, fanout, signals, command, budget, observed>>

(* Mutant: what the failed attempt streamed is kept. *)
FallBack_KeepAccum(r) ==
  /\ At(r, "llm")
  /\ loop[r].attempt < MaxAttempts
  /\ Spend("fallbacks", 1)
  /\ loop' = [loop EXCEPT ![r].attempt = @ + 1]
  /\ UNCHANGED <<stores, pc, hooks, outcome, fanout, signals, command, observed>>

(* open_stream or the stream itself fails with an error the next model may  *)
(* not have: retry_pump_with_fallbacks, reset_for_retry.                    *)
FallBack(r) ==
  /\ At(r, "llm")
  /\ loop[r].attempt < MaxAttempts
  /\ Spend("fallbacks", 1)
  /\ loop' = [loop EXCEPT ![r].attempt = @ + 1, ![r].accum = <<>>]
  /\ UNCHANGED <<stores, pc, hooks, outcome, fanout, signals, command, observed>>

(* The stream ends: apply_provider_response.  A server tool may have left a *)
(* block to be replayed.                                                    *)
EndResponse(r) ==
  LET calls == loop[r].accum
  IN  /\ At(r, "llm")
      /\ Goto(r, "answer")
      /\ \E blocks \in {<<>>, <<ProviderBlock(r, loop[r].turn)>>} :
           /\ Spend("extras", Len(blocks))
           /\ loop' = [loop EXCEPT ![r].todo = Append(blocks, Assistant(calls)),
                                   ![r].batch = calls, ![r].accum = <<>>]
      /\ UNCHANGED <<stores, hooks, outcome, fanout, signals, command, observed>>

------------------------------------------------------------------------------
(* stream_tool_call *)

DispatchTool(r) ==
  /\ At(r, "tool")
  /\ ~paused
  /\ Goto(r, "execute")
  /\ UNCHANGED <<stores, loop, hooks, outcome, fanout, signals, command, budget, observed>>

(* The tool returns, or its error is turned into a result.  A tool that     *)
(* looks at a file hands back an attachment, one that sends a message a     *)
(* record of it.                                                            *)
ResolveTool(r) ==
  LET c == Head(loop[r].batch)
      handed == {<<>>, <<Attachment(c)>>} \cup {<<ChannelOutbound(c, s)>> : s \in Sessions}
  IN  /\ At(r, "execute")
      /\ Goto(r, "resolve")
      /\ \E x \in handed :
           /\ Spend("extras", Len(x))
           /\ loop' = [loop EXCEPT ![r].todo = <<ToolResult(c)>> \o x, ![r].batch = Tail(@)]
      /\ executed' = executed \cup {c}
      /\ UNCHANGED <<stores, hooks, outcome, fanout, signals, command, history, ready,
                     recorded, arrived, tainted>>

------------------------------------------------------------------------------
(* Leaving the loop *)

(* The biased select of drive_stream drops drive_inner where it waits. *)
ObserveCancel(r) ==
  /\ pc[r] \in InnerPhases
  /\ r \in cancelled
  /\ Finish(r, "failed")
  /\ UNCHANGED <<stores, hooks, fanout, signals, command, budget, observed>>

(* A policy or a hook denies, or no fallback is left, or a tool error is    *)
(* fatal.                                                                   *)
Fail(r) ==
  /\ pc[r] \in InnerPhases
  /\ r \notin cancelled
  /\ Finish(r, "failed")
  /\ UNCHANGED <<stores, hooks, fanout, signals, command, budget, observed>>

------------------------------------------------------------------------------
(* on_stop *)

(* Mutant: a paused run is cut like a cancelled one. *)
KeptLog_PausedIsCut(r) ==
  IF outcome[r] = "completed" THEN cached[r]
  ELSE longest_safe_prefix(snapshot[r], cached[r])

(* Mutant: whatever the outcome, the log is stored as it is. *)
KeptLog_AsIs(r) == cached[r]

(* What the outcome of a run allows to keep. *)
KeptLog(r) ==
  CASE outcome[r] = "paused" -> repaired_paused_log(cached[r])
    [] outcome[r] = "failed" -> longest_safe_prefix(snapshot[r], cached[r])
    [] outcome[r] = "completed" -> cached[r]

OnStop(r) ==
  /\ pc[r] = "stop"
  /\ opened' = opened \ {r}
  /\ cached' = [cached EXCEPT ![r] = <<>>]
  /\ snapshot' = [snapshot EXCEPT ![r] = <<>>]
  /\ muted' = muted \ {r}
  /\ pending' = [pending EXCEPT ![r] = <<>>]
  /\ IF r \in opened
     THEN /\ Save(SessionOf[r], KeptLog(r))
          /\ fan' = [fan EXCEPT ![r] = IF outcome[r] = "completed" THEN cached[r] ELSE <<>>]
          /\ Goto(r, "fan")
     ELSE /\ Goto(r, "send")
          /\ UNCHANGED <<store, fan, budget, tainted>>
  /\ UNCHANGED <<archive, loop, outcome, copy, signals, command, history, ready, executed,
                 recorded, arrived>>

(* A message run r has sent to another conversation than its own.           *)
IsForeign(r, m) == m.kind = "outbound" /\ m.to # SessionOf[r]

(* The position of the next of them.                                        *)
NextForeign(r, n) ==
  /\ IsForeign(r, fan[r][n])
  /\ \A i \in 1 .. n - 1 : ~IsForeign(r, fan[r][i])

(* Mutant: the target is not searched for the message. *)
ReadTarget_Always(r) ==
  /\ pc[r] = "fan"
  /\ \E n \in DOMAIN fan[r] :
       /\ NextForeign(r, n)
       /\ copy' = [copy EXCEPT ![r] = store[fan[r][n].to]]
       /\ fan' = [fan EXCEPT ![r] = SubSeq(@, n, Len(@))]
       /\ Goto(r, "fanwrite")
  /\ UNCHANGED <<stores, loop, hooks, outcome, signals, command, budget, observed>>

(* append_outbound_to_conv: find_or_create on the target, and nothing more  *)
(* if that fails or the message is already there.                           *)
ReadTarget(r) ==
  /\ pc[r] = "fan"
  /\ \E n \in DOMAIN fan[r] :
       LET out == fan[r][n]
           rest == SubSeq(fan[r], n + 1, Len(fan[r]))
       IN  /\ NextForeign(r, n)
           /\ \/ /\ Fault
                 /\ tainted' = tainted \cup {out.to}
                 /\ fan' = [fan EXCEPT ![r] = rest]
                 /\ UNCHANGED <<pc, copy>>
              \/ /\ out \in ToSet(store[out.to])
                 /\ fan' = [fan EXCEPT ![r] = rest]
                 /\ UNCHANGED <<pc, copy, budget, tainted>>
              \/ /\ out \notin ToSet(store[out.to])
                 /\ copy' = [copy EXCEPT ![r] = store[out.to]]
                 /\ fan' = [fan EXCEPT ![r] = <<out>> \o rest]
                 /\ Goto(r, "fanwrite")
                 /\ UNCHANGED <<budget, tainted>>
  /\ UNCHANGED <<stores, loop, hooks, outcome, signals, command, history, ready, executed,
                 recorded, arrived>>

(* A write of a session that was read before: it overlaps another writer if *)
(* the session has changed since, or a run holds it.                        *)
Overwritten(s, read, msgs) ==
  /\ store' = [store EXCEPT ![s] = msgs]
  /\ tainted' = IF store[s] = read /\ Holders(s) = {} THEN tainted ELSE tainted \cup {s}
  /\ UNCHANGED budget

Overwrite(s, read, msgs) ==
  \/ Overwritten(s, read, msgs)
  \/ /\ Fault
     /\ tainted' = tainted \cup {s}
     /\ UNCHANGED store

WriteTarget(r) ==
  LET out  == Head(fan[r])
      msgs == copy[r] \o <<out, NotifyRecord(out)>>
  IN  /\ pc[r] = "fanwrite"
      /\ Overwrite(out.to, copy[r], msgs)
      /\ arrived' = IF store'[out.to] = msgs THEN arrived \cup {out} ELSE arrived
      /\ fan' = [fan EXCEPT ![r] = Tail(@)]
      /\ copy' = [copy EXCEPT ![r] = <<>>]
      /\ Goto(r, "fan")
      /\ UNCHANGED <<archive, loop, hooks, outcome, signals, command, history, ready, executed,
                     recorded>>

(* The terminal item of the stream comes after every on_stop callback. *)
SendTerminal(r) ==
  /\ \/ pc[r] = "send"
     \/ pc[r] = "fan" /\ \A m \in ToSet(fan[r]) : ~IsForeign(r, m)
  /\ Goto(r, "sent")
  /\ fan' = [fan EXCEPT ![r] = <<>>]
  /\ cancelled' = cancelled \ {r}
  /\ dropped' = dropped \ {r}
  /\ UNCHANGED <<stores, loop, hooks, outcome, copy, kernel, paused, command, budget, observed>>

------------------------------------------------------------------------------
(* Other tasks of the process *)

(* The caller's token, or a hook, cancels the run. *)
CancelRun(r) ==
  /\ Live(r)
  /\ r \notin cancelled
  /\ Spend("cancels", 1)
  /\ cancelled' = cancelled \cup {r}
  /\ UNCHANGED <<stores, pc, loop, hooks, outcome, fanout, dropped, kernel, paused, command,
                 observed>>

(* RunStream::drop. *)
DropStream(r) ==
  /\ Live(r)
  /\ r \notin dropped
  /\ Spend("cancels", 1)
  /\ dropped' = dropped \cup {r}
  /\ cancelled' = cancelled \cup {r}
  /\ UNCHANGED <<stores, pc, loop, hooks, outcome, fanout, kernel, paused, command, observed>>

(* InjectionRegistry::submit. *)
Inject(r) ==
  /\ Live(r)
  /\ Spend("injects", 1)
  /\ pending' = [pending EXCEPT ![r] = Append(@, Injected(budget.injects))]
  /\ UNCHANGED <<stores, pc, loop, opened, cached, snapshot, muted, outcome, fanout, signals,
                 command, observed>>

(* CommandDispatchInbox::dispatch_command: every command but /compact       *)
(* leaves the session alone until its exchange is recorded.  It runs in the *)
(* task of the adapter and does not ask whether the kernel shuts down.      *)
DispatchCommand(s) ==
  /\ command[s].at = "none"
  /\ Spend("commands", 1)
  /\ command' = [command EXCEPT ![s] = [at |-> "record", nth |-> budget.commands, read |-> <<>>]]
  /\ UNCHANGED <<stores, pc, loop, hooks, outcome, fanout, signals, observed>>

(* /compact, CompactHook::compact_session: load and archive... *)
CompactRead(s) ==
  /\ command[s].at = "none"
  /\ Spend("commands", 1)
  /\ MustCompact(store[s])
  /\ command' = [command EXCEPT ![s] = [at |-> "compact", nth |-> budget.commands, read |-> store[s]]]
  /\ archive' = [archive EXCEPT ![s] = @ \cup ToSet(Compacted(store[s], KeepRecent))]
  /\ UNCHANGED <<store, pc, loop, hooks, outcome, fanout, signals, observed>>

(* ...and, if a summary could be made, save.  A command whose save or reply *)
(* fails ends with an error reply and is not recorded.                      *)
CompactWrite(s) ==
  /\ command[s].at = "compact"
  /\ \/ /\ Overwrite(s, command[s].read, CompactedLog(command[s].read, KeepRecent))
        /\ command' = [command EXCEPT ![s] = NoCommand]
     \/ /\ \/ Overwritten(s, command[s].read, CompactedLog(command[s].read, KeepRecent))
           \/ UNCHANGED <<store, budget, tainted>>
        /\ command' = [command EXCEPT ![s].at = "record", ![s].read = <<>>]
  /\ UNCHANGED <<archive, pc, loop, hooks, outcome, fanout, signals, history, ready,
                 executed, recorded, arrived>>

(* record_success: load the session... *)
RecordRead(s) ==
  /\ command[s].at = "record"
  /\ \/ /\ command' = [command EXCEPT ![s].at = "save", ![s].read = store[s]]
        /\ UNCHANGED budget
     \/ /\ Fault
        /\ command' = [command EXCEPT ![s] = NoCommand]
  /\ UNCHANGED <<stores, pc, loop, hooks, outcome, fanout, signals, observed>>

(* ...and save it with the command and its reply at the end, whatever was   *)
(* written in between.                                                      *)
RecordWrite(s) ==
  LET c == command[s]
      msgs == c.read \o <<CommandInput(c.nth), Assistant(<<>>)>>
  IN  /\ c.at = "save"
      /\ Overwrite(s, c.read, msgs)
      /\ recorded' = IF store'[s] = msgs THEN recorded \cup {<<s, c.nth>>} ELSE recorded
      /\ command' = [command EXCEPT ![s] = NoCommand]
      /\ UNCHANGED <<archive, pc, loop, hooks, outcome, fanout, signals, history, ready, executed,
                     arrived>>

------------------------------------------------------------------------------
(* Shutdown, crash, restart *)

(* The driver tasks in rs are gone; the entries of the hooks stay behind. *)
Kill(rs) ==
  /\ pc' = [r \in Runs |-> IF r \in rs THEN "killed" ELSE pc[r]]
  /\ loop' = [r \in Runs |-> IF r \in rs THEN NoLoop ELSE loop[r]]
  /\ fan' = [r \in Runs |-> IF r \in rs THEN <<>> ELSE fan[r]]
  /\ copy' = [r \in Runs |-> IF r \in rs THEN <<>> ELSE copy[r]]
  /\ outcome' = [r \in Runs |-> IF r \in rs THEN "none" ELSE outcome[r]]

(* Mutant: the watchdog goes with the loop, on_stop is left to itself. *)
AbortDropped_InLoop(r) ==
  /\ r \in dropped
  /\ pc[r] \in InnerPhases
  /\ Kill({r})
  /\ cancelled' = cancelled \ {r}
  /\ dropped' = dropped \ {r}
  /\ UNCHANGED <<stores, hooks, kernel, paused, command, budget, observed>>

(* abort_after_grace. *)
AbortDropped(r) ==
  /\ r \in dropped
  /\ Live(r)
  /\ Kill({r})
  /\ cancelled' = cancelled \ {r}
  /\ dropped' = dropped \ {r}
  /\ UNCHANGED <<stores, hooks, kernel, paused, command, budget, observed>>

(* shutdown_with_pause fires the pause token and waits. *)
BeginPause ==
  /\ kernel = "up"
  /\ Spend("shutdowns", 1)
  /\ kernel' = "pausing"
  /\ paused' = TRUE
  /\ UNCHANGED <<stores, pc, loop, hooks, outcome, fanout, cancelled, dropped, command, observed>>

(* shutdown: called alone, or once no run is left or pause_grace is over.   *)
(* The token fires before the JoinSet is taken, so that every driver in it  *)
(* was spawned before and none comes after.                                 *)
BeginShutdown ==
  /\ kernel' = "draining"
  /\ \/ kernel = "up" /\ Spend("shutdowns", 1)
     \/ kernel = "pausing" /\ UNCHANGED budget
  /\ UNCHANGED <<stores, pc, loop, hooks, outcome, fanout, cancelled, dropped, paused, command,
                 observed>>

(* The watcher of a run, or its place under the shutdown token. *)
ForwardShutdown(r) ==
  /\ kernel = "draining"
  /\ Live(r)
  /\ r \notin cancelled
  /\ cancelled' = cancelled \cup {r}
  /\ UNCHANGED <<stores, pc, loop, hooks, outcome, fanout, dropped, kernel, paused, command, budget,
                 observed>>

(* Mutant: drain_set has no time limit. *)
FinishShutdown_NoAbort ==
  /\ kernel = "draining"
  /\ LiveRuns = {}
  /\ kernel' = "down"
  /\ Kill({})
  /\ cancelled' = {}
  /\ dropped' = {}
  /\ UNCHANGED <<stores, hooks, paused, command, budget, observed>>

(* drain_set returns, or the grace is over and abort_all ends what is left. *)
FinishShutdown ==
  /\ kernel = "draining"
  /\ kernel' = "down"
  /\ Kill(LiveRuns)
  /\ cancelled' = {}
  /\ dropped' = {}
  /\ UNCHANGED <<stores, hooks, paused, command, budget, observed>>

(* The process dies at any time, or exits after shutdown, and is started    *)
(* again: only the store is left.                                           *)
Reboot ==
  /\ Spend("reboots", 1)
  /\ Kill(LiveRuns)
  /\ opened' = {}
  /\ cached' = [r \in Runs |-> <<>>]
  /\ snapshot' = [r \in Runs |-> <<>>]
  /\ muted' = {}
  /\ pending' = [r \in Runs |-> <<>>]
  /\ cancelled' = {}
  /\ dropped' = {}
  /\ kernel' = "up"
  /\ paused' = FALSE
  /\ command' = [s \in Sessions |-> NoCommand]
  /\ UNCHANGED <<stores, observed>>

------------------------------------------------------------------------------
Driver(r) ==
  \/ SpawnDriver(r) \/ OpenSession(r) \/ AppendMessage(r)
  \/ Pause(r) \/ BeginTurn(r) \/ Summarize(r) \/ SendRequest(r)
  \/ StreamToolUse(r) \/ FallBack(r) \/ EndResponse(r)
  \/ DispatchTool(r) \/ ResolveTool(r)
  \/ ObserveCancel(r) \/ Fail(r)
  \/ OnStop(r) \/ ReadTarget(r) \/ WriteTarget(r) \/ SendTerminal(r)

Consumer(r) == CancelRun(r) \/ DropStream(r) \/ Inject(r) \/ AbortDropped(r) \/ ForwardShutdown(r)

Commands(s) == DispatchCommand(s) \/ CompactRead(s) \/ CompactWrite(s) \/ RecordRead(s) \/ RecordWrite(s)

Shutdown == BeginPause \/ BeginShutdown \/ FinishShutdown

Next ==
  \/ \E r \in Runs : Driver(r) \/ Consumer(r)
  \/ \E s \in Sessions : Commands(s)
  \/ Shutdown
  \/ Reboot

Spec == Init /\ [][Next]_vars

(* The runtime polls a driver whose token fired, timers go off, and the     *)
(* shutdown sequence goes on.  Nothing is assumed of providers, tools and   *)
(* the store: they may hang.                                                *)
FairSpec ==
  /\ Spec
  /\ \A r \in Runs : WF_vars(ObserveCancel(r)) /\ WF_vars(AbortDropped(r))
  /\ \A r \in Runs : WF_vars(ForwardShutdown(r))
  /\ WF_vars(kernel = "pausing" /\ BeginShutdown)
  /\ WF_vars(FinishShutdown)

------------------------------------------------------------------------------
(* Properties *)

(* What is left of session s: stored, or archived by a compaction. *)
Kept(s) == ToSet(store[s]) \cup archive[s]

(* No write of session s failed or overlapped another one, and every run    *)
(* that loaded a history has replayed it (see HistorySurvivesCancel).       *)
Calm(s) ==
  /\ s \notin tainted
  /\ \A r \in Runs : SessionOf[r] = s => history[r] = <<>>

(* A prompt a run has accepted, and a command that was recorded, stay in    *)
(* their session, whatever happens to the run, to later runs and to the     *)
(* process: record_messages stores the prompt before the first turn, and    *)
(* compaction archives before it cuts.                                      *)
AcceptedInputSurvives ==
  /\ \A r \in ready : Calm(SessionOf[r]) => User(r) \in Kept(SessionOf[r])
  /\ \A x \in recorded : Calm(x[1]) => CommandInput(x[2]) \in Kept(x[1])

(* The results of the tools a run has executed are kept when it completes,  *)
(* runs out of turns or is paused: side effects that happened stay in the   *)
(* history the next run resumes from.                                       *)
ExecutedWorkSurvives ==
  \A r \in Runs :
    pc[r] = "sent" /\ outcome[r] \in {"completed", "paused"} /\ Calm(SessionOf[r])
      => \A c \in executed : c[1] = r => ToolResult(c) \in Kept(SessionOf[r])

(* A stored history has no tool call without a result, however the run that *)
(* made it ended, unless an attachment cut the results of one response in   *)
(* two: the log then ends in user input in the middle of a batch.           *)
NoDanglingHistory ==
  \A s \in Sessions : \A c \in Dangling(store[s]) :
    \E m \in ToSet(store[s]) : m.kind = "attachment" /\ SameResponse(m.call, c)

(* Each tool call of a request has one result, which comes after the call.  *)
(* An injected message comes between them only behind what an earlier tool  *)
(* of the same response has handed back: the tail of the log breaks there.  *)
WellFormed(request) ==
  \A c \in CallsIn(request) \cup ResolvedIn(request) :
    \E i, j \in DOMAIN request :
      /\ i < j
      /\ \A n \in DOMAIN request : c \in CallsOf(request[n]) <=> n = i
      /\ \A n \in DOMAIN request : IsResult(request[n]) /\ request[n].call = c <=> n = j
      /\ \A n \in DOMAIN request : i < n /\ n < j /\ request[n].kind = "injected" =>
           \E k \in DOMAIN request :
             /\ i < k /\ k < n
             /\ request[k].kind \in {"attachment", "outbound"}
             /\ SameResponse(request[k].call, c)

(* Every request is well-formed, whatever pauses, cancellations,            *)
(* compactions and other writers did to the history it was made from.       *)
RequestsAreWellFormed ==
  \A r \in Runs : pc[r] = "request" => WellFormed(LlmRequest(r))

(* The calls of one response come from one provider attempt: a fallback     *)
(* that takes over a broken stream starts from nothing.                     *)
ResponsesComeFromOneAttempt ==
  \A r \in Runs : \A m \in ToSet(loop[r].log) : \A c, d \in CallsOf(m) : c[3] = d[3]

(* A message a completed run has sent to another conversation, and that its *)
(* own history still shows, is in the session of that conversation, and     *)
(* only once, however many runs fan it out again: each completed run scans  *)
(* its whole history.  A message that was compacted away before the run     *)
(* completed is in no history and is not fanned out.                        *)
NotifiesArriveOnce ==
  /\ \A r \in Runs :
       pc[r] = "sent" /\ outcome[r] = "completed" /\ Calm(SessionOf[r]) =>
         \A m \in ToSet(store[SessionOf[r]]) :
           m.kind = "outbound" /\ m.call[1] = r /\ m.to # SessionOf[r] /\ Calm(m.to)
             => m \in Kept(m.to)
  /\ \A s \in Sessions : \A i, j \in DOMAIN store[s] :
       store[s][i].kind = "outbound" /\ store[s][i] = store[s][j] => i = j

(* When shutdown has returned, no driver is running: a run is either in the *)
(* JoinSet that shutdown drains, or refused under the same lock.            *)
ShutdownLeavesNoDriver == kernel = "down" => LiveRuns = {}

(* A run whose token fired leaves the loop although its provider, its tool  *)
(* or the store hangs, and one whose stream was dropped ends although its   *)
(* on_stop hangs.                                                           *)
HungRunsEnd ==
  \A r \in Runs :
    /\ r \in cancelled /\ pc[r] \in InnerPhases ~> pc[r] \notin InnerPhases
    /\ r \in dropped ~> ~Live(r)

(* shutdown returns although every run hangs. *)
KernelShutdownReturns == kernel \in {"pausing", "draining"} ~> kernel \in {"down", "up"}

(* The claim of safe_prefix.rs: a cancelled or errored run stores at least  *)
(* the safe prefix of the history it started from, because its log only     *)
(* grows.  The replay of the history starts from an empty log.              *)
HistorySurvivesCancel ==
  \A r \in Runs :
    pc[r] = "sent" /\ outcome[r] = "failed" /\ Overlapping(r) = {}
      /\ SessionOf[r] \notin tainted
      => ToSet(safe_prefix(history[r])) \subseteq Kept(SessionOf[r])
------------------------------------------------------------------------------
(* The abstract specification *)

(* How far a run at p is, as those see it who started it. *)
Stage(p) ==
  CASE p = "idle" -> "idle"
    [] p = "execute" -> "calling"
    [] p \in InnerPhases \ {"execute"} -> "working"
    [] p \in FinalPhases -> "leaving"
    [] p \in EndPhases -> "ended"

Gate == CASE kernel \in {"up", "pausing"} -> "open"
          [] kernel = "draining" -> "closing"
          [] kernel = "down" -> "closed"

ExecutedBy(r) == {c \in executed : c[1] = r}

Contract == INSTANCE AgentRun WITH
  status <- [r \in Runs |-> Stage(pc[r])],
  did <- [r \in Runs |-> ExecutedBy(r)],
  pausing <- paused,
  gate <- Gate

(* Drivers, hooks, consumers, commands, shutdown and restarts together keep *)
(* what the kernel promises of a run: each call is executed once, none      *)
(* after the token, an outcome agrees with what was asked of the run, only  *)
(* cancelled runs are aborted, and a run is in the JoinSet that shutdown    *)
(* drains or refused under the same lock (run_streaming, drive_stream,      *)
(* abort_after_grace, shutdown_with_pause).                                 *)
ImplementsAgentRun == Contract!Spec
==============================================================================
