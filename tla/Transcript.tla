------------------------------ MODULE Transcript ------------------------------
(***************************************************************************)
(* The message log of a run and the functions that cut, repair, compact and *)
(* project it: crabgent-core message/tail.rs and provider_projection.rs,    *)
(* crabgent-session hook/safe_prefix.rs, crabgent-hook-compact              *)
(* compact_plan.rs, crabgent-hook-inject before_llm.                        *)
(*                                                                          *)
(* A message is a record with the kind its readers tell apart and the       *)
(* identity of what it holds; texts are left out.  A tool call is named by  *)
(* <<run, turn, attempt, k>>.                                               *)
(***************************************************************************)
EXTENDS Naturals, Sequences, FiniteSets, SequencesExt

(* The variants of Message.  A channel prompt, an attachment a tool hands   *)
(* back (vision_file), the record of a notification, a compaction summary,  *)
(* an injected message and a slash command are all Message::User.           *)
User(r)              == [kind |-> "user", run |-> r]
Attachment(c)        == [kind |-> "attachment", call |-> c]
NotifyRecord(out)    == [kind |-> "notify", call |-> out.call]
Summary              == [kind |-> "summary"]
Injected(i)          == [kind |-> "injected", nth |-> i]
CommandInput(i)      == [kind |-> "command", nth |-> i]
System(r)            == [kind |-> "system", run |-> r]
Assistant(calls)     == [kind |-> "assistant", calls |-> calls]
ToolResult(c)        == [kind |-> "result", call |-> c]
Interrupted(c)       == [kind |-> "interrupted", call |-> c]
ChannelOutbound(c, s) == [kind |-> "outbound", call |-> c, to |-> s]
ProviderBlock(r, t)  == [kind |-> "block", run |-> r, turn |-> t]

IsUser(m)   == m.kind \in {"user", "attachment", "notify", "summary", "injected", "command"}
IsInput(m)  == IsUser(m) \/ m.kind = "system"
IsResult(m) == m.kind \in {"result", "interrupted"}
HasCalls(m) == m.kind = "assistant" /\ m.calls # <<>>

CallsOf(m)     == IF m.kind = "assistant" THEN ToSet(m.calls) ELSE {}
CallsIn(msgs)  == UNION {CallsOf(m) : m \in ToSet(msgs)}
ResolvedIn(msgs) == {m.call : m \in {x \in ToSet(msgs) : IsResult(x)}}

(* The calls of a log that have no result in it. *)
Dangling(msgs) == CallsIn(msgs) \ ResolvedIn(msgs)

------------------------------------------------------------------------------
(* Session persistence: which part of a log may be stored.                  *)

is_error_safe_log(msgs) == msgs # <<>> /\ IsInput(Last(msgs))

(* rposition of the last user or system message, 0 if there is none. *)
LastInput(msgs) ==
  CHOOSE n \in 0..Len(msgs) :
    /\ n > 0 => IsInput(msgs[n])
    /\ \A i \in n + 1 .. Len(msgs) : ~IsInput(msgs[i])

safe_prefix(msgs) == SubSeq(msgs, 1, LastInput(msgs))

(* Every dangling call gets a synthetic error result at the end.  The order *)
(* of these results among themselves is left open.                          *)
repaired_paused_log(msgs) ==
  msgs \o SetToSeq({Interrupted(c) : c \in Dangling(msgs)})

longest_safe_prefix(snapshot, latest) ==
  IF Len(snapshot) > Len(safe_prefix(latest)) THEN snapshot ELSE safe_prefix(latest)

------------------------------------------------------------------------------
(* Compaction: where a log is cut.  Positions are those of the code: the    *)
(* number of messages before the cut.                                       *)

(* Where the results that lead up to position p begin. *)
GroupStart(msgs, p) ==
  CHOOSE n \in 0..p :
    /\ \A i \in n + 1 .. p : IsResult(msgs[i + 1])
    /\ n > 0 => ~IsResult(msgs[n + 1])

tool_result_group_boundary(msgs, proposed) ==
  IF proposed < Len(msgs) /\ IsResult(msgs[proposed + 1]) /\ HasCalls(msgs[GroupStart(msgs, proposed) + 1])
  THEN GroupStart(msgs, proposed)
  ELSE proposed

leading_system_count(msgs) ==
  CHOOSE n \in 0..Len(msgs) :
    /\ \A i \in 1..n : msgs[i].kind = "system"
    /\ n < Len(msgs) => msgs[n + 1].kind # "system"

(* CompactionPlan: messages before start are kept, the ones from start up   *)
(* to end are compacted, the ones after end are kept.                       *)
PlanStart(msgs) ==
  LET n == leading_system_count(msgs)
  IN  IF n < Len(msgs) /\ msgs[n + 1].kind = "summary" THEN n + 1 ELSE n

PlanEnd(msgs, keep) ==
  LET compactable == Len(msgs) - leading_system_count(msgs)
      recent == IF keep < compactable THEN keep ELSE compactable
  IN  tool_result_group_boundary(msgs, Len(msgs) - recent)

HasPlan(msgs, keep)   == PlanStart(msgs) < PlanEnd(msgs, keep)
Compacted(msgs, keep) == SubSeq(msgs, PlanStart(msgs) + 1, PlanEnd(msgs, keep))

(* The window pre_compact puts in the place of the log. *)
CompactedLog(msgs, keep) ==
  SubSeq(msgs, 1, PlanStart(msgs)) \o <<Summary>> \o
    SubSeq(msgs, PlanEnd(msgs, keep) + 1, Len(msgs))

------------------------------------------------------------------------------
(* The request a provider gets.                                             *)

is_unresolved_tail(m) == IsResult(m) \/ HasCalls(m)

unresolved_tail_boundary(msgs) ==
  CHOOSE n \in 0..Len(msgs) :
    /\ n > 0 => ~is_unresolved_tail(msgs[n])
    /\ \A i \in n + 1 .. Len(msgs) : is_unresolved_tail(msgs[i])

(* InjectHook::before_llm. *)
Splice(msgs, pending) ==
  LET b == unresolved_tail_boundary(msgs)
  IN  IF \E m \in ToSet(msgs) : IsUser(m)
      THEN SubSeq(msgs, 1, b) \o pending \o SubSeq(msgs, b + 1, Len(msgs))
      ELSE msgs \o pending

(* A message that is left out leaves a gap: the request is a function on    *)
(* the positions that are kept, in their order.                             *)

(* Mutant: calls without a result are sent as they are. *)
project_conversation_KeepCalls(msgs) ==
  LET kept(m) == IsResult(m) => m.call \in CallsIn(msgs)
  IN  RestrictValues(msgs, kept)

(* drop_orphan_tool_pairs: a call without a result and a result without a   *)
(* call are left out, and so is an assistant message that loses all its     *)
(* calls (it has no text of its own here).                                  *)
project_conversation(msgs) ==
  LET matched == CallsIn(msgs) \cap ResolvedIn(msgs)
      isMatched(c) == c \in matched
      kept(m) == /\ IsResult(m) => m.call \in matched
                 /\ HasCalls(m) => CallsOf(m) \cap matched # {}
      trimmed(m) == IF HasCalls(m) THEN Assistant(RestrictValues(m.calls, isMatched)) ELSE m
      request == RestrictValues(msgs, kept)
  IN  [i \in DOMAIN request |-> trimmed(request[i])]
==============================================================================
