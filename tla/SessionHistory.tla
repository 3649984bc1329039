--------------------------- MODULE SessionHistory ---------------------------
(***************************************************************************)
(* Why every log of SessionRuns can be sent to a provider: the inductive    *)
(* invariant behind the histories it stores and the requests it makes.      *)
(*                                                                          *)
(* A log only ever grows at its end, is cut to a prefix that ends in input, *)
(* or loses a front part to a summary.  What a log has to be is chosen so   *)
(* that all three keep it; and a call is new when it is appended, because a *)
(* run is not mentioned anywhere before its first turn.                     *)
(***************************************************************************)
EXTENDS SessionRuns

------------------------------------------------------------------------------
(* Logs *)

(* The calls a message makes, answers or was sent by. *)
Uses(m) == CallsOf(m) \cup (IF IsResult(m) \/ m.kind = "outbound" THEN {m.call} ELSE {})

UsedIn(msgs) == UNION {Uses(m) : m \in ToSet(msgs)}

(* The calls a message gives an answer to, or was sent by. *)
Spent(m) == IF IsResult(m) \/ m.kind = "outbound" THEN {m.call} ELSE {}

SpentIn(msgs) == UNION {Spent(m) : m \in ToSet(msgs)}

(* Between positions i and n stands the result of call c, or what another   *)
(* tool of the same response has handed back.                               *)
Answered(msgs, i, n, c, kinds) ==
  \E k \in i + 1 .. n :
    \/ IsResult(msgs[k]) /\ msgs[k].call = c
    \/ msgs[k].kind \in kinds /\ SameResponse(msgs[k].call, c)

(* A log is stored when it ends in input: an attachment is input, and the   *)
(* record of a message sent is not.                                         *)
AsInput  == {"attachment"}
AsOutput == {"attachment", "outbound"}

HandedBack(m) == IF IsInput(m) THEN AsInput ELSE AsOutput

(* Neither a call nor its result nor a sent message is there twice. *)
Unique(msgs) ==
  \A i, j \in DOMAIN msgs :
    i # j =>
      /\ CallsOf(msgs[i]) \cap CallsOf(msgs[j]) = {}
      /\ ~(IsResult(msgs[i]) /\ IsResult(msgs[j]) /\ msgs[i].call = msgs[j].call)
      /\ ~(msgs[i].kind = "outbound" /\ msgs[i] = msgs[j])

(* A result comes after its call. *)
Ordered(msgs) ==
  \A i, j \in DOMAIN msgs : IsResult(msgs[j]) /\ msgs[j].call \in CallsOf(msgs[i]) => i < j

(* Calls are answered before anything but results and calls follows them.   *)
Settled(msgs) ==
  \A n \in DOMAIN msgs : \A i \in 1 .. n - 1 : \A c \in CallsOf(msgs[i]) :
    ~is_unresolved_tail(msgs[n]) => Answered(msgs, i, n, c, HandedBack(msgs[n]))

Sound(msgs) == Unique(msgs) /\ Ordered(msgs) /\ Settled(msgs)

(* Calls that are not answered yet. *)
Open(msgs, c) ==
  \E i \in DOMAIN msgs : c \in CallsOf(msgs[i]) /\ ~Answered(msgs, i, Len(msgs), c, AsInput)

Whole(msgs) == Sound(msgs) /\ \A c \in CallsIn(msgs) : ~Open(msgs, c)

------------------------------------------------------------------------------
(* State *)

(* The locals l of run r, which stands at p.                                *)

(* The log with the messages that are about to be appended to it. *)
Ahead(l) == l.log \o l.todo

CallPhases == {"answer", "tool", "execute", "resolve"}

(* The calls of a response are numbered, and of the turn the run is in; a   *)
(* run that has not opened its session has nothing yet.                     *)
Numbered(r, p, l) ==
  /\ \A i \in DOMAIN l.accum : l.accum[i] = <<r, l.turn, l.attempt, i>>
  /\ \A i, j \in DOMAIN l.batch : l.batch[i] = l.batch[j] => i = j
  /\ \A c \in ToSet(l.batch) : c[1] = r /\ c[2] = l.turn
  /\ l.batch # <<>> => p \in CallPhases
  /\ l.accum # <<>> => p = "llm"
  /\ p \in {"idle", "start"} => l = NoLoop

(* Only calls that are not dispatched yet are open, and the log knows       *)
(* nothing of later ones.                                                   *)
LogSound(r, p, l) ==
  /\ Sound(Ahead(l))
  /\ \A c \in CallsIn(Ahead(l)) : Open(Ahead(l), c) => c \in ToSet(l.batch)
  /\ ToSet(l.batch) \cap SpentIn(Ahead(l)) = {}
  /\ \A c \in UsedIn(Ahead(l)) :
       c[1] = r => c[2] < l.turn \/ (c[2] = l.turn /\ p \in CallPhases)

(* What a run may write on its way out. *)
HookSound(r) ==
  /\ Whole(snapshot[r])
  /\ Sound(cached[r])
  /\ pc[r] = "stop" /\ outcome[r] = "completed" /\ r \in opened => Whole(cached[r])
  /\ Whole(copy[r])
  /\ pc[r] = "fanwrite" => Head(fan[r]) \notin ToSet(copy[r])

StoreSound(s) == Whole(store[s]) /\ Whole(command[s].read)

(* Nothing mentions a run that has not come to its first turn. *)
EarlyPhases == {"idle", "start", "replay", "refused"}

UsedBy(r) ==
  UsedIn(Ahead(loop[r])) \cup UsedIn(cached[r]) \cup UsedIn(snapshot[r]) \cup UsedIn(copy[r])
    \cup UsedIn(fan[r])

UsedAt(s) == UsedIn(store[s]) \cup UsedIn(command[s].read)

Known == (UNION {UsedBy(r) : r \in Runs}) \cup (UNION {UsedAt(s) : s \in Sessions})

Unmentioned(r) == \A c \in Known : c[1] # r

HistoryInv ==
  /\ \A r \in Runs : Numbered(r, pc[r], loop[r])
  /\ \A r \in Runs : LogSound(r, pc[r], loop[r])
  /\ \A r \in Runs : HookSound(r)
  /\ \A s \in Sessions : StoreSound(s)
  /\ \A r \in Runs : pc[r] \in EarlyPhases => Unmentioned(r)

------------------------------------------------------------------------------
(* Why SessionRuns implements AgentRun *)

(* The calls that a run at p with locals l has executed lie behind it: they *)
(* are of earlier turns, or of the response at hand and taken from its      *)
(* batch.                                                                   *)
Behind(calls, p, l) ==
  p \in {"idle"} \cup InnerPhases =>
    \A c \in calls :
      c[2] < l.turn \/ (c[2] = l.turn /\ p \in CallPhases /\ c \notin ToSet(l.batch))

(* A token fired is the token of a run that is there, and a run whose       *)
(* stream was dropped has its token fired.                                  *)
ContractInv ==
  /\ \A r \in Runs : Behind(ExecutedBy(r), pc[r], loop[r])
  /\ cancelled \subseteq LiveRuns
  /\ dropped \subseteq cancelled
==============================================================================
