--------------------------- MODULE SessionSurvival ---------------------------
(***************************************************************************)
(* Why nothing is lost from a session: the inductive invariant behind the   *)
(* survival of accepted input and of executed work in SessionRuns.          *)
(*                                                                          *)
(* While no write of a session failed or overlapped another one, what the   *)
(* session owes is in its store or its archive; and as long as a run holds  *)
(* the session, it is also in whatever that run may write next: the history *)
(* it replays, the log it has cached, the snapshot it falls back to.        *)
(*                                                                          *)
(* A message the fan-out of a run has written to another session is owed by *)
(* that session.  Messages that were sent come to a session in no other     *)
(* way, and a completed run leaves none of its own behind.                  *)
(***************************************************************************)
EXTENDS SessionRuns

------------------------------------------------------------------------------
(* Control *)

AppendPhases == {"replay", "answer", "resolve"}

(* Phases of a run that has left the replay of its history behind.          *)
TurnPhases == InnerPhases \ {"start", "replay"}

(* Where a run stands and what its loop holds agree; the calls it has yet   *)
(* to run are its own, and what it has streamed comes from one attempt.     *)
Control(r) ==
  /\ pc[r] \in AppendPhases <=> loop[r].todo # <<>>
  /\ pc[r] \in {"tool", "execute"} => loop[r].batch # <<>>
  /\ pc[r] = "fanwrite" => fan[r] # <<>> /\ Head(fan[r]).kind = "outbound"
  /\ pc[r] = "stop" => outcome[r] \in {"completed", "paused", "failed"}
  /\ \A i \in DOMAIN loop[r].accum :
       loop[r].accum[i][1] = r /\ loop[r].accum[i][3] = loop[r].attempt
  /\ \A i \in DOMAIN loop[r].batch : loop[r].batch[i][1] = r

ControlInv == \A r \in Runs : Control(r)

(* A run has an entry in the hook from the start of its session to on_stop, *)
(* unless the session could not be opened, or the run failed before; it has *)
(* loaded nothing before the one, and replayed what it loaded when it takes *)
(* its first turn.                                                          *)
Entry(r) ==
  /\ pc[r] \in {"idle", "start", "refused"} =>
       r \notin opened /\ r \notin ready /\ history[r] = <<>> /\ loop[r].log = <<>>
  /\ pc[r] \in TurnPhases => r \in ready /\ history[r] = <<>>
  /\ pc[r] \in {"idle", "start", "replay", "refused"} => \A c \in executed : c[1] # r
  /\ pc[r] \in {"fan", "fanwrite", "send", "sent"} => r \notin opened
  /\ pc[r] \in TurnPhases \cup {"replay"} /\ r \notin opened => SessionOf[r] \in tainted
  /\ pc[r] \in {"stop", "send"} /\ r \notin opened
       => SessionOf[r] \in tainted \/ outcome[r] = "failed"

EntryInv == \A r \in Runs : Entry(r)

(* Two runs that hold one session overlap. *)
SoleHolderInv ==
  \A s \in Sessions \ tainted : \A q, r \in Holders(s) : q = r

(* The messages /compact is about to cut are archived. *)
CommandInv ==
  \A s \in Sessions :
    command[s].at = "compact" => ToSet(Compacted(command[s].read, KeepRecent)) \subseteq archive[s]

------------------------------------------------------------------------------
(* What a session owes *)

(* on_stop has stored what run r executed. *)
Delivered(r) == pc[r] \in {"fan", "fanwrite", "sent"} /\ outcome[r] \in {"completed", "paused"}

Owed(s) ==
       {User(r) : r \in {q \in ready : SessionOf[q] = s}}
  \cup {CommandInput(x[2]) : x \in {y \in recorded : y[1] = s}}
  \cup {ToolResult(c) : c \in {d \in executed : SessionOf[d[1]] = s /\ Delivered(d[1])}}
  \cup {m \in arrived : m.to = s}

(* Session s was untouched by others but for the replay of run q. *)
CalmBut(s, q) ==
  /\ s \notin tainted
  /\ \A r \in Runs \ {q} : SessionOf[r] = s => history[r] = <<>>

Own(r) == {ToolResult(c) : c \in {d \in executed : d[1] = r}}

SessionKept(s) == Calm(s) => Owed(s) \subseteq Kept(s)

SessionInv == \A s \in Sessions : SessionKept(s)

(* A run replays the history it loaded, which holds what is owed. *)
ReplayKeeps(q) ==
  LET s == SessionOf[q]
  IN  pc[q] = "replay" =>
        /\ loop[q].log \o loop[q].todo = Append(history[q], User(q))
        /\ CalmBut(s, q) => Owed(s) \subseteq ToSet(history[q]) \cup archive[s]

(* What a run may write keeps what is owed: its log, cut or not, the        *)
(* messages it has cached, the snapshot.                                    *)
CacheKeeps(q) ==
  LET s == SessionOf[q]
  IN  Live(q) /\ Calm(s) =>
        /\ Owed(s) \subseteq ToSet(safe_prefix(cached[q])) \cup archive[s]
        /\ Owed(s) \subseteq ToSet(snapshot[q]) \cup archive[s]
        /\ pc[q] \in TurnPhases => Owed(s) \subseteq ToSet(safe_prefix(loop[q].log)) \cup archive[s]

(* The results of the calls a run has executed are in its log, or about to  *)
(* be appended to it; a compaction archives before it cuts.                 *)
ResultsKept(q) ==
  LET s == SessionOf[q]
  IN  /\ pc[q] \in TurnPhases =>
           Own(q) \subseteq ToSet(loop[q].log) \cup ToSet(loop[q].todo) \cup archive[s]
      /\ pc[q] \in TurnPhases \/ (pc[q] = "stop" /\ outcome[q] # "failed") =>
           Own(q) \subseteq ToSet(cached[q]) \cup ToSet(loop[q].todo) \cup archive[s]
      /\ pc[q] = "summarize" =>
           ToSet(Compacted(loop[q].log, KeepRecent)) \subseteq archive[s]

Held(q) == ReplayKeeps(q) /\ CacheKeeps(q) /\ ResultsKept(q)

HeldInv == \A q \in opened : Held(q)

------------------------------------------------------------------------------
(* Messages of other conversations *)

(* The messages run q may write to its session.                             *)
Carried(q) ==
  ToSet(loop[q].log) \cup ToSet(loop[q].todo) \cup ToSet(cached[q]) \cup ToSet(snapshot[q])

(* The messages session s shows, or a run that holds it may write to it.    *)
Shown(s) == ToSet(store[s]) \cup UNION {Carried(q) : q \in Holders(s)}

(* Message m was sent from another conversation to session s. *)
SentTo(s, m) == m.kind = "outbound" /\ m.to = s /\ SessionOf[m.call[1]] # s

(* Only the fan-out brings them. *)
BroughtInv == \A s \in Sessions \ tainted : \A m \in Shown(s) : SentTo(s, m) => m \in arrived

(* Run r has completed: its history shows everything it has sent. *)
Fanning(r) == pc[r] \in {"fan", "fanwrite", "sent"} /\ outcome[r] = "completed"

(* A message run r has sent to another conversation. *)
SentBy(r, m) == IsForeign(r, m) /\ m.call[1] = r

(* What the fan-out of run r has yet to come to. *)
ToFan(r) == IF pc[r] = "sent" THEN {} ELSE ToSet(fan[r])

(* It has arrived, or the fan-out of the run has yet to come to it. *)
FanKeeps(r) ==
  Fanning(r) /\ SessionOf[r] \notin tainted =>
    \A m \in Shown(SessionOf[r]) :
      SentBy(r, m) /\ m.to \notin tainted => m \in arrived \cup ToFan(r)

FanInv == \A r \in Runs : FanKeeps(r)

SurvivalInv ==
  /\ TypeOK
  /\ ControlInv
  /\ EntryInv
  /\ SoleHolderInv
  /\ CommandInv
  /\ SessionInv
  /\ HeldInv
  /\ BroughtInv
  /\ FanInv
==============================================================================
