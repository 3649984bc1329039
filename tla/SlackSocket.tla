----------------------------- MODULE SlackSocket -----------------------------
(***************************************************************************)
(* The Slack adapter's way in: crabgent-channel-slack's SocketModePool.     *)
(* Several connections take envelopes from Slack, which sends each one to   *)
(* every open connection and again until somebody acknowledged it.  A       *)
(* connection acknowledges first, then asks the EnvelopeDedup it shares     *)
(* with the others, and spawns the listeners of an envelope it is the first *)
(* to see.  An error ends a connection, which opens a new one.              *)
(***************************************************************************)
EXTENDS Naturals, Sequences

CONSTANTS
  Conns,      \* connections of the pool
  Envelopes,  \* envelope ids
  Capacity    \* EnvelopeDedup.capacity, before with_capacity clamps it

VARIABLES
  published,  \* Slack: the envelopes there are
  acked,      \* Slack: the ones it has an acknowledgement of
  frames,     \* frames on the way to each connection, the first being handled
  conn,       \* where each connection stands
  order,      \* EnvelopeDedup: the ids seen, the oldest first
  reacks,     \* acknowledgements that timed out and are repeated
  listening,  \* envelopes whose listeners run
  skBudget    \* bound: envelopes, repeated deliveries, failures still to come

(* Observability variables: they record history and guard no action. *)
VARIABLES
  accepted,   \* the envelopes this process has accepted, in order
  dispatched, \* envelopes whose listeners were spawned, by any process
  excused     \* envelopes whose acknowledgement reached Slack and then
              \* failed here, that were malformed, or hit by a crash

slackVars == <<published, acked, frames, conn, order, reacks, listening, skBudget,
               accepted, dispatched, excused>>

SlackTypeOK ==
  /\ published \subseteq Envelopes
  /\ acked \subseteq Envelopes
  /\ frames \in [Conns -> Seq(Envelopes)]
  /\ conn \in [Conns -> {"down", "closed", "open", "acking", "stopped"}]
  /\ order \in Seq(Envelopes)
  /\ reacks \subseteq Envelopes
  /\ listening \subseteq Envelopes
  /\ skBudget \in [envelopes : Nat, copies : Nat, faults : Nat]
  /\ accepted \in Seq(Envelopes)
  /\ dispatched \subseteq Envelopes
  /\ excused \subseteq Envelopes

SlackInit(budget) ==
  /\ published = {}
  /\ acked = {}
  /\ frames = [c \in Conns |-> <<>>]
  /\ conn = [c \in Conns |-> "down"]
  /\ order = <<>>
  /\ reacks = {}
  /\ listening = {}
  /\ skBudget = budget
  /\ accepted = <<>>
  /\ dispatched = {}
  /\ excused = {}

------------------------------------------------------------------------------
(* Helpers *)

records == <<accepted, dispatched, excused>>

Connected == {c \in Conns : conn[c] \in {"open", "acking"}}

SlackFault ==
  /\ skBudget.faults > 0
  /\ skBudget' = [skBudget EXCEPT !.faults = @ - 1]

(* with_capacity. *)
Window == IF Capacity = 0 THEN 1 ELSE Capacity

Seen == {order[i] : i \in DOMAIN order}

(* Mutant: the oldest id goes as soon as the window is full. *)
Remember_Short(e) ==
  LET pushed == Append(order, e)
  IN  order' = IF Len(pushed) >= Window THEN Tail(pushed) ELSE pushed

(* accept, for an id that is not there: push it, and evict the oldest one   *)
(* of a full window.                                                        *)
Remember(e) ==
  LET pushed == Append(order, e)
  IN  order' = IF Len(pushed) > Window THEN Tail(pushed) ELSE pushed

(* connection_once returns an error: what was on the way is gone. *)
Close(c) ==
  /\ conn' = [conn EXCEPT ![c] = "closed"]
  /\ frames' = [frames EXCEPT ![c] = <<>>]

------------------------------------------------------------------------------
(* Slack *)

Publish(e) ==
  /\ e \notin published
  /\ skBudget.envelopes > 0
  /\ skBudget' = [skBudget EXCEPT !.envelopes = @ - 1]
  /\ published' = published \cup {e}
  /\ frames' = [c \in Conns |-> IF c \in Connected THEN Append(frames[c], e) ELSE frames[c]]
  /\ UNCHANGED <<acked, conn, order, reacks, listening, records>>

(* What is not acknowledged, or not yet, is sent again. *)
Redeliver(c, e) ==
  /\ e \in published \ acked
  /\ c \in Connected
  /\ skBudget.copies > 0
  /\ skBudget' = [skBudget EXCEPT !.copies = @ - 1]
  /\ frames' = [frames EXCEPT ![c] = Append(@, e)]
  /\ UNCHANGED <<published, acked, conn, order, reacks, listening, records>>

------------------------------------------------------------------------------
(* A connection *)

(* connection_once: apps.connections.open and the WebSocket. *)
Connect(c) ==
  /\ conn[c] = "closed"
  /\ conn' = [conn EXCEPT ![c] = "open"]
  /\ UNCHANGED <<published, acked, frames, order, reacks, listening, skBudget, records>>

(* Slack does not take the token: run_reconnects returns. *)
AuthRejected(c) ==
  /\ conn[c] = "closed"
  /\ SlackFault
  /\ conn' = [conn EXCEPT ![c] = "stopped"]
  /\ UNCHANGED <<published, acked, frames, order, reacks, listening, records>>

(* A disconnect envelope, a read or idle timeout, a failed ping. *)
Disconnect(c) ==
  /\ conn[c] = "open"
  /\ SlackFault
  /\ Close(c)
  /\ UNCHANGED <<published, acked, order, reacks, listening, records>>

(* handle_envelope, ack_with_deadline: the acknowledgement reaches Slack,   *)
(* or takes longer than three seconds and is repeated by a task of its own. *)
Ack(c) ==
  LET e == Head(frames[c])
  IN  /\ conn[c] = "open"
      /\ frames[c] # <<>>
      /\ conn' = [conn EXCEPT ![c] = "acking"]
      /\ \/ acked' = acked \cup {e} /\ UNCHANGED <<reacks, skBudget>>
         \/ SlackFault /\ reacks' = reacks \cup {e} /\ UNCHANGED acked
      /\ UNCHANGED <<published, frames, order, listening, records>>

(* The acknowledgement fails before or after Slack got it. *)
AckFails(c) ==
  LET e == Head(frames[c])
  IN  /\ conn[c] = "open"
      /\ frames[c] # <<>>
      /\ SlackFault
      /\ Close(c)
      /\ \/ acked' = acked \cup {e} /\ excused' = excused \cup {e}
         \/ UNCHANGED <<acked, excused>>
      /\ UNCHANGED <<published, order, reacks, listening, accepted, dispatched>>

ReAck(e) ==
  /\ e \in reacks
  /\ reacks' = reacks \ {e}
  /\ acked' \in {acked, acked \cup {e}}
  /\ UNCHANGED <<published, frames, conn, order, listening, skBudget, records>>

(* Another connection, or an earlier delivery, was first. *)
SkipDuplicate(c) ==
  LET e == Head(frames[c])
  IN  /\ conn[c] = "acking"
      /\ e \in Seen
      /\ conn' = [conn EXCEPT ![c] = "open"]
      /\ frames' = [frames EXCEPT ![c] = Tail(@)]
      /\ UNCHANGED <<published, acked, order, reacks, listening, skBudget, records>>

(* accept and ListenerRegistry::dispatch. *)
Dispatch(c) ==
  LET e == Head(frames[c])
  IN  /\ conn[c] = "acking"
      /\ e \notin Seen
      /\ Remember(e)
      /\ accepted' = Append(accepted, e)
      /\ listening' = listening \cup {e}
      /\ dispatched' = dispatched \cup {e}
      /\ conn' = [conn EXCEPT ![c] = "open"]
      /\ frames' = [frames EXCEPT ![c] = Tail(@)]
      /\ UNCHANGED <<published, acked, reacks, skBudget, excused>>

(* accept, and then the payload cannot be read. *)
Malformed(c) ==
  LET e == Head(frames[c])
  IN  /\ conn[c] = "acking"
      /\ e \notin Seen
      /\ SlackFault
      /\ Remember(e)
      /\ accepted' = Append(accepted, e)
      /\ excused' = excused \cup {e}
      /\ Close(c)
      /\ UNCHANGED <<published, acked, reacks, listening, dispatched>>

(* KernelInboundForwarder::on_event returns; an error is only logged. *)
ListenersEnd(e) ==
  /\ e \in listening
  /\ listening' = listening \ {e}
  /\ UNCHANGED <<published, acked, frames, conn, order, reacks, skBudget, records>>

------------------------------------------------------------------------------
(* The process ends: envelopes acknowledged and not yet accepted are lost. *)
SlackDown ==
  /\ conn' = [c \in Conns |-> "down"]
  /\ frames' = [c \in Conns |-> <<>>]
  /\ order' = <<>>
  /\ reacks' = {}
  /\ listening' = {}
  /\ accepted' = <<>>
  /\ excused' = excused \cup {Head(frames[c]) : c \in {k \in Conns : conn[k] = "acking"}}
  /\ UNCHANGED <<published, acked, skBudget, dispatched>>

(* SocketModePool::run. *)
SlackBoot ==
  /\ \A c \in Conns : conn[c] = "down"
  /\ conn' = [c \in Conns |-> "closed"]
  /\ UNCHANGED <<published, acked, frames, order, reacks, listening, skBudget, records>>

SlackNext ==
  \/ \E e \in Envelopes : Publish(e) \/ ReAck(e) \/ ListenersEnd(e)
  \/ \E c \in Conns, e \in Envelopes : Redeliver(c, e)
  \/ \E c \in Conns :
       \/ Connect(c) \/ AuthRejected(c) \/ Disconnect(c)
       \/ Ack(c) \/ AckFails(c)
       \/ SkipDuplicate(c) \/ Dispatch(c) \/ Malformed(c)
  \/ SlackBoot

------------------------------------------------------------------------------
(* Properties *)

(* An envelope is accepted again only after a whole window of others, on    *)
(* whichever connections its copies arrive (EnvelopeDedup::accept); and     *)
(* Slack stops sending an envelope only when its listeners were started or  *)
(* are about to be, unless the acknowledgement was in doubt, the payload    *)
(* unreadable or the process gone in between (handle_envelope).             *)
EnvelopesDispatchOnce ==
  /\ \A i, j \in DOMAIN accepted :
       i < j /\ accepted[i] = accepted[j] => j - i > Window
  /\ \A e \in acked \ (dispatched \cup excused) :
       \E c \in Conns : conn[c] = "acking" /\ Head(frames[c]) = e
==============================================================================
