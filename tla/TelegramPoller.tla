--------------------------- MODULE TelegramPoller ---------------------------
(***************************************************************************)
(* The Telegram adapter's way in: crabgent-channel-telegram's poller, and   *)
(* the inboxes the app puts behind it, PairingInbox over a FilePairingStore *)
(* and then the command, speech and kernel inboxes.                         *)
(*                                                                          *)
(* getUpdates confirms the updates before its offset and returns the ones   *)
(* from it on.  The poller hands one update after the other to the inbox,   *)
(* and moves last_offset past an update once its receive has returned.  An  *)
(* error ends the round; the next one fetches the failed update again.      *)
(* last_offset is not stored: a new process starts with what Telegram has   *)
(* not seen confirmed.  The file of paired users is stored.                 *)
(***************************************************************************)
EXTENDS Naturals, Sequences

CONSTANTS
  Users,      \* people who write to the bot
  MaxUpdates  \* bound: updates of a behaviour

(* What an update is to the poller and the inboxes.  A "pair" one has the   *)
(* right token.  An "idle" one leads nowhere: it is not from a private      *)
(* chat, has no sender, is empty or too long, or is a /pair with another    *)
(* token.                                                                   *)
Kinds == {"message", "command", "reaction", "pair", "idle"}

Forwarded == {"message", "command", "reaction"}

(* What update_to_event and update_to_reactions make of an update: one      *)
(* event, or one for each emoji that was taken away or put on.              *)
PartsOf(kind) ==
  CASE kind = "reaction" -> {"removed", "added"}
    [] kind \in {"message", "command"} -> {"event"}
    [] OTHER -> {}

VARIABLES
  feed,         \* Telegram: the updates of the bot; an update's id is its position
  confirmed,    \* Telegram: the ids up to here are not returned any more
  poller,       \* where tick_once stands
  last_offset,  \* TelegramPoller.last_offset, 0 for None
  batch,        \* ids of the fetched updates not dealt with yet
  todo,         \* events of the first of them that are not handed over yet
  paired,       \* FilePairingStore.paired
  pair_file,    \* the file it writes
  tgBudget      \* bound: updates still to be sent, failures still to happen

(* Observability variables: they record history and guard no action. *)
VARIABLES
  handled,      \* events the inner inbox has taken: <<update id, part>>
  turnedAway,   \* ids of updates answered with not_paired_message
  told          \* users answered with paired_message

telegramVars == <<feed, confirmed, poller, last_offset, batch, todo, paired, pair_file,
                  tgBudget, handled, turnedAway, told>>

TelegramTypeOK ==
  /\ feed \in Seq([kind : Kinds, user : Users])
  /\ confirmed \in Nat
  /\ poller \in {"down", "poll", "next", "swap", "inner", "accepted", "backoff"}
  /\ last_offset \in Nat
  /\ batch \in Seq(Nat)
  /\ todo \subseteq {"event", "removed", "added"}
  /\ paired \subseteq Users
  /\ pair_file \subseteq Users
  /\ tgBudget \in [updates : Nat, faults : Nat]
  /\ handled \subseteq Nat \X {"event", "removed", "added"}
  /\ turnedAway \subseteq Nat
  /\ told \subseteq Users

TelegramInit(budget) ==
  /\ feed = <<>>
  /\ confirmed = 0
  /\ poller = "down"
  /\ last_offset = 0
  /\ batch = <<>>
  /\ todo = {}
  /\ paired = {}
  /\ pair_file = {}
  /\ tgBudget = budget
  /\ handled = {}
  /\ turnedAway = {}
  /\ told = {}

------------------------------------------------------------------------------
(* Helpers *)

telegram == <<feed, confirmed>>
pairing  == <<paired, pair_file>>
history  == <<handled, turnedAway, told>>

Later(a, b) == IF a < b THEN b ELSE a

Current == Head(batch)
Kind == feed[Current].kind
User == feed[Current].user

Working(phase) == poller = phase /\ batch # <<>>

TelegramFault ==
  /\ tgBudget.faults > 0
  /\ tgBudget' = [tgBudget EXCEPT !.faults = @ - 1]

(* advance_offset, and on to the next update or the next getUpdates. *)
Settle ==
  /\ last_offset' = Later(last_offset, Current)
  /\ batch' = Tail(batch)
  /\ todo' = {}
  /\ poller' = IF Len(batch) = 1 THEN "poll" ELSE "next"

(* Mutant: the offset moves past an update that failed. *)
TickFails_Advances ==
  /\ poller' = "backoff"
  /\ last_offset' = IF batch = <<>> THEN last_offset ELSE Later(last_offset, Current)
  /\ batch' = <<>>
  /\ todo' = {}

(* tick_once returns an error: run waits for error_backoff. *)
TickFails ==
  /\ poller' = "backoff"
  /\ batch' = <<>>
  /\ todo' = {}
  /\ UNCHANGED last_offset

------------------------------------------------------------------------------
(* getUpdates *)

UserSends(kind, user) ==
  /\ tgBudget.updates > 0
  /\ tgBudget' = [tgBudget EXCEPT !.updates = @ - 1]
  /\ feed' = Append(feed, [kind |-> kind, user |-> user])
  /\ UNCHANGED <<confirmed, poller, last_offset, batch, todo, pairing, history>>

(* fetch_updates_for.  The updates come in the order of their ids. *)
Fetch ==
  LET base == Later(confirmed, last_offset)
  IN  /\ poller = "poll"
      /\ confirmed' = base
      /\ batch' = [i \in 1 .. Len(feed) - base |-> base + i]
      /\ poller' = IF base < Len(feed) THEN "next" ELSE "poll"
      /\ UNCHANGED <<feed, last_offset, todo, pairing, tgBudget, history>>

(* The request or its answer is lost; Telegram may have seen the offset. *)
FetchFails ==
  /\ poller = "poll"
  /\ TelegramFault
  /\ confirmed' \in {confirmed, Later(confirmed, last_offset)}
  /\ TickFails
  /\ UNCHANGED <<feed, pairing, history>>

(* Mutant: an error ends the poller. *)
Backoff_Exits == FALSE /\ UNCHANGED telegramVars

Backoff ==
  /\ poller = "backoff"
  /\ poller' = "poll"
  /\ UNCHANGED <<telegram, last_offset, batch, todo, pairing, tgBudget, history>>

------------------------------------------------------------------------------
(* PairingInbox *)

(* No event, or bad_token_message. *)
Ignore ==
  /\ Working("next")
  /\ Kind = "idle"
  /\ Settle
  /\ UNCHANGED <<telegram, pairing, tgBudget, history>>

PairAgain ==
  /\ Working("next")
  /\ Kind = "pair" /\ User \in paired
  /\ Settle
  /\ told' = told \cup {User}
  /\ UNCHANGED <<telegram, pairing, tgBudget, handled, turnedAway>>

(* Mutant: the set in memory is changed before the file. *)
PersistPairing_MemoryFirst ==
  /\ Working("next")
  /\ Kind = "pair" /\ User \notin paired
  /\ paired' = paired \cup {User}
  /\ \/ /\ pair_file' = paired \cup {User}
        /\ poller' = "swap"
        /\ UNCHANGED <<last_offset, batch, todo, tgBudget>>
     \/ /\ TelegramFault
        /\ TickFails
        /\ UNCHANGED pair_file
  /\ UNCHANGED <<telegram, history>>

(* FilePairingStore::add under its lock: the file is replaced (a temporary  *)
(* file, then rename), or stays as it is and the error goes to the poller.  *)
PersistPairing ==
  /\ Working("next")
  /\ Kind = "pair" /\ User \notin paired
  /\ \/ /\ pair_file' = paired \cup {User}
        /\ poller' = "swap"
        /\ UNCHANGED <<last_offset, batch, todo, tgBudget>>
     \/ /\ TelegramFault
        /\ TickFails
        /\ UNCHANGED pair_file
  /\ UNCHANGED <<telegram, paired, history>>

(* The set in memory follows, and paired_message is sent. *)
SwapPairing ==
  /\ Working("swap")
  /\ paired' = paired \cup {User}
  /\ told' = told \cup {User}
  /\ Settle
  /\ UNCHANGED <<telegram, pair_file, tgBudget, handled, turnedAway>>

(* An event is answered with not_paired_message, a reaction is dropped. *)
TurnAway ==
  /\ Working("next")
  /\ Kind \in Forwarded /\ User \notin paired
  /\ turnedAway' = turnedAway \cup {Current}
  /\ Settle
  /\ UNCHANGED <<telegram, pairing, tgBudget, handled, told>>

Admit ==
  /\ Working("next")
  /\ Kind \in Forwarded /\ User \in paired
  /\ poller' = "inner"
  /\ todo' = PartsOf(Kind)
  /\ UNCHANGED <<telegram, last_offset, batch, pairing, tgBudget, history>>

------------------------------------------------------------------------------
(* The inner inbox *)

(* A command is executed; a message or a reaction, its audio transcribed,   *)
(* starts a run or is injected into one.  The two parts of a reaction come  *)
(* out of a hash set.                                                       *)
InnerTakes(part) ==
  /\ Working("inner")
  /\ part \in todo
  /\ handled' = handled \cup {<<Current, part>>}
  /\ todo' = todo \ {part}
  /\ poller' = "accepted"
  /\ UNCHANGED <<telegram, last_offset, batch, pairing, tgBudget, turnedAway, told>>

(* receive returns Ok. *)
InnerReturns ==
  /\ Working("accepted")
  /\ IF todo = {}
     THEN Settle
     ELSE poller' = "inner" /\ UNCHANGED <<last_offset, batch, todo>>
  /\ UNCHANGED <<telegram, pairing, tgBudget, history>>

(* receive fails: a policy denies, audio is not transcribed, a shutdown has *)
(* begun, or a command was executed and its exchange cannot be recorded.    *)
InnerFails ==
  /\ Working("inner") \/ (Working("accepted") /\ Kind = "command")
  /\ TelegramFault
  /\ TickFails
  /\ UNCHANGED <<telegram, pairing, history>>

------------------------------------------------------------------------------
(* The process ends, by a crash or because run was cancelled: tick_once is  *)
(* dropped where it waits.                                                  *)
TelegramDown ==
  /\ poller' = "down"
  /\ last_offset' = 0
  /\ batch' = <<>>
  /\ todo' = {}
  /\ paired' = {}
  /\ UNCHANGED <<telegram, pair_file, tgBudget, history>>

(* wrap_pairing, FilePairingStore::open and TelegramPoller::new. *)
TelegramBoot ==
  /\ poller = "down"
  /\ poller' = "poll"
  /\ paired' = pair_file
  /\ UNCHANGED <<telegram, last_offset, batch, todo, pair_file, tgBudget, history>>

TelegramStep ==
  \/ Fetch \/ Backoff
  \/ Ignore \/ PairAgain \/ PersistPairing \/ SwapPairing \/ TurnAway \/ Admit
  \/ \E part \in todo : InnerTakes(part)
  \/ InnerReturns

TelegramNext ==
  \/ TelegramStep
  \/ \E kind \in Kinds, user \in Users : UserSends(kind, user)
  \/ FetchFails \/ InnerFails
  \/ TelegramBoot

------------------------------------------------------------------------------
(* Properties *)

(* What an update asked for has happened: the user is paired for good, or   *)
(* every event of it was handed over or turned away.                        *)
Served(id) ==
  /\ feed[id].kind = "pair" => feed[id].user \in pair_file
  /\ feed[id].kind \in Forwarded =>
       id \in turnedAway \/ {id} \X PartsOf(feed[id].kind) \subseteq handled

(* Telegram is told to forget an update only when it was served: whatever   *)
(* fails and whenever the process ends, no update is lost (tick_once,       *)
(* dispatch_reactions, advance_offset).                                     *)
ConfirmedUpdatesAreServed == \A id \in 1..confirmed : Served(id)

(* Pairing outlives the process: who was told to be paired, and everybody   *)
(* whose message reached the agent, is in the file, and nobody is turned    *)
(* away whose /pair came before (FilePairingStore::add, PairingInbox).      *)
PairingIsDurable ==
  /\ told \subseteq pair_file
  /\ \A h \in handled : feed[h[1]].user \in pair_file
  /\ \A id \in turnedAway : \A p \in 1 .. id - 1 :
       feed[p] # [kind |-> "pair", user |-> feed[id].user]

(* Every update is dealt with in the end, also when its receive fails       *)
(* finitely often and others fail before it, as long as the process lives   *)
(* (run, tick_once).                                                        *)
UpdatesSettle ==
  \A n \in 1..MaxUpdates :
    n <= Len(feed) /\ poller # "down" ~> n <= Later(confirmed, last_offset) \/ poller = "down"
==============================================================================
