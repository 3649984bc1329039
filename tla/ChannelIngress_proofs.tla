------------------------ MODULE ChannelIngress_proofs ------------------------
(***************************************************************************)
(* ChannelIngress, proved for any number of users, updates, connections,    *)
(* envelopes, failures and crashes, and for every capacity of the dedup:    *)
(* no update is lost, pairing is durable, no envelope is lost or dispatched *)
(* twice within a window.                                                   *)
(***************************************************************************)
EXTENDS ChannelIngress, TLAPS

------------------------------------------------------------------------------
(* The inductive invariant of the Telegram side *)

(* Everything up to here was dealt with, by this process or before it. *)
Base == Later(confirmed, last_offset)

(* Phases in which there is a first update of the batch. *)
BusyPhases == {"next", "swap", "inner", "accepted"}

(* The batch holds the updates after Base, without a gap. *)
BatchInv ==
  /\ Base <= Len(feed)
  /\ poller \in BusyPhases <=> batch # <<>>
  /\ Base + Len(batch) <= Len(feed)
  /\ \A i \in DOMAIN batch : batch[i] = Base + i

(* Every update up to Base was served. *)
ServedInv == \A id \in 1..Base : Served(id)

(* The set of paired users in memory is the one in the file, but for the    *)
(* user being added.                                                        *)
PairedInv ==
  /\ poller = "down" => paired = {}
  /\ poller = "swap" => Kind = "pair" /\ pair_file = paired \cup {User}
  /\ poller \notin {"down", "swap"} => paired = pair_file

(* An admitted update is one of a paired user, and the events of it that    *)
(* are not to be handed over any more have been.                            *)
PartsInv ==
  poller \in {"inner", "accepted"} =>
    /\ Kind \in Forwarded /\ User \in pair_file
    /\ todo \subseteq PartsOf(Kind)
    /\ {Current} \X (PartsOf(Kind) \ todo) \subseteq handled

(* The history speaks of updates there are. *)
HistoryInv ==
  /\ told \subseteq pair_file
  /\ \A h \in handled : h[1] \in DOMAIN feed /\ feed[h[1]].user \in pair_file
  /\ turnedAway \subseteq DOMAIN feed
  /\ \A id \in turnedAway : \A p \in 1 .. id - 1 :
       feed[p] # [kind |-> "pair", user |-> feed[id].user]

TelegramInv ==
  /\ TelegramTypeOK
  /\ BatchInv
  /\ ServedInv
  /\ PairedInv
  /\ PartsInv
  /\ HistoryInv

LEMMA ElementIn ==
  ASSUME NEW S, NEW seq \in Seq(S)
  PROVE  \A i \in 1..Len(seq) : seq[i] \in S
  OBVIOUS

(* The same file, history and updates, or more of them: what was served is  *)
(* served.                                                                  *)
LEMMA ServedStays ==
  ASSUME TelegramInv, NEW id \in 1..Len(feed), Served(id),
         feed' = feed, pair_file \subseteq pair_file',
         handled \subseteq handled', turnedAway \subseteq turnedAway'
  PROVE  Served(id)'
  BY DEF Served

(* The first update of a batch is the one after Base. *)
LEMMA CurrentIsNext ==
  ASSUME TelegramInv, batch # <<>>
  PROVE  /\ Current = Base + 1
         /\ Current \in 1..Len(feed)
         /\ Kind \in Kinds /\ User \in Users
         /\ Base \in Nat
  <1>1. Base \in Nat /\ Len(feed) \in Nat
    BY DEF TelegramInv, TelegramTypeOK, Base, Later
  <1>2. Len(batch) \in Nat /\ Len(batch) >= 1 /\ 1 \in DOMAIN batch
    BY DEF TelegramInv, TelegramTypeOK
  <1>3. Current = batch[1]
    BY DEF TelegramInv, TelegramTypeOK, Current
  <1>4. Current = Base + 1 /\ Base + Len(batch) <= Len(feed)
    BY <1>2, <1>3 DEF TelegramInv, BatchInv
  <1>5. Current \in 1..Len(feed)
    BY <1>1, <1>2, <1>4
  <1>6. feed[Current] \in [kind : Kinds, user : Users]
    <2>1. feed \in Seq([kind : Kinds, user : Users])
      BY DEF TelegramInv, TelegramTypeOK
    <2>2. \A id \in 1..Len(feed) : feed[id] \in [kind : Kinds, user : Users]
      BY <2>1, ElementIn
    <2>3. QED BY <1>5, <2>2
  <1>7. QED BY <1>1, <1>4, <1>5, <1>6 DEF Kind, User

(* Moving past an update that was served keeps what is said of the offsets. *)
LEMMA SettleKeeps ==
  ASSUME TelegramInv, batch # <<>>, Settle, UNCHANGED telegram,
         pair_file \subseteq pair_file', handled \subseteq handled',
         turnedAway \subseteq turnedAway', NEW n, n = Current, Served(n)'
  PROVE  /\ last_offset' \in Nat /\ batch' \in Seq(Nat) /\ todo' = {}
         /\ poller' \in {"poll", "next"}
         /\ BatchInv' /\ ServedInv' /\ PartsInv'
  <1>1. /\ Current = Base + 1 /\ Current \in 1..Len(feed) /\ Base \in Nat
    BY CurrentIsNext
  <1>2. /\ last_offset' \in Nat /\ batch' \in Seq(Nat) /\ todo' = {}
        /\ poller' \in {"poll", "next"}
    BY <1>1 DEF TelegramInv, TelegramTypeOK, Settle, Later
  <1>3. Base' = Base + 1
    BY <1>1, <1>2 DEF TelegramInv, TelegramTypeOK, Settle, Base, Later, telegram
  <1>4. BatchInv'
    <2>1. Len(batch') = Len(batch) - 1 /\ \A i \in DOMAIN batch' : batch'[i] = batch[i + 1]
      BY DEF TelegramInv, TelegramTypeOK, Settle
    <2>2. \A i \in DOMAIN batch' : batch'[i] = Base' + i
      <3>1. SUFFICES ASSUME NEW i \in DOMAIN batch' PROVE batch'[i] = Base' + i
        OBVIOUS
      <3>2. Len(batch') \in Nat /\ i \in 1..Len(batch') /\ Len(batch) \in Nat
        BY <1>2 DEF TelegramInv, TelegramTypeOK
      <3>3. i + 1 \in DOMAIN batch
        BY <2>1, <3>2 DEF TelegramInv, TelegramTypeOK
      <3>4. batch[i + 1] = Base + (i + 1)
        BY <3>3 DEF TelegramInv, BatchInv
      <3>5. QED BY <1>1, <1>3, <2>1, <3>2, <3>4
    <2>3. poller' \in BusyPhases <=> batch' # <<>>
      <3>1. Len(batch) \in Nat /\ Len(batch) >= 1
        BY DEF TelegramInv, TelegramTypeOK
      <3>2. batch' # <<>> <=> Len(batch) # 1
        BY <1>2, <2>1, <3>1
      <3>3. QED BY <3>2 DEF Settle, BusyPhases
    <2>4. QED
      BY <1>1, <1>2, <1>3, <2>1, <2>2, <2>3
         DEF TelegramInv, TelegramTypeOK, BatchInv, telegram
  <1>5. ServedInv'
    <2>1. SUFFICES ASSUME NEW id \in 1 .. Base + 1 PROVE Served(id)'
      BY <1>3 DEF ServedInv
    <2>2. CASE id = n
      BY <2>2
    <2>3. CASE id # n
      BY <1>1, <2>1, <2>3, ServedStays DEF TelegramInv, ServedInv, telegram
    <2>4. QED BY <2>2, <2>3
  <1>6. PartsInv'
    BY <1>2 DEF PartsInv
  <1>7. QED BY <1>2, <1>4, <1>5, <1>6

(* An error leaves the offsets as they are and the batch empty. *)
LEMMA TickFailsKeeps ==
  ASSUME TelegramInv, TickFails, UNCHANGED <<telegram, pairing, history>>,
         poller \notin {"down", "swap"}, tgBudget' \in [updates : Nat, faults : Nat]
  PROVE  TelegramInv'
  <1>1. TelegramTypeOK'
    BY DEF TelegramInv, TelegramTypeOK, TickFails, telegram, pairing, history
  <1>2. Base' = Base
    BY DEF Base, TickFails, telegram
  <1>3. BatchInv'
    BY <1>2 DEF TelegramInv, TelegramTypeOK, BatchInv, Base, Later, BusyPhases, TickFails, telegram
  <1>4. ServedInv'
    BY <1>2 DEF TelegramInv, ServedInv, Served, TickFails, telegram, pairing, history
  <1>5. PairedInv' /\ PartsInv'
    BY DEF TelegramInv, PairedInv, PartsInv, TickFails, pairing
  <1>6. HistoryInv'
    BY DEF TelegramInv, HistoryInv, telegram, pairing, history
  <1>7. QED BY <1>1, <1>3, <1>4, <1>5, <1>6 DEF TelegramInv

LEMMA UserSendsKeeps ==
  ASSUME TelegramInv, NEW kind \in Kinds, NEW user \in Users, UserSends(kind, user)
  PROVE  TelegramInv'
  <1>1. TelegramTypeOK'
    <2>1. feed' \in Seq([kind : Kinds, user : Users])
      <3>1. feed \in Seq([kind : Kinds, user : Users])
        BY DEF TelegramInv, TelegramTypeOK
      <3>2. [kind |-> kind, user |-> user] \in [kind : Kinds, user : Users]
        OBVIOUS
      <3>3. QED BY <3>1, <3>2 DEF UserSends
    <2>2. tgBudget' \in [updates : Nat, faults : Nat]
      <3>1. tgBudget \in [updates : Nat, faults : Nat]
        BY DEF TelegramInv, TelegramTypeOK
      <3>2. QED BY <3>1 DEF UserSends
    <2>3. QED
      BY <2>1, <2>2 DEF TelegramInv, TelegramTypeOK, UserSends, pairing, history
  <1>2. /\ Base' = Base /\ Base \in Nat /\ Base <= Len(feed)
        /\ Len(feed') = Len(feed) + 1
        /\ \A id \in 1..Len(feed) : feed'[id] = feed[id]
    BY DEF TelegramInv, TelegramTypeOK, BatchInv, Base, Later, UserSends
  <1>3. BatchInv'
    BY <1>2 DEF TelegramInv, TelegramTypeOK, BatchInv, UserSends
  <1>4. ServedInv'
    BY <1>2 DEF TelegramInv, ServedInv, Served, UserSends, pairing, history
  <1>5. batch # <<>> => Current' = Current /\ Kind' = Kind /\ User' = User
    BY <1>2, CurrentIsNext DEF Current, Kind, User, UserSends
  <1>6. PairedInv'
    BY <1>5 DEF TelegramInv, BatchInv, BusyPhases, PairedInv, UserSends, pairing
  <1>7. PartsInv'
    BY <1>5 DEF TelegramInv, BatchInv, BusyPhases, PartsInv, UserSends, pairing, history
  <1>8. HistoryInv'
    BY <1>2 DEF TelegramInv, TelegramTypeOK, HistoryInv, UserSends, pairing, history
  <1>9. QED BY <1>1, <1>3, <1>4, <1>6, <1>7, <1>8 DEF TelegramInv

LEMMA FetchKeeps ==
  ASSUME TelegramInv, Fetch
  PROVE  TelegramInv'
  <1>1. /\ Base \in Nat /\ Base <= Len(feed) /\ Len(feed) \in Nat
        /\ Base' = Base /\ confirmed' = Base
    BY DEF TelegramInv, TelegramTypeOK, BatchInv, Base, Later, Fetch
  <1>2. batch' = [i \in 1 .. Len(feed) - Base |-> Base + i]
    BY DEF Fetch, Base
  <1>3. batch' \in Seq(Nat) /\ Len(batch') = Len(feed) - Base
    BY <1>1, <1>2
  <1>4. TelegramTypeOK'
    BY <1>1, <1>3 DEF TelegramInv, TelegramTypeOK, Fetch, pairing, history
  <1>5. BatchInv'
    <2>1. poller' \in BusyPhases <=> batch' # <<>>
      BY <1>1, <1>3 DEF Fetch, BusyPhases, Base
    <2>2. QED
      BY <1>1, <1>2, <1>3, <2>1 DEF BatchInv, Fetch
  <1>6. ServedInv'
    BY <1>1 DEF TelegramInv, ServedInv, Served, Fetch, pairing, history
  <1>7. PairedInv' /\ PartsInv' /\ HistoryInv'
    BY DEF TelegramInv, PairedInv, PartsInv, HistoryInv, Fetch, pairing, history
  <1>8. QED BY <1>4, <1>5, <1>6, <1>7 DEF TelegramInv

LEMMA FetchFailsKeeps ==
  ASSUME TelegramInv, FetchFails
  PROVE  TelegramInv'
  <1>1. Base' = Base /\ confirmed' \in Nat
    BY DEF TelegramInv, TelegramTypeOK, Base, Later, FetchFails, TickFails
  <1>2. TelegramTypeOK'
    BY <1>1 DEF TelegramInv, TelegramTypeOK, FetchFails, TickFails, TelegramFault, pairing, history
  <1>3. BatchInv'
    BY <1>1 DEF TelegramInv, TelegramTypeOK, BatchInv, Base, Later, BusyPhases, FetchFails, TickFails
  <1>4. ServedInv'
    BY <1>1 DEF TelegramInv, ServedInv, Served, FetchFails, TickFails, pairing, history
  <1>5. PairedInv' /\ PartsInv' /\ HistoryInv'
    BY DEF TelegramInv, PairedInv, PartsInv, HistoryInv, FetchFails, TickFails, pairing, history
  <1>6. QED BY <1>2, <1>3, <1>4, <1>5 DEF TelegramInv

LEMMA BackoffKeeps ==
  ASSUME TelegramInv, Backoff
  PROVE  TelegramInv'
  BY DEF TelegramInv, TelegramTypeOK, BatchInv, ServedInv, Served, PairedInv, PartsInv,
       HistoryInv, Base, BusyPhases, Backoff, telegram, pairing, history

(* The steps that deal with an update and are done with it. *)
LEMMA IgnoreKeeps ==
  ASSUME TelegramInv, Ignore
  PROVE  TelegramInv'
  <1>0. PICK n : n = Current
    OBVIOUS
  <1>1. Served(n)'
    BY <1>0 DEF Ignore, Served, Kind, Forwarded, telegram, pairing, history
  <1>2. /\ last_offset' \in Nat /\ batch' \in Seq(Nat) /\ todo' = {}
        /\ poller' \in {"poll", "next"}
        /\ BatchInv' /\ ServedInv' /\ PartsInv'
    BY <1>0, <1>1, SettleKeeps DEF Ignore, Working, telegram, pairing, history
  <1>3. QED
    BY <1>0, <1>2 DEF TelegramInv, TelegramTypeOK, PairedInv, HistoryInv, Ignore, Working,
         telegram, pairing, history

LEMMA PairAgainKeeps ==
  ASSUME TelegramInv, PairAgain
  PROVE  TelegramInv'
  <1>0. PICK n : n = Current
    OBVIOUS
  <1>1. User \in Users /\ User \in pair_file
    BY <1>0, CurrentIsNext DEF TelegramInv, PairedInv, PairAgain, Working
  <1>2. Served(n)'
    BY <1>0, <1>1 DEF PairAgain, Served, Kind, User, Forwarded, telegram, pairing
  <1>3. /\ last_offset' \in Nat /\ batch' \in Seq(Nat) /\ todo' = {}
        /\ poller' \in {"poll", "next"}
        /\ BatchInv' /\ ServedInv' /\ PartsInv'
    BY <1>0, <1>2, SettleKeeps DEF PairAgain, Working, telegram, pairing
  <1>4. TelegramTypeOK'
    BY <1>0, <1>1, <1>3 DEF TelegramInv, TelegramTypeOK, PairAgain, telegram, pairing
  <1>5. PairedInv' /\ HistoryInv'
    BY <1>0, <1>1, <1>3 DEF TelegramInv, PairedInv, HistoryInv, PairAgain, Working, telegram, pairing
  <1>6. QED BY <1>0, <1>3, <1>4, <1>5 DEF TelegramInv

LEMMA PersistPairingKeeps ==
  ASSUME TelegramInv, PersistPairing
  PROVE  TelegramInv'
  <1>1. User \in Users /\ batch # <<>> /\ poller = "next" /\ paired = pair_file
    BY CurrentIsNext DEF TelegramInv, PairedInv, PersistPairing, Working
  <1>2. CASE TelegramFault /\ TickFails /\ UNCHANGED pair_file
    <2>1. tgBudget' \in [updates : Nat, faults : Nat]
      <3>1. tgBudget \in [updates : Nat, faults : Nat]
        BY DEF TelegramInv, TelegramTypeOK
      <3>2. QED BY <1>2, <3>1 DEF TelegramFault
    <2>2. UNCHANGED <<telegram, pairing, history>>
      BY <1>2 DEF PersistPairing, pairing
    <2>3. QED BY <1>1, <1>2, <2>1, <2>2, TickFailsKeeps
  <1>3. CASE /\ pair_file' = paired \cup {User}
             /\ poller' = "swap"
             /\ UNCHANGED <<last_offset, batch, todo, tgBudget>>
    <2>1. pair_file \subseteq pair_file' /\ pair_file' \subseteq Users
      BY <1>1, <1>3 DEF TelegramInv, TelegramTypeOK
    <2>2. TelegramTypeOK'
      BY <1>3, <2>1 DEF TelegramInv, TelegramTypeOK, PersistPairing, telegram, history
    <2>3. Base' = Base /\ BatchInv'
      BY <1>1, <1>3 DEF TelegramInv, BatchInv, Base, BusyPhases, PersistPairing, telegram
    <2>4. ServedInv'
      BY <2>1, <2>3 DEF TelegramInv, ServedInv, Served, PersistPairing, telegram, history
    <2>5. PairedInv' /\ PartsInv'
      BY <1>3 DEF PairedInv, PartsInv, Kind, User, Current, PersistPairing, telegram
    <2>6. HistoryInv'
      BY <2>1 DEF TelegramInv, HistoryInv, PersistPairing, telegram, history
    <2>7. QED BY <2>2, <2>3, <2>4, <2>5, <2>6 DEF TelegramInv
  <1>4. QED BY <1>2, <1>3 DEF PersistPairing

LEMMA SwapPairingKeeps ==
  ASSUME TelegramInv, SwapPairing
  PROVE  TelegramInv'
  <1>0. PICK n : n = Current
    OBVIOUS
  <1>1. Kind = "pair" /\ User \in Users /\ pair_file = paired \cup {User}
    BY <1>0, CurrentIsNext DEF TelegramInv, PairedInv, SwapPairing, Working
  <1>2. Served(n)'
    BY <1>0, <1>1 DEF SwapPairing, Served, Kind, User, Forwarded, telegram
  <1>3. /\ last_offset' \in Nat /\ batch' \in Seq(Nat) /\ todo' = {}
        /\ poller' \in {"poll", "next"}
        /\ BatchInv' /\ ServedInv' /\ PartsInv'
    BY <1>0, <1>2, SettleKeeps DEF SwapPairing, Working, telegram
  <1>4. TelegramTypeOK'
    BY <1>0, <1>1, <1>3 DEF TelegramInv, TelegramTypeOK, SwapPairing, telegram
  <1>5. PairedInv' /\ HistoryInv'
    BY <1>0, <1>1, <1>3 DEF TelegramInv, PairedInv, HistoryInv, SwapPairing, telegram
  <1>6. QED BY <1>0, <1>3, <1>4, <1>5 DEF TelegramInv

LEMMA TurnAwayKeeps ==
  ASSUME TelegramInv, TurnAway
  PROVE  TelegramInv'
  <1>0. PICK n : n = Current
    OBVIOUS
  <1>1. /\ Current = Base + 1 /\ Current \in 1..Len(feed) /\ Base \in Nat
        /\ User \notin pair_file
    BY <1>0, CurrentIsNext DEF TelegramInv, PairedInv, TurnAway, Working
  <1>2. Served(n)'
    BY <1>0 DEF TurnAway, Served, Kind, Forwarded, telegram, pairing
  <1>3. /\ last_offset' \in Nat /\ batch' \in Seq(Nat) /\ todo' = {}
        /\ poller' \in {"poll", "next"}
        /\ BatchInv' /\ ServedInv' /\ PartsInv'
    BY <1>0, <1>2, SettleKeeps DEF TurnAway, Working, telegram, pairing
  <1>4. TelegramTypeOK'
    BY <1>0, <1>1, <1>3 DEF TelegramInv, TelegramTypeOK, TurnAway, telegram, pairing
  <1>5. PairedInv'
    BY <1>0, <1>3 DEF TelegramInv, PairedInv, TurnAway, Working, pairing
  <1>6. \A p \in 1 .. n - 1 : feed[p] # [kind |-> "pair", user |-> feed[n].user]
    BY <1>0, <1>1 DEF TelegramInv, ServedInv, Served, User
  <1>7. HistoryInv'
    <2>1. turnedAway' = turnedAway \cup {n} /\ UNCHANGED <<feed, pair_file, handled, told>>
      BY <1>0 DEF TurnAway, telegram, pairing
    <2>2. QED BY <1>0, <1>1, <1>6, <2>1 DEF TelegramInv, TelegramTypeOK, HistoryInv
  <1>8. QED BY <1>0, <1>3, <1>4, <1>5, <1>7 DEF TelegramInv

(* The steps of an update the inner inbox gets. *)
LEMMA AdmitKeeps ==
  ASSUME TelegramInv, Admit
  PROVE  TelegramInv'
  <1>1. TelegramTypeOK'
    BY DEF TelegramInv, TelegramTypeOK, Admit, PartsOf, telegram, pairing, history
  <1>2. Base' = Base /\ BatchInv'
    BY DEF TelegramInv, BatchInv, Base, BusyPhases, Admit, Working, telegram
  <1>3. ServedInv'
    BY <1>2 DEF TelegramInv, ServedInv, Served, Admit, telegram, pairing, history
  <1>4. PairedInv'
    BY DEF TelegramInv, PairedInv, Admit, Working, pairing
  <1>5. PartsInv'
    BY DEF TelegramInv, PairedInv, PartsInv, Admit, Working, Kind, User, Current,
         telegram, pairing
  <1>6. HistoryInv'
    BY DEF TelegramInv, HistoryInv, Admit, telegram, pairing, history
  <1>7. QED BY <1>1, <1>2, <1>3, <1>4, <1>5, <1>6 DEF TelegramInv

LEMMA InnerTakesKeeps ==
  ASSUME TelegramInv, NEW part \in todo, InnerTakes(part)
  PROVE  TelegramInv'
  <1>1. Current \in 1..Len(feed) /\ Current \in Nat /\ User \in pair_file /\ User = feed[Current].user
    BY CurrentIsNext DEF TelegramInv, TelegramTypeOK, PartsInv, InnerTakes, Working, User
  <1>2. TelegramTypeOK'
    <2>1. part \in {"event", "removed", "added"}
      BY DEF TelegramInv, TelegramTypeOK
    <2>2. handled' \subseteq Nat \X {"event", "removed", "added"}
      BY <1>1, <2>1 DEF TelegramInv, TelegramTypeOK, InnerTakes
    <2>3. QED
      BY <2>2 DEF TelegramInv, TelegramTypeOK, InnerTakes, telegram, pairing
  <1>3. Base' = Base /\ BatchInv'
    BY DEF TelegramInv, BatchInv, Base, BusyPhases, InnerTakes, Working, telegram
  <1>4. ServedInv'
    BY <1>3 DEF TelegramInv, ServedInv, Served, InnerTakes, telegram, pairing
  <1>5. PairedInv'
    BY DEF TelegramInv, PairedInv, InnerTakes, Working, pairing
  <1>6. PartsInv'
    <2>1. /\ Current' = Current /\ Kind' = Kind /\ User' = User /\ UNCHANGED pair_file
      BY DEF InnerTakes, Current, Kind, User, telegram, pairing
    <2>2. /\ todo' = todo \ {part} /\ handled' = handled \cup {<<Current, part>>}
          /\ todo \subseteq PartsOf(Kind)
          /\ {Current} \X (PartsOf(Kind) \ todo) \subseteq handled
          /\ Kind \in Forwarded /\ User \in pair_file
      BY DEF TelegramInv, PartsInv, InnerTakes, Working
    <2>3. {Current} \X (PartsOf(Kind) \ todo') \subseteq handled'
      BY <2>2
    <2>4. QED BY <2>1, <2>2, <2>3 DEF PartsInv
  <1>7. HistoryInv'
    <2>1. handled' = handled \cup {<<Current, part>>} /\ UNCHANGED <<feed, pair_file, told, turnedAway>>
      BY DEF InnerTakes, telegram, pairing
    <2>2. QED BY <1>1, <2>1 DEF TelegramInv, TelegramTypeOK, HistoryInv
  <1>8. QED BY <1>2, <1>3, <1>4, <1>5, <1>6, <1>7 DEF TelegramInv

LEMMA InnerReturnsKeeps ==
  ASSUME TelegramInv, InnerReturns
  PROVE  TelegramInv'
  <1>0. PICK n : n = Current
    OBVIOUS
  <1>1. CASE todo = {}
    <2>1. Served(n)'
      BY <1>0, <1>1 DEF TelegramInv, PartsInv, InnerReturns, Working, Served, Kind, Forwarded,
           telegram, pairing, history
    <2>2. /\ last_offset' \in Nat /\ batch' \in Seq(Nat) /\ todo' = {}
          /\ poller' \in {"poll", "next"}
          /\ BatchInv' /\ ServedInv' /\ PartsInv'
      BY <1>0, <1>1, <2>1, SettleKeeps DEF InnerReturns, Working, telegram, pairing, history
    <2>3. QED
      BY <1>0, <2>2 DEF TelegramInv, TelegramTypeOK, PairedInv, HistoryInv, InnerReturns, Working,
           telegram, pairing, history
  <1>2. CASE todo # {}
    BY <1>0, <1>2 DEF TelegramInv, TelegramTypeOK, BatchInv, ServedInv, Served, PairedInv, PartsInv,
         HistoryInv, Base, BusyPhases, Current, Kind, User, InnerReturns, Working,
         telegram, pairing, history
  <1>3. QED BY <1>0, <1>1, <1>2

LEMMA InnerFailsKeeps ==
  ASSUME TelegramInv, InnerFails
  PROVE  TelegramInv'
  BY TickFailsKeeps, SMTT(30) DEF TelegramInv, TelegramTypeOK, InnerFails, Working, TelegramFault

(* The end of the process and the next one. *)
LEMMA TelegramDownKeeps ==
  ASSUME TelegramInv, TelegramDown
  PROVE  TelegramInv'
  <1>1. TelegramTypeOK'
    BY DEF TelegramInv, TelegramTypeOK, TelegramDown, telegram, history
  <1>2. Base' \in Nat /\ Base' <= Base /\ Base' = confirmed /\ Base \in Nat
    <2>1. confirmed \in Nat /\ last_offset \in Nat
      BY DEF TelegramInv, TelegramTypeOK
    <2>2. Base' = Later(confirmed, 0)
      BY DEF Base, TelegramDown, telegram
    <2>3. QED BY <2>1, <2>2 DEF Base, Later
  <1>3. BatchInv'
    BY <1>2 DEF TelegramInv, TelegramTypeOK, BatchInv, BusyPhases, TelegramDown, telegram
  <1>4. ServedInv'
    BY <1>2 DEF TelegramInv, ServedInv, Served, TelegramDown, telegram, history
  <1>5. PairedInv' /\ PartsInv' /\ HistoryInv'
    BY DEF TelegramInv, PairedInv, PartsInv, HistoryInv, TelegramDown, telegram, history
  <1>6. QED BY <1>1, <1>3, <1>4, <1>5 DEF TelegramInv

LEMMA TelegramBootKeeps ==
  ASSUME TelegramInv, TelegramBoot
  PROVE  TelegramInv'
  BY DEF TelegramInv, TelegramTypeOK, BatchInv, ServedInv, Served, PairedInv, PartsInv,
       HistoryInv, Base, BusyPhases, TelegramBoot, telegram, history

LEMMA TelegramKeeps ==
  ASSUME TelegramInv, TelegramNext \/ UNCHANGED telegramVars
  PROVE  TelegramInv'
  <1>1. CASE UNCHANGED telegramVars
    BY <1>1 DEF telegramVars, TelegramInv, TelegramTypeOK, BatchInv, ServedInv, Served,
         PairedInv, PartsInv, HistoryInv, Base, Current, Kind, User
  <1>2. CASE TelegramNext
    BY <1>2, UserSendsKeeps, FetchKeeps, FetchFailsKeeps, BackoffKeeps, IgnoreKeeps,
       PairAgainKeeps, PersistPairingKeeps, SwapPairingKeeps, TurnAwayKeeps, AdmitKeeps,
       InnerTakesKeeps, InnerReturnsKeeps, InnerFailsKeeps, TelegramBootKeeps
       DEF TelegramNext, TelegramStep
  <1>3. QED BY <1>1, <1>2

------------------------------------------------------------------------------
(* The inductive invariant of the Slack side *)

(* The dedup holds the last envelopes accepted. *)
WindowInv ==
  /\ Len(order) <= Window
  /\ Len(order) <= Len(accepted)
  /\ Len(order) < Window => Len(order) = Len(accepted)
  /\ \A i \in 1..Len(order) : order[i] = accepted[Len(accepted) - Len(order) + i]

ApartInv ==
  \A i, j \in DOMAIN accepted : i < j /\ accepted[i] = accepted[j] => j - i > Window

(* A connection that acknowledges has a frame to go on with. *)
FramesInv == \A c \in Conns : conn[c] = "acking" => frames[c] # <<>>

(* Envelopes a connection is about to accept. *)
AtHand == {Head(frames[c]) : c \in {k \in Conns : conn[k] = "acking"}}

(* Whatever was accepted was dispatched or excused, and whatever is or will *)
(* be acknowledged is one of these or about to be.                          *)
AckedInv ==
  /\ \A i \in DOMAIN accepted : accepted[i] \in dispatched \cup excused
  /\ acked \cup reacks \subseteq dispatched \cup excused \cup AtHand

SlackInv ==
  /\ SlackTypeOK
  /\ WindowInv
  /\ ApartInv
  /\ FramesInv
  /\ AckedInv

(* with_capacity leaves a window of at least one. *)
LEMMA WindowIsPositive == Window \in Nat /\ Window >= 1
  BY IngressAssumption DEF Window

(* accept keeps the last Window ids, and takes none that is among them. *)
LEMMA RememberKeeps ==
  ASSUME SlackInv, NEW e \in Envelopes, e \notin Seen, Remember(e),
         accepted' = Append(accepted, e)
  PROVE  /\ order' \in Seq(Envelopes) /\ accepted' \in Seq(Envelopes)
         /\ WindowInv' /\ ApartInv'
  <1>1. /\ order \in Seq(Envelopes) /\ accepted \in Seq(Envelopes)
        /\ Len(order) \in Nat /\ Len(accepted) \in Nat
    BY DEF SlackInv, SlackTypeOK
  <1>2. accepted' \in Seq(Envelopes) /\ order' \in Seq(Envelopes)
    BY <1>1 DEF Remember
  <1>3. /\ Len(accepted') = Len(accepted) + 1
        /\ accepted'[Len(accepted) + 1] = e
        /\ \A i \in 1..Len(accepted) : accepted'[i] = accepted[i]
    BY <1>1
  <1>4. WindowInv'
    <2> DEFINE pushed == Append(order, e)
    <2>1. /\ Len(pushed) = Len(order) + 1 /\ pushed[Len(order) + 1] = e
          /\ \A i \in 1..Len(order) : pushed[i] = order[i]
          /\ pushed \in Seq(Envelopes)
      BY <1>1
    <2>2. Window' = Window
      BY DEF Window
    <2>3. \A i \in 1..Len(pushed) : pushed[i] = accepted'[Len(accepted) - Len(order) + i]
      <3>1. SUFFICES ASSUME NEW i \in 1 .. Len(order) + 1
                     PROVE  pushed[i] = accepted'[Len(accepted) - Len(order) + i]
        BY <2>1
      <3>2. CASE i = Len(order) + 1
        BY <1>1, <1>3, <2>1, <3>2 DEF SlackInv, WindowInv
      <3>3. CASE i \in 1..Len(order)
        <4>1. pushed[i] = accepted[Len(accepted) - Len(order) + i]
          BY <2>1, <3>3 DEF SlackInv, WindowInv
        <4>2. Len(accepted) - Len(order) + i \in 1..Len(accepted)
          BY <1>1, <3>3 DEF SlackInv, WindowInv
        <4>3. QED BY <1>3, <4>1, <4>2
      <3>4. i = Len(order) + 1 \/ i \in 1..Len(order)
        BY <1>1, <3>1
      <3>5. QED BY <3>2, <3>3, <3>4
    <2>4. CASE Len(pushed) > Window
      <3>1. order' = Tail(pushed) /\ Len(order) = Window
        BY <1>1, <2>1, <2>4, WindowIsPositive DEF Remember, SlackInv, WindowInv
      <3>2. Len(order') = Window /\ \A i \in 1..Window : order'[i] = pushed[i + 1]
        BY <1>1, <2>1, <3>1, WindowIsPositive
      <3>3. ASSUME NEW i \in 1..Window
            PROVE  order'[i] = accepted'[Len(accepted') - Len(order') + i]
        <4>1. order'[i] = pushed[i + 1] /\ i + 1 \in 1..Len(pushed)
          BY <2>1, <3>1, <3>2, <3>3, WindowIsPositive
        <4>2. pushed[i + 1] = accepted'[Len(accepted) - Len(order) + (i + 1)]
          BY <2>3, <4>1
        <4>3. Len(accepted) - Len(order) + (i + 1) = Len(accepted') - Len(order') + i
          <5>1. i \in Nat /\ Len(order') = Len(order) /\ Len(order) \in Nat
            BY <1>1, <3>1, <3>2, <3>3, WindowIsPositive
          <5>2. QED BY <1>1, <1>3, <5>1
        <4>4. QED BY <4>1, <4>2, <4>3
      <3>4. Len(order') <= Len(accepted')
        BY <1>1, <1>3, <3>1, <3>2, WindowIsPositive DEF SlackInv, WindowInv
      <3>5. QED
        BY <2>2, <3>2, <3>3, <3>4, WindowIsPositive DEF WindowInv
    <2>5. CASE ~(Len(pushed) > Window)
      <3>1. order' = pushed
        BY <2>5 DEF Remember
      <3>2. Len(order) < Window /\ Len(order) = Len(accepted)
        BY <1>1, <2>1, <2>5, WindowIsPositive DEF SlackInv, WindowInv
      <3>3. QED
        BY <1>1, <1>3, <2>1, <2>2, <2>3, <3>1, <3>2, WindowIsPositive DEF WindowInv
    <2>6. QED BY <2>4, <2>5
  <1>5. ApartInv'
    <2>1. SUFFICES ASSUME NEW i \in DOMAIN accepted', NEW j \in DOMAIN accepted',
                          i < j, accepted'[i] = accepted'[j]
                   PROVE  j - i > Window
      BY DEF ApartInv, Window
    <2>2. i \in 1 .. Len(accepted) + 1 /\ j \in 1 .. Len(accepted) + 1 /\ i \in 1..Len(accepted)
      BY <1>1, <1>2, <1>3, <2>1
    <2>3. CASE j \in 1..Len(accepted)
      BY <1>1, <1>3, <2>1, <2>2, <2>3 DEF SlackInv, ApartInv
    <2>4. CASE j = Len(accepted) + 1
      <3>1. SUFFICES ASSUME ~(j - i > Window) PROVE FALSE
        OBVIOUS
      <3>2. accepted[i] = e
        BY <1>3, <2>1, <2>2, <2>4
      <3>3. PICK k : k = i - (Len(accepted) - Len(order))
        OBVIOUS
      <3>4. k \in 1..Len(order)
        BY <1>1, <2>2, <2>4, <3>1, <3>3, WindowIsPositive DEF SlackInv, WindowInv
      <3>5. Len(accepted) - Len(order) + k = i
        BY <1>1, <2>2, <3>3
      <3>6. order[k] = e
        BY <3>2, <3>4, <3>5 DEF SlackInv, WindowInv
      <3>7. QED BY <1>1, <3>4, <3>6 DEF Seen
    <2>5. QED BY <2>2, <2>3, <2>4
  <1>6. QED BY <1>2, <1>4, <1>5

(* What is in the window was dispatched or excused. *)
LEMMA SeenWasAccepted ==
  ASSUME SlackInv
  PROVE  Seen \subseteq dispatched \cup excused
  <1>1. SUFFICES ASSUME NEW i \in 1..Len(order) PROVE order[i] \in dispatched \cup excused
    BY DEF SlackInv, SlackTypeOK, Seen
  <1>2. /\ order[i] = accepted[Len(accepted) - Len(order) + i]
        /\ Len(accepted) - Len(order) + i \in DOMAIN accepted
    BY DEF SlackInv, SlackTypeOK, WindowInv
  <1>3. QED BY <1>2 DEF SlackInv, AckedInv

(* The envelope a connection handles is one. *)
LEMMA FrameIsEnvelope ==
  ASSUME SlackInv, NEW c \in Conns, frames[c] # <<>>
  PROVE  /\ Head(frames[c]) \in Envelopes
         /\ Tail(frames[c]) \in Seq(Envelopes)
  <1>1. frames[c] \in Seq(Envelopes)
    BY DEF SlackInv, SlackTypeOK
  <1>2. QED BY <1>1

LEMMA AppendKeepsHead ==
  ASSUME NEW seq \in Seq(Envelopes), seq # <<>>, NEW e \in Envelopes
  PROVE  Append(seq, e) # <<>> /\ Head(Append(seq, e)) = Head(seq)
  OBVIOUS

(* A delivery is appended: what a connection handles stays first. *)
LEMMA DeliveryKeeps ==
  ASSUME SlackInv, NEW e \in Envelopes, published' \subseteq Envelopes,
         frames' \in [Conns -> Seq(Envelopes)],
         \A c \in Conns : frames'[c] = frames[c] \/ frames'[c] = Append(frames[c], e),
         skBudget' \in [envelopes : Nat, copies : Nat, faults : Nat],
         UNCHANGED <<acked, conn, order, reacks, listening, records>>
  PROVE  SlackInv'
  <1>1. \A c \in Conns : frames[c] \in Seq(Envelopes)
    BY DEF SlackInv, SlackTypeOK
  <1>2. \A c \in Conns : frames[c] # <<>> =>
          frames'[c] # <<>> /\ Head(frames'[c]) = Head(frames[c])
    BY <1>1, AppendKeepsHead
  <1>3. SlackTypeOK' /\ WindowInv' /\ ApartInv'
    BY DEF SlackInv, SlackTypeOK, WindowInv, ApartInv, Window, records
  <1>4. FramesInv'
    BY <1>2 DEF SlackInv, FramesInv
  <1>5. AtHand \subseteq AtHand'
    BY <1>2 DEF SlackInv, FramesInv, AtHand
  <1>6. AckedInv'
    BY <1>5 DEF SlackInv, AckedInv, records
  <1>7. QED BY <1>3, <1>4, <1>6 DEF SlackInv

LEMMA PublishKeeps ==
  ASSUME SlackInv, NEW e \in Envelopes, Publish(e)
  PROVE  SlackInv'
  <1>1. frames' \in [Conns -> Seq(Envelopes)] /\ published' \subseteq Envelopes
    BY DEF SlackInv, SlackTypeOK, Publish
  <1>2. \A c \in Conns : frames'[c] = frames[c] \/ frames'[c] = Append(frames[c], e)
    BY DEF Publish
  <1>3. skBudget' \in [envelopes : Nat, copies : Nat, faults : Nat]
    <2>1. skBudget \in [envelopes : Nat, copies : Nat, faults : Nat]
      BY DEF SlackInv, SlackTypeOK
    <2>2. QED BY <2>1 DEF Publish
  <1>4. QED BY <1>1, <1>2, <1>3, DeliveryKeeps DEF Publish

LEMMA RedeliverKeeps ==
  ASSUME SlackInv, NEW c \in Conns, NEW e \in Envelopes, Redeliver(c, e)
  PROVE  SlackInv'
  <1>1. frames' \in [Conns -> Seq(Envelopes)] /\ published' \subseteq Envelopes
    BY DEF SlackInv, SlackTypeOK, Redeliver
  <1>2. \A k \in Conns : frames'[k] = frames[k] \/ frames'[k] = Append(frames[k], e)
    BY DEF SlackInv, SlackTypeOK, Redeliver
  <1>3. skBudget' \in [envelopes : Nat, copies : Nat, faults : Nat]
    <2>1. skBudget \in [envelopes : Nat, copies : Nat, faults : Nat]
      BY DEF SlackInv, SlackTypeOK
    <2>2. QED BY <2>1 DEF Redeliver
  <1>4. QED BY <1>1, <1>2, <1>3, DeliveryKeeps DEF Redeliver

(* A connection that opens, closes or stops between two envelopes. *)
LEMMA TurnoverKeeps ==
  ASSUME SlackInv, NEW c \in Conns, conn[c] # "acking",
         NEW phase \in {"closed", "open", "stopped"},
         conn' = [conn EXCEPT ![c] = phase],
         frames' = [frames EXCEPT ![c] = <<>>] \/ UNCHANGED frames,
         skBudget' \in [envelopes : Nat, copies : Nat, faults : Nat],
         UNCHANGED <<published, acked, order, reacks, listening, records>>
  PROVE  SlackInv'
  <1>1. \A k \in Conns : conn'[k] = "acking" <=> conn[k] = "acking"
    BY DEF SlackInv, SlackTypeOK
  <1>2. \A k \in Conns : conn[k] = "acking" => frames'[k] = frames[k]
    BY DEF SlackInv, SlackTypeOK
  <1>3. frames' \in [Conns -> Seq(Envelopes)]
    <2>1. <<>> \in Seq(Envelopes)
      OBVIOUS
    <2>2. QED BY <2>1 DEF SlackInv, SlackTypeOK
  <1>4. SlackTypeOK'
    BY <1>3 DEF SlackInv, SlackTypeOK, records
  <1>5. WindowInv' /\ ApartInv'
    BY DEF SlackInv, WindowInv, ApartInv, Window, records
  <1>6. FramesInv'
    BY <1>1, <1>2 DEF SlackInv, FramesInv
  <1>7. AckedInv'
    <2>1. AtHand \subseteq AtHand'
      BY <1>1, <1>2 DEF AtHand
    <2>2. QED BY <2>1 DEF SlackInv, AckedInv, records
  <1>8. QED BY <1>4, <1>5, <1>6, <1>7 DEF SlackInv

LEMMA FaultBudget ==
  ASSUME SlackInv, SlackFault
  PROVE  skBudget' \in [envelopes : Nat, copies : Nat, faults : Nat]
  <1>1. skBudget \in [envelopes : Nat, copies : Nat, faults : Nat]
    BY DEF SlackInv, SlackTypeOK
  <1>2. QED BY <1>1 DEF SlackFault

LEMMA ConnectKeeps ==
  ASSUME SlackInv, NEW c \in Conns, Connect(c) \/ AuthRejected(c) \/ Disconnect(c)
  PROVE  SlackInv'
  <1>1. skBudget' \in [envelopes : Nat, copies : Nat, faults : Nat]
    BY FaultBudget DEF SlackInv, SlackTypeOK, Connect, AuthRejected, Disconnect
  <1>2. CASE Connect(c)
    BY <1>1, <1>2, TurnoverKeeps DEF Connect
  <1>3. CASE AuthRejected(c)
    BY <1>1, <1>3, TurnoverKeeps DEF AuthRejected
  <1>4. CASE Disconnect(c)
    BY <1>1, <1>4, TurnoverKeeps DEF Disconnect, Close
  <1>5. QED BY <1>2, <1>3, <1>4

(* What is acknowledged, or will be, is at hand. *)
LEMMA AckKeeps ==
  ASSUME SlackInv, NEW c \in Conns, Ack(c)
  PROVE  SlackInv'
  <1>0. PICK e : e = Head(frames[c])
    OBVIOUS
  <1>1. e \in Envelopes
    BY <1>0, FrameIsEnvelope DEF Ack
  <1>2. skBudget' \in [envelopes : Nat, copies : Nat, faults : Nat]
    BY FaultBudget DEF SlackInv, SlackTypeOK, Ack
  <1>3. /\ acked' \subseteq acked \cup {e} /\ reacks' \subseteq reacks \cup {e}
        /\ conn' = [conn EXCEPT ![c] = "acking"]
        /\ UNCHANGED <<published, frames, order, listening, records>>
    BY <1>0 DEF Ack
  <1>4. SlackTypeOK'
    BY <1>1, <1>2, <1>3 DEF SlackInv, SlackTypeOK, records
  <1>5. WindowInv' /\ ApartInv'
    BY <1>3 DEF SlackInv, WindowInv, ApartInv, Window, records
  <1>6. FramesInv'
    BY <1>3 DEF SlackInv, SlackTypeOK, FramesInv, Ack
  <1>7. AckedInv'
    <2>1. AtHand \subseteq AtHand' /\ e \in AtHand'
      BY <1>0, <1>3 DEF SlackInv, SlackTypeOK, AtHand
    <2>2. QED BY <1>3, <2>1 DEF SlackInv, AckedInv, records
  <1>8. QED BY <1>4, <1>5, <1>6, <1>7 DEF SlackInv

LEMMA AckFailsKeeps ==
  ASSUME SlackInv, NEW c \in Conns, AckFails(c)
  PROVE  SlackInv'
  <1>0. PICK e : e = Head(frames[c])
    OBVIOUS
  <1>1. e \in Envelopes
    BY <1>0, FrameIsEnvelope DEF AckFails
  <1>2. skBudget' \in [envelopes : Nat, copies : Nat, faults : Nat]
    BY FaultBudget DEF AckFails
  <1>3. /\ \/ acked' = acked \cup {e} /\ excused' = excused \cup {e}
           \/ UNCHANGED <<acked, excused>>
        /\ conn' = [conn EXCEPT ![c] = "closed"]
        /\ frames' = [frames EXCEPT ![c] = <<>>]
        /\ UNCHANGED <<published, order, reacks, listening, accepted, dispatched>>
    BY <1>0 DEF AckFails, Close
  <1>4. SlackTypeOK'
    <2>1. <<>> \in Seq(Envelopes)
      OBVIOUS
    <2>2. QED BY <1>1, <1>2, <1>3, <2>1 DEF SlackInv, SlackTypeOK
  <1>5. WindowInv' /\ ApartInv'
    BY <1>3 DEF SlackInv, WindowInv, ApartInv, Window
  <1>6. FramesInv'
    BY <1>3 DEF SlackInv, SlackTypeOK, FramesInv
  <1>7. AckedInv'
    <2>1. conn[c] = "open"
      BY DEF AckFails
    <2>2. AtHand \subseteq AtHand'
      BY <1>3, <2>1 DEF SlackInv, SlackTypeOK, AtHand
    <2>3. QED BY <1>3, <2>2 DEF SlackInv, AckedInv
  <1>8. QED BY <1>4, <1>5, <1>6, <1>7 DEF SlackInv

LEMMA ReAckKeeps ==
  ASSUME SlackInv, NEW e \in Envelopes, ReAck(e)
  PROVE  SlackInv'
  <1>1. AtHand' = AtHand
    BY DEF ReAck, AtHand
  <1>2. AckedInv'
    BY <1>1 DEF SlackInv, AckedInv, ReAck, records
  <1>3. QED
    BY <1>2 DEF SlackInv, SlackTypeOK, WindowInv, ApartInv, FramesInv, Window, ReAck, records

(* A connection goes on to its next frame once it has accepted this one. *)
LEMMA NextFrame ==
  ASSUME SlackInv, NEW c \in Conns, conn[c] = "acking", NEW e, e = Head(frames[c]),
         NEW phase \in {"open", "closed"}, conn' = [conn EXCEPT ![c] = phase],
         \/ frames' = [frames EXCEPT ![c] = Tail(@)]
         \/ frames' = [frames EXCEPT ![c] = <<>>]
  PROVE  /\ e \in Envelopes
         /\ frames' \in [Conns -> Seq(Envelopes)]
         /\ conn' \in [Conns -> {"down", "closed", "open", "acking", "stopped"}]
         /\ FramesInv' /\ AtHand \subseteq AtHand' \cup {e}
  <1>1. e \in Envelopes /\ Tail(frames[c]) \in Seq(Envelopes) /\ <<>> \in Seq(Envelopes)
    BY FrameIsEnvelope DEF SlackInv, FramesInv
  <1>2. /\ frames' \in [Conns -> Seq(Envelopes)]
        /\ conn' \in [Conns -> {"down", "closed", "open", "acking", "stopped"}]
    BY <1>1 DEF SlackInv, SlackTypeOK
  <1>3. \A k \in Conns : k # c => frames'[k] = frames[k] /\ conn'[k] = conn[k]
    BY DEF SlackInv, SlackTypeOK
  <1>4. conn'[c] # "acking"
    BY DEF SlackInv, SlackTypeOK
  <1>5. FramesInv'
    BY <1>3, <1>4 DEF SlackInv, FramesInv
  <1>6. AtHand \subseteq AtHand' \cup {e}
    BY <1>3 DEF AtHand
  <1>7. QED BY <1>1, <1>2, <1>5, <1>6

LEMMA SkipDuplicateKeeps ==
  ASSUME SlackInv, NEW c \in Conns, SkipDuplicate(c)
  PROVE  SlackInv'
  <1>0. PICK e : e = Head(frames[c])
    OBVIOUS
  <1>1. /\ frames' \in [Conns -> Seq(Envelopes)]
        /\ conn' \in [Conns -> {"down", "closed", "open", "acking", "stopped"}]
        /\ FramesInv' /\ AtHand \subseteq AtHand' \cup {e}
    BY <1>0, NextFrame DEF SkipDuplicate
  <1>2. e \in dispatched \cup excused
    BY <1>0, SeenWasAccepted DEF SkipDuplicate
  <1>3. AckedInv'
    BY <1>1, <1>2 DEF SlackInv, AckedInv, SkipDuplicate, records
  <1>4. QED
    BY <1>1, <1>3 DEF SlackInv, SlackTypeOK, WindowInv, ApartInv, Window, SkipDuplicate, records

LEMMA AcceptKeeps ==
  ASSUME SlackInv, NEW c \in Conns, Dispatch(c) \/ Malformed(c)
  PROVE  SlackInv'
  <1>0. PICK e : e = Head(frames[c])
    OBVIOUS
  <1>1. /\ e \in Envelopes
        /\ frames' \in [Conns -> Seq(Envelopes)]
        /\ conn' \in [Conns -> {"down", "closed", "open", "acking", "stopped"}]
        /\ FramesInv' /\ AtHand \subseteq AtHand' \cup {e}
    BY <1>0, NextFrame DEF Dispatch, Malformed, Close
  <1>2. e \notin Seen /\ Remember(e) /\ accepted' = Append(accepted, e)
    BY <1>0 DEF Dispatch, Malformed
  <1>3. order' \in Seq(Envelopes) /\ accepted' \in Seq(Envelopes) /\ WindowInv' /\ ApartInv'
    BY <1>1, <1>2, RememberKeeps
  <1>4. /\ dispatched \subseteq dispatched' /\ excused \subseteq excused'
        /\ e \in dispatched' \cup excused'
        /\ dispatched' \subseteq dispatched \cup {e} /\ excused' \subseteq excused \cup {e}
        /\ listening' \subseteq listening \cup {e}
        /\ UNCHANGED <<published, acked, reacks>>
    BY <1>0 DEF Dispatch, Malformed
  <1>5. skBudget' \in [envelopes : Nat, copies : Nat, faults : Nat]
    BY FaultBudget DEF SlackInv, SlackTypeOK, Dispatch, Malformed
  <1>6. SlackTypeOK'
    BY <1>1, <1>3, <1>4, <1>5 DEF SlackInv, SlackTypeOK
  <1>7. AckedInv'
    <2>1. \A i \in DOMAIN accepted' :
            accepted'[i] = e \/ \E j \in DOMAIN accepted : accepted'[i] = accepted[j]
      BY <1>1, <1>2 DEF SlackInv, SlackTypeOK
    <2>2. QED BY <1>1, <1>4, <2>1 DEF SlackInv, AckedInv
  <1>8. QED BY <1>1, <1>3, <1>6, <1>7 DEF SlackInv

LEMMA ListenersEndKeeps ==
  ASSUME SlackInv, NEW e \in Envelopes, ListenersEnd(e)
  PROVE  SlackInv'
  <1>1. AtHand' = AtHand
    BY DEF ListenersEnd, AtHand
  <1>2. QED
    BY <1>1 DEF SlackInv, SlackTypeOK, WindowInv, ApartInv, FramesInv, AckedInv, Window,
         ListenersEnd, records

(* What was at hand when the process ended is excused. *)
LEMMA SlackDownKeeps ==
  ASSUME SlackInv, SlackDown
  PROVE  SlackInv'
  <1>1. <<>> \in Seq(Envelopes)
    OBVIOUS
  <1>2. AtHand \subseteq Envelopes
    <2>1. SUFFICES ASSUME NEW c \in Conns, conn[c] = "acking" PROVE Head(frames[c]) \in Envelopes
      BY DEF AtHand
    <2>2. QED BY FrameIsEnvelope, <2>1 DEF SlackInv, FramesInv
  <1>3. excused' = excused \cup AtHand
    BY DEF SlackDown, AtHand
  <1>4. SlackTypeOK'
    BY <1>1, <1>2, <1>3 DEF SlackInv, SlackTypeOK, SlackDown
  <1>5. WindowInv' /\ ApartInv'
    BY WindowIsPositive DEF WindowInv, ApartInv, SlackDown, Window
  <1>6. FramesInv'
    BY DEF FramesInv, SlackDown
  <1>7. AckedInv'
    BY <1>3 DEF SlackInv, AckedInv, SlackDown
  <1>8. QED BY <1>4, <1>5, <1>6, <1>7 DEF SlackInv

LEMMA SlackBootKeeps ==
  ASSUME SlackInv, SlackBoot
  PROVE  SlackInv'
  <1>1. AtHand = {} /\ AtHand' = {}
    BY DEF SlackBoot, AtHand
  <1>2. QED
    BY <1>1 DEF SlackInv, SlackTypeOK, WindowInv, ApartInv, FramesInv, AckedInv, Window,
         SlackBoot, records

LEMMA SlackKeeps ==
  ASSUME SlackInv, SlackNext \/ UNCHANGED slackVars
  PROVE  SlackInv'
  <1>1. CASE UNCHANGED slackVars
    BY <1>1 DEF slackVars, SlackInv, SlackTypeOK, WindowInv, ApartInv, FramesInv, AckedInv,
         AtHand, Window
  <1>2. CASE SlackNext
    BY <1>2, PublishKeeps, RedeliverKeeps, ConnectKeeps, AckKeeps, AckFailsKeeps, ReAckKeeps,
       SkipDuplicateKeeps, AcceptKeeps, ListenersEndKeeps, SlackBootKeeps DEF SlackNext
  <1>3. QED BY <1>1, <1>2

------------------------------------------------------------------------------
(* The composition *)

IngressInv == TelegramInv /\ SlackInv

LEMMA IngressStarts ==
  ASSUME Init
  PROVE  IngressInv
  <1>1. PICK b \in Budgets : TelegramInit(b.telegram) /\ SlackInit(b.slack)
    BY DEF Init
  <1>2. /\ b.telegram \in [updates : Nat, faults : Nat]
        /\ b.slack \in [envelopes : Nat, copies : Nat, faults : Nat]
    BY IngressAssumption
  <1>3. TelegramInv
    <2>1. TelegramTypeOK
      BY <1>1, <1>2 DEF TelegramTypeOK, TelegramInit
    <2>2. Base = 0
      BY <1>1 DEF Base, Later, TelegramInit
    <2>3. QED
      BY <1>1, <2>1, <2>2 DEF TelegramInv, BatchInv, BusyPhases, ServedInv, PairedInv,
         PartsInv, HistoryInv, TelegramInit
  <1>4. SlackInv
    <2>1. SlackTypeOK
      BY <1>1, <1>2 DEF SlackTypeOK, SlackInit
    <2>2. QED
      BY <1>1, <2>1, WindowIsPositive DEF SlackInv, WindowInv, ApartInv, FramesInv, AckedInv,
         AtHand, SlackInit
  <1>5. QED BY <1>3, <1>4 DEF IngressInv

LEMMA IngressStep ==
  ASSUME IngressInv, [Next]_vars
  PROVE  IngressInv'
  BY TelegramKeeps, TelegramDownKeeps, SlackKeeps, SlackDownKeeps
     DEF IngressInv, Next, Down, vars

(* THEOREM: every reachable state is well typed, and the invariants the     *)
(* other three rest on hold: the batch has no gap, the window is the last   *)
(* envelopes accepted (tick_once, EnvelopeDedup::accept).                   *)
THEOREM IngressInvHolds == Spec => []IngressInv
  <1>1. Init => IngressInv
    BY IngressStarts
  <1>2. IngressInv /\ [Next]_vars => IngressInv'
    BY IngressStep
  <1>3. QED BY <1>1, <1>2, PTL DEF Spec

(* THEOREM: whatever fails and whenever the process ends, Telegram forgets  *)
(* no update before it was served (tick_once, advance_offset).              *)
THEOREM UpdatesAreServed == Spec => []ConfirmedUpdatesAreServed
  <1>1. IngressInv => ConfirmedUpdatesAreServed
    BY DEF IngressInv, TelegramInv, TelegramTypeOK, ServedInv, ConfirmedUpdatesAreServed,
         Base, Later
  <1>2. QED BY <1>1, IngressInvHolds, PTL

(* THEOREM: who was told to be paired is in the file, nobody's message      *)
(* reaches the agent before, and nobody is turned away after                *)
(* (FilePairingStore::add, PairingInbox).                                   *)
THEOREM PairingLasts == Spec => []PairingIsDurable
  <1>1. IngressInv => PairingIsDurable
    BY DEF IngressInv, TelegramInv, HistoryInv, PairingIsDurable
  <1>2. QED BY <1>1, IngressInvHolds, PTL

(* THEOREM: no envelope is accepted twice within a window, and an           *)
(* acknowledged one was dispatched or is about to be, but for the excused   *)
(* ones (handle_envelope, EnvelopeDedup::accept).                           *)
THEOREM EnvelopesAreDispatchedOnce == Spec => []EnvelopesDispatchOnce
  <1>1. IngressInv => EnvelopesDispatchOnce
    BY DEF IngressInv, SlackInv, ApartInv, AckedInv, AtHand, EnvelopesDispatchOnce
  <1>2. QED BY <1>1, IngressInvHolds, PTL
==============================================================================
