---------------------------- MODULE ChannelIngress ----------------------------
(***************************************************************************)
(* The ways in of a process that runs both adapters.  They share nothing    *)
(* but the process: a crash, or the end of it, takes both down, and each    *)
(* comes back from what the other side and the disk remember.               *)
(***************************************************************************)
EXTENDS TelegramPoller, SlackSocket

CONSTANT Budgets    \* bound: what may happen in a behaviour

ASSUME IngressAssumption ==
  /\ MaxUpdates \in Nat
  /\ Capacity \in Nat
  /\ Budgets \subseteq [telegram : [updates : Nat, faults : Nat],
                        slack : [envelopes : Nat, copies : Nat, faults : Nat],
                        crashes : Nat]

VARIABLE crashes    \* ends of the process still to happen

vars == <<telegramVars, slackVars, crashes>>

Init ==
  \E b \in Budgets :
    /\ TelegramInit(b.telegram)
    /\ SlackInit(b.slack)
    /\ crashes = b.crashes

Down ==
  /\ crashes > 0
  /\ crashes' = crashes - 1
  /\ TelegramDown
  /\ SlackDown

Next ==
  \/ TelegramNext /\ UNCHANGED <<slackVars, crashes>>
  \/ SlackNext /\ UNCHANGED <<telegramVars, crashes>>
  \/ Down

Spec == Init /\ [][Next]_vars

(* The runtime polls the poller, its backoff timer goes off, and what it    *)
(* calls returns, receive included (HandlersReturn of ChannelInbox).        *)
FairSpec == Spec /\ WF_vars(TelegramStep /\ UNCHANGED <<slackVars, crashes>>)
==============================================================================
