------------------------------ MODULE JobLease ------------------------------
(***************************************************************************)
(* What the schedulers that share a cron store promise of every job: its    *)
(* claim is a lease.  One holder at a time has it, a batch first and then   *)
(* the worker the batch passes it to; it comes back when that holder        *)
(* returns it, or, once the holder is gone, when it is reclaimed.  A        *)
(* deleted job is never leased again, though its last holder may be at it.  *)
(***************************************************************************)
CONSTANTS
  Jobs,
  Holders

VARIABLES
  claimed,    \* the jobs the store says are taken
  holder,     \* who is at each job
  withdrawn   \* the deleted jobs

vars == <<claimed, holder, withdrawn>>

TypeOK ==
  /\ claimed \in SUBSET Jobs
  /\ holder \in [Jobs -> SUBSET Holders]
  /\ withdrawn \in SUBSET Jobs

Init ==
  /\ claimed = {}
  /\ holder = [j \in Jobs |-> {}]
  /\ withdrawn = {}

(* The holders of the jobs of S become H, and no other job changes hands. *)
Hands(S, H) == holder' = [j \in Jobs |-> IF j \in S THEN H ELSE holder[j]]

(* Nobody has these jobs, by the store's account and in fact. *)
Grant(S, h) ==
  /\ S \cap (claimed \cup withdrawn) = {}
  /\ \A j \in S : holder[j] = {}
  /\ claimed' = claimed \cup S
  /\ UNCHANGED withdrawn
  /\ Hands(S, {h})

Pass(j, h) ==
  /\ UNCHANGED <<claimed, withdrawn>>
  /\ holder[j] # {}
  /\ Hands({j}, {h})

(* The holder frees the claim and lets go in one step. *)
Return(j) ==
  /\ claimed' = claimed \ {j}
  /\ UNCHANGED withdrawn
  /\ holder[j] # {}
  /\ Hands({j}, {})

(* Holders that could not return their jobs: a fault, an abort, a crash. *)
Abandon(S) ==
  /\ UNCHANGED <<claimed, withdrawn>>
  /\ Hands(S, {})

Reclaim(S) ==
  /\ claimed' = claimed \ S
  /\ \A j \in S : holder[j] = {}
  /\ UNCHANGED <<holder, withdrawn>>

Withdraw(j) ==
  /\ claimed' = claimed \ {j}
  /\ withdrawn' = withdrawn \cup {j}
  /\ UNCHANGED holder

Next ==
  \/ \E S \in SUBSET Jobs : Abandon(S) \/ Reclaim(S)
  \/ \E j \in Jobs : Return(j) \/ Withdraw(j)
  \/ \E j \in Jobs, h \in Holders : Pass(j, h)
  \/ \E S \in SUBSET Jobs, h \in Holders : Grant(S, h)

Spec == Init /\ [][Next]_vars
==============================================================================
