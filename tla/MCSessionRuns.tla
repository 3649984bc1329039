---------------------------- MODULE MCSessionRuns ----------------------------
(***************************************************************************)
(* Small instances of SessionRuns for TLC.                                  *)
(***************************************************************************)
EXTENDS SessionSurvival, TLC

CONSTANTS r1, r2, r3, chat, dm

(* The later runs of the instance call fewer tools. *)
Batches == (r1 :> 2) @@ (r2 :> 1) @@ (r3 :> 0)
NoTools == [r \in Runs |-> 0]

(* Two runs of one conversation, and one of another. *)
Assigned == [r \in Runs |-> IF r = r3 THEN dm ELSE chat]
AllInOne == [r \in Runs |-> chat]

Nothing == [starts |-> 2, extras |-> 0, fallbacks |-> 0, injects |-> 0, cancels |-> 0,
            commands |-> 0, faults |-> 0, shutdowns |-> 0, reboots |-> 0]

Scenarios == {
  [Nothing EXCEPT !.extras = 1],
  [Nothing EXCEPT !.starts = 1, !.extras = 1, !.injects = 1],
  [Nothing EXCEPT !.cancels = 1],
  [Nothing EXCEPT !.shutdowns = 1, !.reboots = 1],
  [Nothing EXCEPT !.faults = 1],
  [Nothing EXCEPT !.commands = 1],
  [Nothing EXCEPT !.starts = 1, !.commands = 1, !.shutdowns = 1],
  [Nothing EXCEPT !.fallbacks = 1]}

Cancels == {[Nothing EXCEPT !.starts = 3, !.cancels = 1]}
==============================================================================
