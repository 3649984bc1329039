-------------------------- MODULE MCChannelIngress --------------------------
(***************************************************************************)
(* Small instances of ChannelIngress for TLC.                               *)
(***************************************************************************)
EXTENDS ChannelIngress

CONSTANTS u1, u2, c1, c2, e1, e2, e3

Quiet == [telegram |-> [updates |-> 0, faults |-> 0],
          slack |-> [envelopes |-> 0, copies |-> 0, faults |-> 0], crashes |-> 0]

(* One adapter has traffic at a time. *)
Traffic == {
  [Quiet EXCEPT !.telegram = [updates |-> 3, faults |-> 0], !.crashes = 1],
  [Quiet EXCEPT !.telegram = [updates |-> 2, faults |-> 1], !.crashes = 1],
  [Quiet EXCEPT !.slack = [envelopes |-> 3, copies |-> 0, faults |-> 0]],
  [Quiet EXCEPT !.slack = [envelopes |-> 2, copies |-> 1, faults |-> 1]],
  [Quiet EXCEPT !.slack = [envelopes |-> 2, copies |-> 0, faults |-> 0], !.crashes = 1]}
==============================================================================
