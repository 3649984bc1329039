---------------------------- MODULE MCChannelInbox ----------------------------
(***************************************************************************)
(* Small instances of ChannelInbox for TLC.                                 *)
(***************************************************************************)
EXTENDS ChannelInbox, TLC

CONSTANTS m1, m2, stop1, c1

OneConv == [m \in Messages |-> c1]
==============================================================================
