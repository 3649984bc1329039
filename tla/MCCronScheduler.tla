--------------------------- MODULE MCCronScheduler ---------------------------
(***************************************************************************)
(* Small instances of CronScheduler for TLC.                                *)
(***************************************************************************)
EXTENDS CronScheduler, TLC

CONSTANTS j1, j2, j3, s1, s2, w1, w2

(* Jobs, worker slots and processes are interchangeable: no definition     *)
(* names one of them.                                                      *)
Symmetry == Permutations(Workers) \cup Permutations(Jobs) \cup Permutations(Schedulers)
==============================================================================
