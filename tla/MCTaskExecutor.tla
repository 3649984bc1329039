---------------------------- MODULE MCTaskExecutor ----------------------------
(***************************************************************************)
(* Small instances of TaskExecutor for TLC.                                 *)
(***************************************************************************)
EXTENDS TaskExecutorSafety, TLC

CONSTANTS t1, t2, e1, e2, r1, r2, c1, c2

(* One executor: t1 alone, or t1 the parent of t2. *)
OneAgent  == [t \in Tasks |-> e1]
NoParents == [t \in Tasks |-> NoTask]
Family    == [t \in Tasks |-> IF t = t1 THEN NoTask ELSE t1]

(* Two executors over one store, a task for each. *)
TwoAgents == [t \in Tasks |-> IF t = t1 THEN e1 ELSE e2]

RunSymmetry == Permutations(Runs)
==============================================================================
