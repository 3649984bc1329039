------------------------------ MODULE TaskStore ------------------------------
(***************************************************************************)
(* The row a TaskStore keeps for one task, and the transitions the store    *)
(* grants on it.  Every store call of the task executor is one atomic       *)
(* statement (a mutex section in the memory store, one UPDATE in the SQL    *)
(* stores), so each is an operator from a row to its successor.             *)
(*                                                                          *)
(* Kept of a row: its status, why it is paused, the error it failed with    *)
(* and the resumes counted against the cap.  Names, prompts, output and     *)
(* timestamps are abstracted away.                                          *)
(***************************************************************************)
EXTENDS Naturals

Causes == {"none", "shutdown", "forced", "crash"}

Errors == {"none", "cancelled", "timed_out", "no_final", "run_error",
           "resume_limit", "stuck", "not_resumable"}

(* A row that was never inserted is "absent". *)
Statuses == {"absent", "running", "paused", "done", "failed"}

Row == [status : Statuses, cause : Causes, error : Errors, resumes : Nat]

AbsentRow ==
  [status |-> "absent", cause |-> "none", error |-> "none", resumes |-> 0]

(* insert(): a fresh row is Running with no resume spent. *)
FreshRow == [AbsentRow EXCEPT !.status = "running"]

Terminal(w) == w.status \in {"done", "failed"}

(* finish(): unconditional, whatever the status it overwrites. *)
Finished(w, status, error) ==
  IF w.status = "absent" THEN w
  ELSE [w EXCEPT !.status = status, !.error = error, !.cause = "none"]

(* Mutants: the compare of pause() dropped, or made on the wrong status. *)
PausedRow_Unconditional(w, cause) ==
  IF w.status = "absent" THEN w ELSE [w EXCEPT !.status = "paused", !.cause = cause]

PausedRow_WrongCompare(w, cause) ==
  IF w.status # "paused" THEN w ELSE [w EXCEPT !.cause = cause]

(* pause(): compare-and-swap Running -> Paused. *)
PausedRow(w, cause) ==
  IF w.status # "running" THEN w
  ELSE [w EXCEPT !.status = "paused", !.cause = cause]

(* Mutants: clean pauses counted; a resume always spent.                    *)
CountsTowardCap_Always(w) == TRUE

ClaimedRow_AlwaysSpends(w) ==
  [w EXCEPT !.status = "running", !.cause = "none", !.resumes = @ + 1]

(* claim_for_resume(): compare-and-swap Paused -> Running.  A clean         *)
(* shutdown pause is always claimable; any other pause spends one resume.   *)
CountsTowardCap(w) == w.cause # "shutdown"

Claimable(w, maxResumes) ==
  /\ w.status = "paused"
  /\ CountsTowardCap(w) => w.resumes < maxResumes

ClaimedRow(w) ==
  [w EXCEPT !.status = "running",
            !.cause = "none",
            !.resumes = IF CountsTowardCap(w) THEN @ + 1 ELSE @]

(* The rejected claim that fail_when_cap_exhausted turns into a failure. *)
CapExhausted(w, maxResumes) ==
  /\ w.status = "paused"
  /\ CountsTowardCap(w)
  /\ w.resumes >= maxResumes

(* pause_orphans(): a Running row old enough becomes Paused(Crash).  With   *)
(* the default threshold of zero seconds every Running row is old enough.   *)
FoldedRow(w) == PausedRow(w, "crash")

(* recover_stuck(): the sweeper's verdict on a Running row gone stale. *)
SweptRow(w) == [w EXCEPT !.status = "failed", !.error = "stuck"]
==============================================================================
