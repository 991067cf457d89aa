------------------------------- MODULE MCXtask ------------------------------
(* Invocations of stage and run, and then checks on what was staged, for   *)
(* TLC.                                                                    *)
EXTENDS QemuCheck, Staging

all_vars == <<vars, stage_vars>>

\* A check begins with stage_boot_tree and goes on if that succeeds.  It shares
\* no state with staging, so one tree is enough to follow the checks on.
TreeForChecks == Succeeded /\ source = 1 /\ failures = 0 /\ file["vars"] = Absent

StageOnly(step) == check = 0 /\ step /\ UNCHANGED vars

CheckOnly(step) == (check > 0 \/ TreeForChecks) /\ step /\ UNCHANGED stage_vars

MCInit == StageInit /\ Init

MCSpec ==
  /\ MCInit
  /\ [][StageOnly(StageNext) \/ CheckOnly(Next)]_all_vars
  /\ WF_all_vars(StageOnly(StageStep))
  /\ WF_all_vars(CheckOnly(HarnessStep)) /\ WF_all_vars(CheckOnly(TimePasses))
=============================================================================
