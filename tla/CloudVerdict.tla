---------------------------- MODULE CloudVerdict ----------------------------
(***************************************************************************)
(* What scripts/cloud_progress_monitor.py concludes from the metadata of   *)
(* one workflow run: the pinned item it is compared with, the run, the set *)
(* of its jobs and its terminal releases.  Names of heads, branches and    *)
(* jobs are model values; an age is OVERDUE or not; an asset descriptor    *)
(* says how many assets carry its suffix and what reading it would show.   *)
(***************************************************************************)
EXTENDS Naturals, FiniteSets, Sequences, SequencesExt

TERMINAL_BAD == {"failure", "cancelled", "timed_out", "action_required",
                 "startup_failure", "stale"}
MONITOR_JOBS == {"controls", "observe"}

Bad(jobs) == \E j \in jobs : j.conclusion \in TERMINAL_BAD

classify(run, jobs) ==
  IF run.status = "completed"
  THEN CASE run.conclusion \in TERMINAL_BAD -> "FAILED"
         [] run.conclusion = "success" ->
              IF Bad(jobs) THEN "FAILED_JOB" ELSE "COMPLETED_ACTIONS"
         [] OTHER -> "NOT_EXECUTED"
  ELSE CASE Bad(jobs) -> "FAILED_JOB"
         [] ~Bad(jobs) /\ \E j \in jobs : j.status = "in_progress" /\ j.overdue ->
              "STALLED_OVER_6H"
         [] OTHER -> IF run.status = "in_progress" THEN "RUNNING" ELSE "PENDING"

(* One asset of a terminal release: absent, chosen and read, or skipped.   *)
(* An exact name wins over several assets with the suffix.  "refused" is   *)
(* an assertion: the whole read of the run fails.                          *)
Descriptor(a) ==
  CASE a.matches = 0                     -> "absent"
    [] a.matches > 1 /\ a.exact # 1      -> "skipped"
    [] a.matches = 1 \/ a.exact = 1 ->
         CASE a.size = "none"                  -> "refused"
           [] a.size = "over"                  -> "skipped"
           [] a.size = "fits" /\ a.authentic   -> "read"
           [] a.size = "fits" /\ ~a.authentic  -> "refused"

(* A release read: native status and both descriptors.                     *)
Report(rel) ==
  [native   |-> IF Descriptor(rel.summary) = "read" THEN rel.native ELSE "none",
   complete |-> Descriptor(rel.summary) = "read" /\ Descriptor(rel.parts) = "read",
   skipped  |-> "skipped" \in {Descriptor(rel.summary), Descriptor(rel.parts)}]

ReportsRefused(releases) ==
  \E rel \in Range(releases) :
    "refused" \in {Descriptor(rel.summary), Descriptor(rel.parts)}

terminal_reports(releases) == [i \in DOMAIN releases |-> Report(releases[i])]

(* Only the monitor's own two-job workflow may be observed on main.        *)
main_monitor_refusal(item, run, jobs) ==
  LET names == {j.name : j \in jobs}
  IN  \/ item.production_jobs # MONITOR_JOBS
      \/ ~run.own_workflow
      \/ run.event \notin {"schedule", "workflow_dispatch"}
      \/ ~(names \subseteq MONITOR_JOBS) \/ Cardinality(names) # Cardinality(jobs)
      \/ run.status = "completed" /\ names # MONITOR_JOBS

AllSucceeded(jobs) ==
  \A j \in jobs : j.status = "completed" /\ j.conclusion = "success"

(* The chain of collect: classification of one observed run.               *)
JobVerdict(item, run, jobs) ==
  LET main       == item.branch = "main"
      category   == classify(run, jobs)
      production == {j \in jobs : /\ j.name \in item.production_jobs
                                  /\ j.conclusion # "skipped"}
      reached    == IF /\ category = "COMPLETED_ACTIONS"
                       /\ item.production_jobs # {} /\ production = {}
                    THEN "NOT_EXECUTED" ELSE category
  IN  CASE main /\ main_monitor_refusal(item, run, jobs) -> "UNVERIFIED_REF"
        [] main /\ ~main_monitor_refusal(item, run, jobs) /\ reached = "COMPLETED_ACTIONS" ->
             IF AllSucceeded(jobs) THEN "COMPLETED_MONITOR" ELSE "NOT_EXECUTED"
        [] OTHER -> reached

Reports(item, run, releases) ==
  IF run.status = "completed" /\ item.branch # "main"
  THEN terminal_reports(releases) ELSE <<>>

publication_verified(reports) ==
  reports # <<>> /\ \A r \in Range(reports) : r.complete

Verdict(item, run, jobs, releases) ==
  LET reports  == Reports(item, run, releases)
      category == IF \E r \in Range(reports) : r.native = "FAIL"
                  THEN "FAILED_NATIVE_REPORT" ELSE JobVerdict(item, run, jobs)
  IN  CASE category = "COMPLETED_ACTIONS" /\ (\E r \in Range(reports) : r.skipped) ->
             "UNVERIFIED_TERMINAL_METADATA"
        [] /\ category = "COMPLETED_ACTIONS"
           /\ ~(\E r \in Range(reports) : r.skipped)
           /\ ~publication_verified(reports) -> "INCOMPLETE_PUBLICATION"
        [] OTHER -> category

(* Classifications that finalize_snapshot counts as problems.              *)
Problem(c) ==
  c \in {"FAILED", "FAILED_JOB", "FAILED_NATIVE_REPORT", "STALLED_OVER_6H",
         "INCOMPLETE_PUBLICATION", "UNVERIFIED_REF", "UNVERIFIED_TERMINAL_METADATA"}

(* collect refuses a run whose identity is not the pinned one, and a       *)
(* release it cannot authenticate.                                         *)
Refused(item, run, releases) ==
  \/ run.head # item.head \/ run.branch # item.branch
  \/ /\ run.status = "completed" /\ item.branch # "main"
     /\ ReportsRefused(releases)
=============================================================================
