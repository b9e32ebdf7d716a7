-------------------------- MODULE PipelineRunLease --------------------------
(***************************************************************************)
(* The statement-level pipeline run implements the job lease.              *)
(***************************************************************************)
EXTENDS PipelineRunProps

PhaseOf(status) ==
    CASE status = "absent"                 -> "none"
      [] status = "queued"                 -> "waiting"
      [] status \in {"manual", "skipped"}  -> "parked"
      [] status = "running"                -> "held"
      [] status = "success"                -> "passed"
      [] status = "failure"                -> "failed"
      [] OTHER                             -> "cancelled"

leasePhase  == [j \in Jobs |-> PhaseOf(job[j].status)]
leaseHolder == [j \in Jobs |-> IF job[j].status = "running" THEN job[j].holder ELSE NoPod]
leaseBusy   == [p \in Pods |-> IF exec[p].phase = "idle" THEN {} ELSE {exec[p].job}]

Lease == INSTANCE JobLease WITH phase  <- leasePhase,
                                holder <- leaseHolder,
                                busy   <- leaseBusy

(* Whatever the handlers of concurrent requests, their crashes and late    *)
(* reports do to the rows, the runners see a lease: one holder at a time,  *)
(* begun by a claim, decided by its holder or taken back.  start_runner_job*)
(* never begins one, and a report never decides another process's.         *)
ImplementsLease == Lease!Spec

=============================================================================
