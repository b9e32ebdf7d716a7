-------------------------- MODULE PipelineRunProps --------------------------
(***************************************************************************)
(* What a pipeline run promises, over the statement-level model of         *)
(* PipelineRun.                                                            *)
(***************************************************************************)
EXTENDS PipelineRun

(* No request is being served: what a user reads now is not about to be    *)
(* rewritten by a statement still to come.                                 *)
Quiet == \A s \in Slots : slot[s].pc = "idle"

-----------------------------------------------------------------------------
(* A row that waits or was never started names no runner, a running row    *)
(* names one, and a cancel request is only ever found on a cancelled row.  *)
(* start_runner_job, append_runner_job_log and complete_runner_job take    *)
(* runner_id as proof of ownership: a queued row that kept its runner      *)
(* could be started without a claim, and a running row with a cancel       *)
(* request would be killed by its runner as soon as it starts.             *)
RowsAreCoherent ==
    \A j \in Jobs :
        /\ job[j].status \in {"absent", "queued", "manual", "skipped"} => job[j].holder = NoPod
        /\ job[j].status = "running" => job[j].holder \in Pods
        /\ job[j].cancelReq => job[j].status = "cancelled"

(* When no request is in flight, every commit status shows what its job    *)
(* row says: success for a job that succeeded or was skipped, failure for  *)
(* one that failed or was cancelled, pending while it waits or runs.  The  *)
(* merge gate reads only the commit statuses.                              *)
Shown(status) ==
    CASE status = "absent"                            -> "absent"
      [] status \in {"queued", "running", "manual"}   -> "pending"
      [] OTHER                                        -> CheckFor(status)

ChecksAgree == Quiet => \A j \in Jobs : check[j] = Shown(job[j].status)

(* A run that is over as success, skipped or cancelled has no job running  *)
(* and none a runner could still claim.                                    *)
SettledRunHasNoWork ==
    Quiet /\ run \in {"success", "skipped", "cancelled"} => Active(job) = {}

(* Once nothing runs any more, a required job that failed has failed its   *)
(* run, unless a user cancelled it: the early returns of finalize never    *)
(* lose a failure.                                                         *)
RequiredFailureFailsRun ==
    Quiet /\ Running(job) = {} /\ RequiredFailures(job) # {} => run \in {"failure", "cancelled"}

(* The needs of a running job stay satisfied, but for two steps the code   *)
(* allows: the success of another job queues a job that was skipped and on *)
(* which the running one depends (queue_downstream_jobs_after_success      *)
(* looks upstream only), and a re-run of everything that a claim got in    *)
(* the way of resets the needs of a job before the job itself.  No failed  *)
(* or single re-run, cancellation, reclaim or report resets an upstream    *)
(* job under the feet of a job a runner is executing.                      *)
NeedsStep ==
    \A j \in Running(job) : \A d \in Needs[j] :
        job'[j].status = "running" /\ Satisfied(job, d) /\ ~Satisfied(job', d) =>
            \E s \in Slots :
                \/ slot[s].pc = "c_unlock" /\ job'[d].status = "queued"
                \/ slot[s].pc = "mt_row" /\ slot[s].kind = "rerunAll" /\ j \in slot[s].todo

NeedsKept == [][NeedsStep]_vars

(* In a cancelled run no job is running, whatever claims, completions and  *)
(* reclaims raced with the cancellation.  It holds while nobody re-runs    *)
(* jobs or opens the page: force_finalize_stuck_pipeline, which both call, *)
(* writes the status it decided earlier, 'cancelled' included, over a run  *)
(* whose jobs were queued again meanwhile.                                 *)
CancelledRunIsStill == run = "cancelled" => Running(job) = {}

(* A job becomes successful only by the report of the very process that    *)
(* holds its claim: no report of an earlier attempt is taken for it.       *)
VerdictStep ==
    \A j \in Jobs :
        job[j].status = "running" /\ job'[j].status = "success" =>
            \E p \in Pods : /\ p = job[j].holder
                            /\ exec[p].phase = "run" /\ exec[p].job = j
                            /\ exec'[p].phase = "report"

VerdictFromHolder == [][VerdictStep]_vars

(* The outcome of a job that succeeded or failed is only ever replaced by  *)
(* a re-run: no late report, cancellation, timeout or reclaim changes it.  *)
OutcomeStep ==
    \A j \in Jobs :
        job[j].status \in {"success", "failure"} /\ job'[j].status # job[j].status =>
            \E s \in Slots : slot[s].pc = "mt_row" /\ j \in slot[s].todo

OutcomeIsFinal == [][OutcomeStep]_vars

(* Whatever statements a crash of the API cut off, opening the page of the *)
(* run repairs its status: when get_pipeline_run answers that the run is   *)
(* open, a job is running or can be claimed.                               *)
GetRepairs ==
    [][\A s \in Slots :
         slot[s].kind = "get" /\ slot[s].pc = "end" /\ slot'[s].pc = "idle" =>
            (run \in OpenRun => Active(job) # {})]_vars

-----------------------------------------------------------------------------
(* Liveness. *)

(* A run that is open is settled in the end: no order of completions,      *)
(* reclaims and cancellations leaves it without a handler that still has   *)
(* to finalize it, although nobody opens its page.                         *)
RunSettles == run \in OpenRun ~> run \in SettledRun

(* A job that no process executes any more does not stay running.          *)
(* The stale checker is documented to fail jobs "left in `running` when    *)
(* the runner stops heartbeating (crash/kill)".                            *)
Orphaned(j) ==
    /\ job[j].status = "running"
    /\ \A p \in Pods : ~(exec[p].phase # "idle" /\ exec[p].job = j)

OrphansAreFailed == \A j \in Jobs : Orphaned(j) ~> ~Orphaned(j)

-----------------------------------------------------------------------------
(* Statements of the documentation that the code does not keep.            *)

(* docs/CICD.md: a run "stays in progress while any job is manual, queued, *)
(* or running (not marked success until manual jobs are played or          *)
(* skipped)".                                                              *)
ManualKeepsRunOpen == run = "success" => \A j \in Jobs : job[j].status # "manual"

(* docs/CICD_WORKFLOWS.md: the status of the run is success "if all        *)
(* required jobs passed".                                                  *)
SuccessMeansRequiredPassed ==
    run = "success" => \A j \in Required : job[j].status \notin {"failure", "cancelled"}

(* docs/CICD.md: the job of a "Re-run job" request is "reset and queued to *)
(* run immediately": it is not skipped again before a runner could take it.*)
RerunJobIsQueued ==
    [][\A s \in Slots :
         slot[s].kind = "rerunJob" /\ job[slot[s].job].status = "queued" =>
            job'[slot[s].job].status # "skipped"]_vars

(* docs/CICD.md: "The API sets the run or job to `cancelled`": a cancelled *)
(* run stays so until a user re-runs it or plays a job of it.              *)
CancelSticks ==
    [][run = "cancelled" /\ run' # "cancelled" =>
         \E s \in Slots : slot[s].kind \in {"rerunAll", "rerunFailed", "rerunJob", "play"}]_vars

(* ensure_pipeline_idle refuses a re-run with "pipeline is still running - *)
(* cancel it first or wait for jobs to finish": one of the two helps.      *)
RefusedRerunHasAWayOut ==
    Quiet /\ Active(job) # {} =>
        \/ run \in OpenRun                        \* can be cancelled
        \/ Running(job) # {}                      \* a runner will report
        \/ run \notin {"cancelled", "failure"}    \* a runner can claim

=============================================================================
