------------------------------ MODULE JobRules ------------------------------
(***************************************************************************)
(* The rules of a pipeline run that depend only on its schedule and on its *)
(* job_runs rows: the conditions of the SQL queries in                     *)
(* crates/api/src/cicd.rs and the row a (re)materialised job gets from     *)
(* crates/cicd/src/schedule.rs.  No state is kept here: a job table t is a *)
(* function from Jobs to rows.                                             *)
(***************************************************************************)
EXTENDS Naturals

CONSTANTS
    Jobs,       \* the names in the schedule of the run
    Needs,      \* Needs[j]: the jobs named in the needs: of j
    Required,   \* the jobs without allow_failure
    Timed,      \* the jobs with timeout_minutes
    Mode,       \* Mode[j]: the mode schedule_for_run gives j
    Rank,       \* Rank[j]: position of j in the schedule
    Pods,       \* runner processes, each identified by its instance id
    NoPod       \* runner_id and runner_instance_id are NULL

Modes == {"Queued", "Manual", "Skipped", "SkippedUpstream"}

(* A configuration without jobs is refused. *)
ASSUME NeedsAssumption ==
    /\ Jobs # {}
    /\ Needs \in [Jobs -> SUBSET Jobs]
    /\ Required \subseteq Jobs
    /\ Timed \subseteq Jobs

(* Scheduler::schedule sorts topologically and fails on a cycle. *)
ASSUME RankAssumption ==
    /\ Rank \in [Jobs -> Nat]
    /\ \A i, j \in Jobs : i # j => Rank[i] # Rank[j]
    /\ \A j \in Jobs : \A d \in Needs[j] : Rank[d] < Rank[j]

(* schedule_for_run demotes a Queued job behind a Skipped or Manual one. *)
ASSUME ModeAssumption ==
    /\ Mode \in [Jobs -> Modes]
    /\ \A j \in Jobs : Mode[j] = "Queued" => \A d \in Needs[j] : Mode[d] = "Queued"

ASSUME PodAssumption == NoPod \notin Pods

-----------------------------------------------------------------------------
(* Rows.  "absent" is a job without a row yet.  why is what the log text   *)
(* of a skipped job tells later queries; overdue is "started_at +          *)
(* timeout_minutes is past".                                               *)

JobStatuses == {"absent", "queued", "manual", "running",
                "success", "failure", "cancelled", "skipped"}
Reasons     == {"none", "if", "upstreamSkipped", "upstreamFailed"}
Rows        == [status : JobStatuses, holder : Pods \cup {NoPod},
                why : Reasons, cancelReq : BOOLEAN, overdue : BOOLEAN]

NewRow(status, why) ==
    [status |-> status, holder |-> NoPod, why |-> why,
     cancelReq |-> FALSE, overdue |-> FALSE]

RunStatuses  == {"absent", "queued", "running",
                 "success", "failure", "cancelled", "skipped"}
OpenRun      == {"queued", "running"}
SettledRun   == {"success", "failure", "cancelled", "skipped"}
Checks       == {"absent", "pending", "success", "failure"}

-----------------------------------------------------------------------------
(* Conditions of the queries. *)

(* A dependency that does not hold its dependents back: a row that is      *)
(* missing, succeeded or was skipped, or failed without being required.    *)
Satisfied(t, d) ==
    \/ t[d].status \in {"absent", "success", "skipped"}
    \/ t[d].status = "failure" /\ d \notin Required

Unblocked(t, j) == \A d \in Needs[j] : Satisfied(t, d)

Runnable(t) == {j \in Jobs : t[j].status = "queued" /\ Unblocked(t, j)}

Running(t) == {j \in Jobs : t[j].status = "running"}

(* The "active" or "remaining" jobs of finalize, force-finalize and        *)
(* ensure_pipeline_idle.                                                   *)
Active(t) == Running(t) \cup Runnable(t)

RequiredFailures(t) == {j \in Required : t[j].status = "failure"}

(* Every row, and at least one, has the given status. *)
AllRowsAre(t, status) ==
    /\ \E j \in Jobs : t[j].status # "absent"
    /\ \A j \in Jobs : t[j].status \in {"absent", status}

(* Jobs skipped for an upstream reason that the success of c releases. *)
Unlocked(t, c) ==
    {j \in Jobs : /\ t[j].status = "skipped"
                  /\ c \in Needs[j]
                  /\ t[j].why \in {"upstreamSkipped", "upstreamFailed"}
                  /\ \A d \in Needs[j] \ {c} : Satisfied(t, d)}

(* What a re-run of scope "failed" resets. *)
FailedJobs(t) ==
    {j \in Jobs : \/ t[j].status \in {"failure", "cancelled"}
                  \/ t[j].status = "skipped" /\ t[j].why = "upstreamFailed"}

(* root and the jobs that need it, directly or not: the least set that     *)
(* holds root and is closed under "is needed by".                          *)
Downstream(root) ==
    {k \in Jobs : \A S \in SUBSET Jobs :
        (root \in S /\ \A j \in Jobs : Needs[j] \cap S # {} => j \in S) => k \in S}

-----------------------------------------------------------------------------
(* The row and the check a materialised job gets.                          *)
(* reset is "Fresh", "PipelineAll" or "Jobs".                              *)

StaysSkipped(j, reset) ==
    \/ Mode[j] = "Skipped"
    \/ Mode[j] = "SkippedUpstream" /\ reset # "Jobs"

MaterialStatus(j, reset) ==
    IF StaysSkipped(j, reset) THEN "skipped"
    ELSE IF Mode[j] = "Manual" /\ reset # "Jobs" THEN "manual"
    ELSE "queued"

MaterialReason(j, reset) ==
    IF ~StaysSkipped(j, reset) THEN "none"
    ELSE IF Mode[j] = "Skipped" THEN "if"
    ELSE "upstreamSkipped"

MaterialRow(j, reset) == NewRow(MaterialStatus(j, reset), MaterialReason(j, reset))

MaterialCheck(j, reset) == IF StaysSkipped(j, reset) THEN "success" ELSE "pending"

(* The run has work to do unless the schedule skipped every job. *)
HasRunnableJobs == \E j \in Jobs : Mode[j] \notin {"Skipped", "SkippedUpstream"}

(* Mutant: the status of the job is passed on as it is. *)
CheckForRaw(status) == status

(* The commit status a job status is reported as. *)
CheckFor(status) == IF status \in {"success", "skipped"} THEN "success" ELSE "failure"

=============================================================================
