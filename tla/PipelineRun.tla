---------------------------- MODULE PipelineRun ----------------------------
(***************************************************************************)
(* One pipeline run: its pipeline_runs row, its job_runs rows and its      *)
(* commit_statuses rows, the API request handlers that read and write them *)
(* and the runner processes that execute the jobs                          *)
(* (crates/api/src/cicd.rs, crates/runner/src).                            *)
(*                                                                         *)
(* A handler is a sequence of SQL statements, each committed on its own:   *)
(* every statement is an action here, and a request being served occupies  *)
(* a slot.  With one slot requests are served one at a time while runners  *)
(* keep claiming jobs; with several, the statements of different requests  *)
(* interleave.                                                             *)
(***************************************************************************)
EXTENDS JobRules, FiniteSets

CONSTANTS
    Slots,      \* requests the API serves at the same time
    RunnerOf,   \* RunnerOf[p]: the registered runner whose token p uses
    Ops,        \* the kinds of request made, beside the runners' own
    Faults,     \* the failures that happen
    MaxAsks     \* bound on the requests of users

AllOps    == {"cancel", "cancelStep", "rerunAll", "rerunFailed", "rerunJob",
              "play", "get", "stale"}
AllFaults == {"restart", "silence", "crash"}

ASSUME OpsAssumption ==
    /\ Ops \subseteq AllOps
    /\ Faults \subseteq AllFaults
    /\ MaxAsks \in Nat

VARIABLES
    run,        \* pipeline_runs.status
    job,        \* the job_runs rows
    check,      \* commit_statuses.state of ci/<job>
    exec,       \* what each runner process is doing
    fresh,      \* processes with a heartbeat within RUNNER_INSTANCE_STALE_SECS
    slot,       \* the handlers under way: program counter and local variables
    asks        \* user requests made so far

vars == <<run, job, check, exec, fresh, slot, asks>>

-----------------------------------------------------------------------------
(* Types. *)

AnyJob == CHOOSE j \in Jobs : TRUE

Idle == [phase |-> "idle", job |-> AnyJob]

Execs == [phase : {"idle", "run", "report"}, job : Jobs]

PCs == {"idle", "end",
        "c_check", "c_unlock", "c_pending",
        "fz_status", "fz_running", "fz_failed", "fz_fail", "fz_skip",
        "fz_skipcheck", "fz_remaining", "fz_allskipped", "fz_skipped", "fz_success",
        "rc_timed", "rc_next", "rc_lost", "rc_check",
        "fc_status", "fc_active", "fc_failed", "fc_cancelled", "fc_skipped", "fc_write",
        "id_status", "id_active", "rr_names", "rr_reset", "rj_read", "rj_run",
        "mt_row", "mt_check", "mt_final",
        "k_tx", "k_check", "s_update", "s_check",
        "p_blocked", "p_update", "p_run", "p_check"}

Kinds == AllOps \cup {"none", "trigger", "complete"}

Reported == {"success", "failure", "cancelled"}

Verdicts == Reported \cup {"none", "skipped"}

SlotStates ==
    [pc : PCs, kind : Kinds, job : Jobs,
     pod : Pods \cup {NoPod},   \* the process whose report is handled
     verdict : Verdicts,
     todo : SUBSET Jobs,    \* rows the handler still has to go through
     skips : SUBSET Jobs,   \* rows finalize skipped and has to report
     cur : Jobs,            \* the row the loop is at
     lap : {"timed", "lost"},   \* which list of reclaimed jobs it is at
     back : PCs,            \* where finalize_pipeline_run_if_done returns
     after : PCs]           \* where sync_pipeline_run_state returns

NoRequest ==
    [pc |-> "idle", kind |-> "none", job |-> AnyJob, pod |-> NoPod,
     verdict |-> "none", todo |-> {}, skips |-> {}, cur |-> AnyJob,
     lap |-> "timed", back |-> "end", after |-> "end"]

TypeOK ==
    /\ run \in RunStatuses
    /\ job \in [Jobs -> Rows]
    /\ check \in [Jobs -> Checks]
    /\ exec \in [Pods -> Execs]
    /\ fresh \subseteq Pods
    /\ slot \in [Slots -> SlotStates]
    /\ asks \in 0 .. MaxAsks

Init ==
    /\ run = "absent"
    /\ job = [j \in Jobs |-> NewRow("absent", "none")]
    /\ check = [j \in Jobs |-> "absent"]
    /\ exec = [p \in Pods |-> Idle]
    /\ fresh = Pods
    /\ slot = [s \in Slots |-> NoRequest]
    /\ asks = 0

-----------------------------------------------------------------------------
(* Helpers for handler steps. *)

At(s, pc) == slot[s].pc = pc

Goto(s, pc) == slot' = [slot EXCEPT ![s].pc = pc]

DB == <<run, job, check>>           \* what the database holds of the run
Outside == <<exec, fresh, asks>>    \* what a handler step leaves alone

(* A step that reads the database and chooses where to go on. *)
Read(s, pc, then) == At(s, pc) /\ Goto(s, then) /\ UNCHANGED <<DB, Outside>>

SetStatus(J, status) ==
    job' = [j \in Jobs |-> IF j \in J THEN [job[j] EXCEPT !.status = status] ELSE job[j]]

SetChecks(J, state) ==
    check' = [j \in Jobs |-> IF j \in J THEN state ELSE check[j]]

(* A request of kind k, about job j, gets a slot and starts at pc. *)
Begin(s, k, j, pc) ==
    /\ slot[s].pc = "idle"
    /\ slot' = [slot EXCEPT ![s] = [NoRequest EXCEPT !.pc = pc, !.kind = k, !.job = j]]

(* One more user request. *)
Ask(k) == k \in Ops /\ asks < MaxAsks /\ asks' = asks + 1

(* The handler returns; a runner waiting for the reply is free again. *)
Reply(s) ==
    /\ At(s, "end")
    /\ slot' = [slot EXCEPT ![s] = NoRequest]
    /\ exec' = IF slot[s].kind = "complete"
               THEN [exec EXCEPT ![slot[s].pod] = Idle] ELSE exec
    /\ UNCHANGED <<DB, fresh, asks>>

-----------------------------------------------------------------------------
(* process_trigger_now and materialize_jobs_for_run. *)

StartTrigger(s) ==
    /\ run = "absent"
    /\ slot[s].pc = "idle"
    /\ run' = "queued"
    /\ slot' = [slot EXCEPT ![s] = [NoRequest EXCEPT !.pc = "mt_row", !.kind = "trigger",
                                                     !.todo = Jobs]]
    /\ UNCHANGED <<job, check, Outside>>

ResetOf(kind) == CASE kind = "trigger"  -> "Fresh"
                   [] kind = "rerunAll" -> "PipelineAll"
                   [] OTHER             -> "Jobs"

(* Mutant: the upsert leaves runner_id of the row it conflicts with. *)
MaterializeRowKeepsHolder(s) ==
    /\ At(s, "mt_row")
    /\ \E j \in slot[s].todo :
        /\ \A k \in slot[s].todo : Rank[j] <= Rank[k]
        /\ job' = [job EXCEPT ![j] =
                [MaterialRow(j, ResetOf(slot[s].kind)) EXCEPT !.holder = job[j].holder]]
        /\ slot' = [slot EXCEPT ![s].pc = "mt_check", ![s].cur = j,
                                ![s].todo = @ \ {j}]
    /\ UNCHANGED <<run, check, Outside>>

(* Upsert the next row in schedule order, whatever state it is in. *)
MaterializeRow(s) ==
    /\ At(s, "mt_row")
    /\ \E j \in slot[s].todo :
        /\ \A k \in slot[s].todo : Rank[j] <= Rank[k]
        /\ job' = [job EXCEPT ![j] = MaterialRow(j, ResetOf(slot[s].kind))]
        /\ slot' = [slot EXCEPT ![s].pc = "mt_check", ![s].cur = j,
                                ![s].todo = @ \ {j}]
    /\ UNCHANGED <<run, check, Outside>>

(* Upsert its commit status. *)
MaterializeCheck(s) ==
    /\ At(s, "mt_check")
    /\ check' = [check EXCEPT ![slot[s].cur] =
                    MaterialCheck(slot[s].cur, ResetOf(slot[s].kind))]
    /\ Goto(s, IF slot[s].todo = {} THEN "mt_final" ELSE "mt_row")
    /\ UNCHANGED <<run, job, Outside>>

(* The closing UPDATE of the run has no guard. *)
MaterializeFinal(s) ==
    /\ At(s, "mt_final")
    /\ run' = IF HasRunnableJobs THEN "running" ELSE "skipped"
    /\ Goto(s, IF slot[s].kind = "rerunJob" THEN "rj_run" ELSE "end")
    /\ UNCHANGED <<job, check, Outside>>

-----------------------------------------------------------------------------
(* complete_runner_job. *)

(* Mutant: any registered runner may report for a claimed job. *)
NamesAnyRunner(p, j) == job[j].holder # NoPod

(* runner_id of the row is the runner whose token p presents. *)
Names(p, j) == job[j].holder # NoPod /\ RunnerOf[job[j].holder] = RunnerOf[p]

(* Authentication and the first UPDATE.  A report the WHERE clause does    *)
(* not match is answered 404 and the runner goes on to its next job.  The  *)
(* runner derives the verdict from the exit code of the steps alone: 130   *)
(* is "cancelled" whoever sent the signal, and a step that ends before the *)
(* kill arrives keeps its own result.                                      *)
Reportable(p, j) == Names(p, j) /\ job[j].status \in {"running", "cancelled"}

Report(s, p, v) ==
    /\ slot[s].pc = "idle"
    /\ exec[p].phase = "run"
    /\ LET j     == exec[p].job
           final == IF job[j].status = "cancelled" THEN "cancelled" ELSE v
       IN  IF Reportable(p, j)
           THEN /\ job' = [job EXCEPT ![j].status = final]
                /\ exec' = [exec EXCEPT ![p].phase = "report"]
                /\ slot' = [slot EXCEPT ![s] =
                     [NoRequest EXCEPT !.pc = "c_check", !.kind = "complete",
                                       !.job = j, !.pod = p, !.verdict = final]]
           ELSE /\ exec' = [exec EXCEPT ![p] = Idle]
                /\ UNCHANGED <<job, slot>>
    /\ UNCHANGED <<run, check, fresh, asks>>

(* Mutant: a failed or cancelled job finalizes nothing. *)
CompleteCheckSuccessOnly(s) ==
    /\ At(s, "c_check")
    /\ SetChecks({slot[s].job}, CheckFor(slot[s].verdict))
    /\ Goto(s, IF slot[s].verdict = "success" THEN "c_unlock" ELSE "end")
    /\ UNCHANGED <<run, job, Outside>>

(* update_commit_status_for_job. *)
CompleteCheck(s) ==
    /\ At(s, "c_check")
    /\ SetChecks({slot[s].job}, CheckFor(slot[s].verdict))
    /\ Goto(s, IF slot[s].verdict = "success" THEN "c_unlock" ELSE "fz_status")
    /\ UNCHANGED <<run, job, Outside>>

(* queue_downstream_jobs_after_success: one UPDATE, then a commit status   *)
(* for each row it returned.                                               *)
CompleteUnlock(s) ==
    /\ At(s, "c_unlock")
    /\ LET free == Unlocked(job, slot[s].job)
       IN  /\ job' = [j \in Jobs |-> IF j \in free
                        THEN [job[j] EXCEPT !.status = "queued", !.why = "none",
                                            !.holder = NoPod, !.overdue = FALSE]
                        ELSE job[j]]
           /\ slot' = [slot EXCEPT ![s].pc = "c_pending", ![s].todo = free]
    /\ UNCHANGED <<run, check, Outside>>

(* Mutant: the released jobs are queued but not reported. *)
CompletePendingSilent(s) ==
    /\ At(s, "c_pending")
    /\ Goto(s, "fz_status")
    /\ UNCHANGED <<DB, Outside>>

CompletePending(s) ==
    /\ At(s, "c_pending")
    /\ \/ /\ slot[s].todo = {}
          /\ Goto(s, "fz_status")
          /\ UNCHANGED check
       \/ \E j \in slot[s].todo :
            /\ SetChecks({j}, "pending")
            /\ slot' = [slot EXCEPT ![s].todo = @ \ {j}]
    /\ UNCHANGED <<run, job, Outside>>

-----------------------------------------------------------------------------
(* finalize_pipeline_run_if_done: reads, each with its early return, then  *)
(* one of three closing writes.                                            *)

FinalizeStatus(s) ==
    Read(s, "fz_status", IF run = "cancelled" THEN slot[s].back ELSE "fz_running")

FinalizeRunning(s) ==
    Read(s, "fz_running", IF Running(job) # {} THEN slot[s].back ELSE "fz_failed")

FinalizeFailed(s) ==
    Read(s, "fz_failed", IF RequiredFailures(job) # {} THEN "fz_fail" ELSE "fz_remaining")

(* Guarded: only an open run fails, and only then are its jobs skipped. *)
FinalizeFail(s) ==
    /\ At(s, "fz_fail")
    /\ IF run \in OpenRun
       THEN run' = "failure" /\ Goto(s, "fz_skip")
       ELSE Goto(s, slot[s].back) /\ UNCHANGED run
    /\ UNCHANGED <<job, check, Outside>>

FinalizeSkip(s) ==
    /\ At(s, "fz_skip")
    /\ LET queued == {j \in Jobs : job[j].status = "queued"}
       IN  /\ job' = [j \in Jobs |-> IF j \in queued
                        THEN [job[j] EXCEPT !.status = "skipped", !.why = "upstreamFailed"]
                        ELSE job[j]]
           /\ slot' = [slot EXCEPT ![s].pc = "fz_skipcheck", ![s].skips = queued]
    /\ UNCHANGED <<run, check, Outside>>

FinalizeSkipCheck(s) ==
    /\ At(s, "fz_skipcheck")
    /\ \/ /\ slot[s].skips = {}
          /\ Goto(s, slot[s].back)
          /\ UNCHANGED check
       \/ \E j \in slot[s].skips :
            /\ SetChecks({j}, CheckFor("skipped"))
            /\ slot' = [slot EXCEPT ![s].skips = @ \ {j}]
    /\ UNCHANGED <<run, job, Outside>>

FinalizeRemaining(s) ==
    Read(s, "fz_remaining", IF Active(job) # {} THEN slot[s].back ELSE "fz_allskipped")

FinalizeAllSkipped(s) ==
    Read(s, "fz_allskipped", IF AllRowsAre(job, "skipped") THEN "fz_skipped" ELSE "fz_success")

FinalizeSkipped(s) ==
    /\ At(s, "fz_skipped")
    /\ run' = IF run \in OpenRun THEN "skipped" ELSE run
    /\ Goto(s, slot[s].back)
    /\ UNCHANGED <<job, check, Outside>>

(* Not guarded by the status of the run. *)
FinalizeSuccess(s) ==
    /\ At(s, "fz_success")
    /\ run' = "success"
    /\ Goto(s, slot[s].back)
    /\ UNCHANGED <<job, check, Outside>>

Finalize(s) ==
    \/ FinalizeStatus(s) \/ FinalizeRunning(s) \/ FinalizeFailed(s)
    \/ FinalizeFail(s) \/ FinalizeSkip(s) \/ FinalizeSkipCheck(s)
    \/ FinalizeRemaining(s) \/ FinalizeAllSkipped(s)
    \/ FinalizeSkipped(s) \/ FinalizeSuccess(s)

-----------------------------------------------------------------------------
(* reclaim_stale_running_jobs: the jobs past their timeout, then the jobs  *)
(* of silent runner processes; each is failed, reported and finalized.     *)

(* Mutant: a timeout is left to the runner that executes the job. *)
NoneOverdue == {}

Overdue == {j \in Running(job) : j \in Timed /\ job[j].overdue}
Lost    == {j \in Running(job) : job[j].holder \notin fresh}

ReclaimTimed(s) ==
    /\ At(s, "rc_timed")
    /\ slot' = [slot EXCEPT ![s].pc = "rc_next", ![s].lap = "timed", ![s].todo = Overdue]
    /\ UNCHANGED <<DB, Outside>>

ReclaimLost(s) ==
    /\ At(s, "rc_lost")
    /\ slot' = [slot EXCEPT ![s].pc = "rc_next", ![s].lap = "lost", ![s].todo = Lost]
    /\ UNCHANGED <<DB, Outside>>

(* Mutant: the UPDATE of a reclaimed job is not guarded. *)
ReclaimJobAlways(s) ==
    /\ At(s, "rc_next")
    /\ \E j \in slot[s].todo :
        /\ SetStatus({j}, "failure")
        /\ slot' = [slot EXCEPT ![s].todo = @ \ {j}, ![s].cur = j, ![s].pc = "rc_check"]
    /\ UNCHANGED <<run, check, Outside>>

(* Both UPDATEs are guarded by status = 'running'.  For a lost process the *)
(* helper returns when no row changed; for a timeout the code goes on.     *)
ReclaimJob(s) ==
    /\ At(s, "rc_next")
    /\ \E j \in slot[s].todo :
        /\ IF job[j].status = "running" THEN SetStatus({j}, "failure") ELSE UNCHANGED job
        /\ slot' = [slot EXCEPT
             ![s].todo = @ \ {j}, ![s].cur = j,
             ![s].pc = IF slot[s].lap = "timed" \/ job[j].status = "running"
                       THEN "rc_check" ELSE "rc_next"]
    /\ UNCHANGED <<run, check, Outside>>

(* Mutant: the commit status of a reclaimed job is forgotten. *)
ReclaimCheckSilent(s) ==
    /\ At(s, "rc_check")
    /\ slot' = [slot EXCEPT ![s].pc = "fz_status", ![s].back = "rc_next"]
    /\ UNCHANGED <<DB, Outside>>

(* Mutant: a reclaimed job does not finalize its run. *)
ReclaimCheckOnly(s) ==
    /\ At(s, "rc_check")
    /\ SetChecks({slot[s].cur}, CheckFor("failure"))
    /\ Goto(s, "rc_next")
    /\ UNCHANGED <<run, job, Outside>>

ReclaimCheck(s) ==
    /\ At(s, "rc_check")
    /\ SetChecks({slot[s].cur}, CheckFor("failure"))
    /\ slot' = [slot EXCEPT ![s].pc = "fz_status", ![s].back = "rc_next"]
    /\ UNCHANGED <<run, job, Outside>>

(* Mutant: sync_pipeline_run_state only reclaims. *)
ReclaimNextOnly(s) ==
    /\ At(s, "rc_next")
    /\ slot[s].todo = {}
    /\ Goto(s, IF slot[s].lap = "timed" THEN "rc_lost" ELSE slot[s].after)
    /\ UNCHANGED <<DB, Outside>>

(* End of a list.  The stale checker is done after the second one;         *)
(* sync_pipeline_run_state goes on to finalize and then to                 *)
(* force_finalize_stuck_pipeline.  Two more lists add nothing: jobs of a   *)
(* runner silent for 180 s are jobs of a silent process, and no running    *)
(* row carries a cancel request (RowsAreCoherent).                         *)
ReclaimNext(s) ==
    /\ At(s, "rc_next")
    /\ slot[s].todo = {}
    /\ slot' = CASE slot[s].lap = "timed" ->
                      [slot EXCEPT ![s].pc = "rc_lost"]
                 [] slot[s].lap = "lost" /\ slot[s].kind = "stale" ->
                      [slot EXCEPT ![s].pc = "end"]
                 [] OTHER ->
                      [slot EXCEPT ![s].pc = "fz_status", ![s].back = "fc_status"]
    /\ UNCHANGED <<DB, Outside>>

Reclaim(s) ==
    \/ ReclaimTimed(s) \/ ReclaimLost(s) \/ ReclaimJob(s)
    \/ ReclaimCheck(s) \/ ReclaimNext(s)

-----------------------------------------------------------------------------
(* force_finalize_stuck_pipeline. *)

ForceStatus(s) ==
    Read(s, "fc_status", IF run \in OpenRun THEN "fc_active" ELSE slot[s].after)

ForceActive(s) ==
    Read(s, "fc_active", IF Active(job) # {} THEN slot[s].after ELSE "fc_failed")

(* Three reads decide the status, the first that holds first. *)
ForceDecide(s, pc, holds, status, then) ==
    /\ At(s, pc)
    /\ slot' = [slot EXCEPT
         ![s].pc = then,
         ![s].verdict = IF slot[s].verdict = "none" /\ holds THEN status ELSE @]
    /\ UNCHANGED <<DB, Outside>>

ForceFailed(s) ==
    ForceDecide(s, "fc_failed", RequiredFailures(job) # {}, "failure", "fc_cancelled")

ForceCancelled(s) ==
    ForceDecide(s, "fc_cancelled", AllRowsAre(job, "cancelled"), "cancelled", "fc_skipped")

ForceSkipped(s) ==
    ForceDecide(s, "fc_skipped", AllRowsAre(job, "skipped"), "skipped", "fc_write")

(* Not guarded by the status of the run either. *)
ForceWrite(s) ==
    /\ At(s, "fc_write")
    /\ run' = IF slot[s].verdict = "none" THEN "success" ELSE slot[s].verdict
    /\ slot' = [slot EXCEPT ![s].pc = slot[s].after, ![s].verdict = "none"]
    /\ UNCHANGED <<job, check, Outside>>

ForceFinalize(s) ==
    \/ ForceStatus(s) \/ ForceActive(s) \/ ForceFailed(s)
    \/ ForceCancelled(s) \/ ForceSkipped(s) \/ ForceWrite(s)

-----------------------------------------------------------------------------
(* get_pipeline_run (the run page polls it) and the stale checker, which   *)
(* runs every 30 s and at the start of every poll.                         *)

StartGet(s) ==
    /\ "get" \in Ops
    /\ run # "absent"
    /\ Begin(s, "get", AnyJob, "rc_timed")
    /\ UNCHANGED <<DB, Outside>>

StartStale(s) ==
    /\ "stale" \in Ops
    /\ run # "absent"
    /\ Begin(s, "stale", AnyJob, "rc_timed")
    /\ UNCHANGED <<DB, Outside>>

-----------------------------------------------------------------------------
(* rerun_pipeline and rerun_job: ensure_pipeline_idle, then the reset. *)

StartRerun(s, k, j) ==
    /\ Ask(k)
    /\ k \in {"rerunAll", "rerunFailed", "rerunJob"}
    /\ run # "absent"
    /\ slot[s].pc = "idle"
    /\ slot' = [slot EXCEPT ![s] = [NoRequest EXCEPT !.pc = "rc_timed", !.kind = k,
                                                     !.job = j, !.after = "id_status"]]
    /\ UNCHANGED <<DB, exec, fresh>>

IdleStatus(s) == Read(s, "id_status", IF run = "queued" THEN "end" ELSE "id_active")

(* Where a re-run starts to reset. *)
ResetPC(kind) == CASE kind = "rerunAll"    -> "rr_reset"
                   [] kind = "rerunFailed" -> "rr_names"
                   [] OTHER                -> "rj_read"

(* Mutant: only waiting jobs keep a run from being re-run. *)
IdleActiveRunnable(s) ==
    /\ At(s, "id_active")
    /\ slot' = [slot EXCEPT
         ![s].todo = Jobs,
         ![s].pc = IF Runnable(job) # {} THEN "end" ELSE ResetPC(slot[s].kind)]
    /\ UNCHANGED <<DB, Outside>>

IdleActive(s) ==
    /\ At(s, "id_active")
    /\ slot' = [slot EXCEPT
         ![s].todo = Jobs,
         ![s].pc = IF Active(job) # {} THEN "end" ELSE ResetPC(slot[s].kind)]
    /\ UNCHANGED <<DB, Outside>>

RerunNames(s) ==
    /\ At(s, "rr_names")
    /\ slot' = [slot EXCEPT ![s].todo = FailedJobs(job),
                            ![s].pc = IF FailedJobs(job) = {} THEN "end" ELSE "rr_reset"]
    /\ UNCHANGED <<DB, Outside>>

(* reset_pipeline_run *)
RerunReset(s) ==
    /\ At(s, "rr_reset")
    /\ run' = "queued"
    /\ Goto(s, "mt_row")
    /\ UNCHANGED <<job, check, Outside>>

(* rerun_job_run *)
RerunJobRead(s) ==
    /\ At(s, "rj_read")
    /\ slot' = [slot EXCEPT
         ![s].todo = Downstream(slot[s].job),
         ![s].pc = IF job[slot[s].job].status \in {"absent", "queued", "running"}
                   THEN "end" ELSE "mt_row"]
    /\ UNCHANGED <<DB, Outside>>

RerunJobRun(s) ==
    /\ At(s, "rj_run")
    /\ run' = "running"
    /\ slot' = [slot EXCEPT ![s].pc = "rc_timed", ![s].after = "end"]
    /\ UNCHANGED <<job, check, Outside>>

Rerun(s) ==
    \/ IdleStatus(s) \/ IdleActive(s) \/ RerunNames(s)
    \/ RerunReset(s) \/ RerunJobRead(s) \/ RerunJobRun(s)

-----------------------------------------------------------------------------
(* cancel_pipeline, cancel_job_step and play_manual_job.  Each starts with *)
(* a read that refuses the request, and writes later.                      *)

StartCancel(s) ==
    /\ Ask("cancel")
    /\ run \in OpenRun
    /\ Begin(s, "cancel", AnyJob, "k_tx")
    /\ UNCHANGED <<DB, exec, fresh>>

(* The one transaction: the run and every unfinished job. *)
CancelTx(s) ==
    /\ At(s, "k_tx")
    /\ run' = "cancelled"
    /\ LET waiting == {j \in Jobs : job[j].status \in {"queued", "manual"}}
       IN  /\ job' = [j \in Jobs |->
                CASE j \in waiting      -> [job[j] EXCEPT !.status = "cancelled"]
                  [] j \in Running(job) -> [job[j] EXCEPT !.status = "cancelled",
                                                          !.cancelReq = TRUE]
                  [] OTHER              -> job[j]]
           /\ slot' = [slot EXCEPT ![s].pc = "k_check",
                                   ![s].todo = waiting \cup Running(job)]
    /\ UNCHANGED <<check, Outside>>

CancelCheck(s) ==
    /\ At(s, "k_check")
    /\ \/ /\ slot[s].todo = {}
          /\ Goto(s, "rc_timed")
          /\ UNCHANGED check
       \/ \E j \in slot[s].todo :
            /\ SetChecks({j}, CheckFor("cancelled"))
            /\ slot' = [slot EXCEPT ![s].todo = @ \ {j}]
    /\ UNCHANGED <<run, job, Outside>>

StartCancelStep(s, j) ==
    /\ Ask("cancelStep")
    /\ job[j].status = "running"
    /\ run # "cancelled"
    /\ Begin(s, "cancelStep", j, "s_update")
    /\ UNCHANGED <<DB, exec, fresh>>

CancelStepUpdate(s) ==
    /\ At(s, "s_update")
    /\ LET j == slot[s].job
       IN  IF job[j].status = "running"
           THEN /\ job' = [job EXCEPT ![j].status = "cancelled", ![j].cancelReq = TRUE]
                /\ Goto(s, "s_check")
           ELSE Goto(s, "end") /\ UNCHANGED job
    /\ UNCHANGED <<run, check, Outside>>

CancelStepCheck(s) ==
    /\ At(s, "s_check")
    /\ SetChecks({slot[s].job}, CheckFor("cancelled"))
    /\ Goto(s, "fz_status")
    /\ UNCHANGED <<run, job, Outside>>

StartPlay(s, j) ==
    /\ Ask("play")
    /\ job[j].status = "manual"
    /\ Begin(s, "play", j, "p_blocked")
    /\ UNCHANGED <<DB, exec, fresh>>

PlayBlocked(s) ==
    Read(s, "p_blocked", IF Unblocked(job, slot[s].job) THEN "p_update" ELSE "end")

PlayUpdate(s) ==
    /\ At(s, "p_update")
    /\ LET j == slot[s].job
       IN  IF job[j].status = "manual"
           THEN /\ job' = [job EXCEPT ![j].status = "queued", ![j].why = "none",
                                      ![j].holder = NoPod, ![j].overdue = FALSE]
                /\ Goto(s, "p_run")
           ELSE Goto(s, "end") /\ UNCHANGED job
    /\ UNCHANGED <<run, check, Outside>>

(* Mutant: playing a job does not reopen a settled run. *)
PlayRunKeepsStatus(s) ==
    /\ At(s, "p_run")
    /\ Goto(s, "p_check")
    /\ UNCHANGED <<DB, Outside>>

PlayRun(s) ==
    /\ At(s, "p_run")
    /\ run' = IF run \in SettledRun THEN "running" ELSE run
    /\ Goto(s, "p_check")
    /\ UNCHANGED <<job, check, Outside>>

PlayCheck(s) ==
    /\ At(s, "p_check")
    /\ SetChecks({slot[s].job}, "pending")
    /\ Goto(s, "rc_timed")
    /\ UNCHANGED <<run, job, Outside>>

UserWrites(s) ==
    \/ CancelTx(s) \/ CancelCheck(s) \/ CancelStepUpdate(s) \/ CancelStepCheck(s)
    \/ PlayBlocked(s) \/ PlayUpdate(s) \/ PlayRun(s) \/ PlayCheck(s)

-----------------------------------------------------------------------------
(* Runner processes. *)

(* Mutant: a claim does not look at the status of the run. *)
ClaimAnyRun(p, j) ==
    /\ exec[p].phase = "idle"
    /\ j \in Runnable(job)
    /\ job' = [job EXCEPT ![j].status = "running", ![j].holder = p,
                          ![j].cancelReq = FALSE, ![j].overdue = FALSE]
    /\ exec' = [exec EXCEPT ![p] = [phase |-> "run", job |-> j]]
    /\ UNCHANGED <<run, check, fresh, slot, asks>>

(* Mutant: the claim's UPDATE does not lock the row it selected. *)
ClaimUnlocked(p, j) ==
    /\ exec[p].phase = "idle"
    /\ run \notin {"cancelled", "failure"}
    /\ j \in Active(job)
    /\ job' = [job EXCEPT ![j].status = "running", ![j].holder = p,
                          ![j].cancelReq = FALSE, ![j].overdue = FALSE]
    /\ exec' = [exec EXCEPT ![p] = [phase |-> "run", job |-> j]]
    /\ UNCHANGED <<run, check, fresh, slot, asks>>

(* claim_next_job: one transaction with FOR UPDATE SKIP LOCKED. *)
Claim(p, j) ==
    /\ exec[p].phase = "idle"
    /\ run \notin {"cancelled", "failure"}
    /\ j \in Runnable(job)
    /\ job' = [job EXCEPT ![j].status = "running", ![j].holder = p,
                          ![j].cancelReq = FALSE, ![j].overdue = FALSE]
    /\ exec' = [exec EXCEPT ![p] = [phase |-> "run", job |-> j]]
    /\ UNCHANGED <<run, check, fresh, slot, asks>>

(* Mutant: a job can be started by a process it is not assigned to. *)
StartJobAnyRunner(p) ==
    /\ exec[p].phase = "run"
    /\ job[exec[p].job].status \in {"queued", "running"}
    /\ job' = [job EXCEPT ![exec[p].job].status = "running"]
    /\ UNCHANGED <<run, check, exec, fresh, slot, asks>>

(* start_runner_job: the runner announces the job it is about to execute. *)
StartJob(p) ==
    /\ exec[p].phase = "run"
    /\ LET j == exec[p].job
       IN  /\ Names(p, j)
           /\ job[j].status \in {"queued", "running"}
           /\ job' = [job EXCEPT ![j].status = "running"]
    /\ UNCHANGED <<run, check, exec, fresh, slot, asks>>

(* The process dies and is started again under the same host name, which   *)
(* is its instance id; or a request of it fails and run_job gives up.      *)
Restart(p) ==
    /\ "restart" \in Faults
    /\ exec[p].phase = "run"
    /\ exec' = [exec EXCEPT ![p] = Idle]
    /\ UNCHANGED <<run, job, check, fresh, slot, asks>>

(* No heartbeat of p arrives for RUNNER_INSTANCE_STALE_SECS, or its        *)
(* runner_instances row is deleted; p may still be executing its job.      *)
Silence(p) ==
    /\ "silence" \in Faults
    /\ p \in fresh
    /\ fresh' = fresh \ {p}
    /\ UNCHANGED <<run, job, check, exec, slot, asks>>

(* runner_heartbeat *)
Heartbeat(p) ==
    /\ p \notin fresh
    /\ fresh' = fresh \cup {p}
    /\ UNCHANGED <<run, job, check, exec, slot, asks>>

(* timeout_minutes pass since started_at. *)
Overrun(j) ==
    /\ j \in Timed
    /\ job[j].status = "running" /\ ~job[j].overdue
    /\ job' = [job EXCEPT ![j].overdue = TRUE]
    /\ UNCHANGED <<run, check, exec, fresh, slot, asks>>

(* The API process dies between two statements of a handler, or a          *)
(* statement fails and the handler returns; the runner's request fails.    *)
Crash(s) ==
    /\ "crash" \in Faults
    /\ slot[s].pc \notin {"idle", "end"}
    /\ slot' = [slot EXCEPT ![s] = NoRequest]
    /\ exec' = IF slot[s].kind = "complete"
               THEN [exec EXCEPT ![slot[s].pod] = Idle] ELSE exec
    /\ UNCHANGED <<DB, fresh, asks>>

-----------------------------------------------------------------------------
(* The specification. *)

Arrive(s) ==
    \/ StartTrigger(s) \/ StartGet(s) \/ StartStale(s) \/ StartCancel(s)
    \/ \E k \in {"rerunAll", "rerunFailed"} : StartRerun(s, k, AnyJob)
    \/ \E j \in Jobs : StartRerun(s, "rerunJob", j) \/ StartCancelStep(s, j) \/ StartPlay(s, j)
    \/ \E p \in Pods, v \in Reported : Report(s, p, v)

(* The next statement of the request in slot s. *)
Step(s) ==
    \/ MaterializeRow(s) \/ MaterializeCheck(s) \/ MaterializeFinal(s)
    \/ CompleteCheck(s) \/ CompleteUnlock(s) \/ CompletePending(s)
    \/ Finalize(s) \/ Reclaim(s) \/ ForceFinalize(s) \/ Rerun(s) \/ UserWrites(s)
    \/ Reply(s)

Pod(p) ==
    \/ \E j \in Jobs : Claim(p, j)
    \/ StartJob(p)
    \/ Restart(p) \/ Silence(p) \/ Heartbeat(p)

Next ==
    \/ \E s \in Slots : Arrive(s) \/ Step(s) \/ Crash(s)
    \/ \E p \in Pods : Pod(p)
    \/ \E j \in Jobs : Overrun(j)

Spec == Init /\ [][Next]_vars

(* What the deployment keeps doing.  A handler that started executes its   *)
(* statements (axum polls it to its end).  A runner process polls for jobs *)
(* in a loop and reports the one it executes; the stale checker runs every *)
(* 30 s.  A request that keeps coming back finds a free slot sooner or     *)
(* later, although other requests keep taking it: strong fairness.         *)
HandlersProgress == \A s \in Slots : WF_vars(Step(s))
PodsPoll         == \A p \in Pods : SF_vars(\E j \in Jobs : Claim(p, j))
PodsReport       == \A p \in Pods :
    SF_vars(\E s \in Slots, v \in Reported : Report(s, p, v))
PushIsServed     == WF_vars(\E s \in Slots : StartTrigger(s))
CheckerRuns      == SF_vars(\E s \in Slots : StartStale(s))
TimePasses       == \A j \in Jobs : WF_vars(Overrun(j))

FairSpec == /\ Spec
            /\ HandlersProgress /\ PodsPoll /\ PodsReport
            /\ PushIsServed /\ CheckerRuns /\ TimePasses

=============================================================================
