---------------------------- MODULE KubeExecutor ---------------------------
(* The Kubernetes executor: every manager process runs a CI job as a       *)
(* Kubernetes Job named after it, watches both, removes what is left, and  *)
(* sweeps the namespace of Jobs whose CI job is over.  Attempts of one CI  *)
(* job share the name.                                                     *)
EXTENDS Naturals, FiniteSets

CONSTANTS CiJobs, Managers, RunnerTokens,
          MaxAttempts,     \* bound: claims of a CI job
          NoJob            \* no Job, no manager

ASSUME KubeAssumption == /\ NoJob \notin CiJobs \cup RunnerTokens /\ MaxAttempts \in Nat
                         /\ IsFiniteSet(RunnerTokens)

VARIABLES
  token,       \* the runner token of every manager
  ciRow,       \* job_runs: status, runner, cancel request, and the number of the attempt
  kube,        \* the Kubernetes Job of a CI job: attempt and phase
  mgr,         \* run_job in every manager
  watcher,     \* the task of watch_job that polls for a cancellation
  stray,       \* such a task that outlived its watch_job; bound: one per manager
  sweep,       \* cleanup_orphaned_jobs in every manager: the Job it is about to delete
  mixed,       \* history: a CI job was claimed while an earlier attempt, or a deletion, was under way
  blamed       \* history: why somebody else deleted the Job of an attempt, or reported on it

kubeVars == <<token, ciRow, kube, mgr, watcher, stray, sweep, mixed, blamed>>

Over == {"success", "failure", "cancelled"}
NoStray == [pc |-> "off", job |-> NoJob, attempt |-> 0]
NoTask == [pc |-> "idle", job |-> NoJob, attempt |-> 0, verdict |-> "none"]
Present(j) == kube[j] # NoJob
LiveJob(j) == Present(j) /\ kube[j].phase # "deleting"
TasksOf(j) == {m \in Managers : mgr[m].job = j \/ stray[m].job = j}
In(m, pc) == mgr[m].pc = pc
TaskTo(m, pc) == mgr' = [mgr EXCEPT ![m].pc = pc]

(* runner_job_control: 404 for a job of another runner; a step is asked to  *)
(* stop, or the job is: its run failed or its timeout has passed.          *)
Unknown(m, j) == ciRow[j].runner # token[m]
CancelSeen(m, j) == ~Unknown(m, j) /\ (ciRow[j].status = "cancelled" \/ ciRow[j].asked # "no")
IsTerminal(m, j) == Unknown(m, j) \/ ciRow[j].status \in Over \/ ciRow[j].asked = "job"

(* A Job that the running attempt needs is deleted by somebody else. *)
Needed(j) == /\ LiveJob(j) /\ ciRow[j].status = "running" /\ ciRow[j].asked = "no"
             /\ ciRow[j].attempt = kube[j].attempt
Blame(wrong, why) == blamed' = IF wrong THEN blamed \cup {why} ELSE blamed
ByOther(t) == Needed(t.job) /\ t.attempt # kube[t.job].attempt
(* delete_kubernetes_job: the Job is gone when its pods are *)
Deleted(j) == kube' = IF LiveJob(j) THEN [kube EXCEPT ![j].phase = "deleting"] ELSE kube

---------------------------------------------------------------------------
(* The API: claims, the user, the checker that gives up on dead managers.  *)
Claim(m, j) ==
  /\ In(m, "idle") /\ ciRow[j].status = "queued" /\ ciRow[j].attempt < MaxAttempts
  /\ ciRow' = [ciRow EXCEPT ![j] = [status |-> "running", runner |-> token[m], by |-> m,
                                    asked |-> "no", attempt |-> @.attempt + 1]]
  /\ mgr' = [mgr EXCEPT ![m] = [pc |-> "clear", job |-> j, attempt |-> ciRow[j].attempt + 1,
                                verdict |-> "none"]]
  /\ mixed' = (mixed \/ TasksOf(j) # {} \/ \E n \in Managers : sweep[n] = j)
  /\ UNCHANGED <<token, stray, kube, watcher, sweep, blamed>>
CancelCi(j) == /\ ciRow[j].status \in {"queued", "running"}
               /\ ciRow' = [ciRow EXCEPT ![j].status = "cancelled", ![j].asked = "job"]
               /\ UNCHANGED <<token, stray, kube, mgr, watcher, sweep, mixed, blamed>>
AskCi(j, what) == /\ ciRow[j].status = "running" /\ ciRow[j].asked = "no"
                  /\ ciRow' = [ciRow EXCEPT ![j].asked = what]
                  /\ UNCHANGED <<token, stray, kube, mgr, watcher, sweep, mixed, blamed>>
(* mark_stale_runners_offline, see RunnerClock *)
GiveUpCi(j) == /\ ciRow[j].status = "running" /\ (In(ciRow[j].by, "dead") \/ ciRow[j].asked # "no")
               /\ ciRow' = [ciRow EXCEPT ![j].status = IF ciRow[j].asked = "step" THEN "cancelled" ELSE "failure"]
               /\ UNCHANGED <<token, stray, kube, mgr, watcher, sweep, mixed, blamed>>
RerunCi(j) == /\ ciRow[j].status \in Over /\ ciRow[j].attempt < MaxAttempts
              /\ ciRow' = [ciRow EXCEPT ![j].status = "queued", ![j].runner = NoJob, ![j].asked = "no"]
              /\ UNCHANGED <<token, stray, kube, mgr, watcher, sweep, mixed, blamed>>

---------------------------------------------------------------------------
(* run_job: what a former attempt left is removed, and its pods are waited *)
(* for, half a minute at most; then the Job is created, which fails while  *)
(* another of that name is there.  Whatever fails up to the reading of the *)
(* new Job ends the task without a report.                                 *)
Clear(m) == /\ In(m, "clear") /\ Blame(ByOther(mgr[m]), "overlap") /\ Deleted(mgr[m].job)
            /\ TaskTo(m, "create") /\ UNCHANGED <<token, stray, ciRow, watcher, sweep, mixed>>
CreateJob(m) ==
  /\ In(m, "create") /\ ~Present(mgr[m].job)
  /\ kube' = [kube EXCEPT ![mgr[m].job] = [attempt |-> mgr[m].attempt, phase |-> "pending"]]
  /\ \/ TaskTo(m, "watch") /\ watcher' = [watcher EXCEPT ![m] = "polls"]
     \/ mgr' = [mgr EXCEPT ![m] = NoTask] /\ UNCHANGED watcher
  /\ UNCHANGED <<token, stray, ciRow, sweep, mixed, blamed>>
Abandon(m) == /\ In(m, "clear") \/ In(m, "create")
              /\ mgr' = [mgr EXCEPT ![m] = NoTask]
              /\ UNCHANGED <<token, stray, ciRow, kube, watcher, sweep, mixed, blamed>>

(* The watcher polls the API and deletes the Job on a cancellation.        *)
WatcherSees(m) == /\ watcher[m] = "polls" /\ CancelSeen(m, mgr[m].job)
                  /\ watcher' = [watcher EXCEPT ![m] = "deletes"]
                  /\ UNCHANGED <<token, stray, ciRow, kube, mgr, sweep, mixed, blamed>>
WatcherDeletes(m) == /\ watcher[m] = "deletes" /\ Blame(ByOther(mgr[m]), "overlap") /\ Deleted(mgr[m].job)
                     /\ watcher' = [watcher EXCEPT ![m] = "told"]
                     /\ UNCHANGED <<token, stray, ciRow, mgr, sweep, mixed>>

(* mutant: the watcher goes on polling after the verdict *)
VerdictStillWatched(m, v) ==
  /\ mgr' = [mgr EXCEPT ![m].pc = "remove", ![m].verdict = v]
  /\ UNCHANGED <<token, stray, ciRow, kube, watcher, sweep, mixed, blamed>>
Verdict(m, v) == /\ mgr' = [mgr EXCEPT ![m].pc = "remove", ![m].verdict = v]
                 /\ watcher' = [watcher EXCEPT ![m] = "off"]
                 /\ UNCHANGED <<token, stray, ciRow, kube, sweep, mixed, blamed>>
(* wait_for_build_ready: a pod, a cancellation, or five minutes are over    *)
BuildReady(m) == /\ In(m, "watch") /\ LiveJob(mgr[m].job) /\ kube[mgr[m].job].phase # "pending"
                 /\ watcher[m] # "told" /\ TaskTo(m, "follow")
                 /\ UNCHANGED <<token, stray, ciRow, kube, watcher, sweep, mixed, blamed>>
(* A read of the pod, or a line of the log, that fails once the pod is ready *)
(* leaves watch_job and its watcher goes on.                               *)
Detach(m) == /\ In(m, "follow") /\ stray[m] = NoStray /\ watcher[m] # "told"
             /\ stray' = [stray EXCEPT ![m] = [pc |-> watcher[m], job |-> mgr[m].job, attempt |-> mgr[m].attempt]]
             /\ mgr' = [mgr EXCEPT ![m].pc = "remove", ![m].verdict = "failure"]
             /\ watcher' = [watcher EXCEPT ![m] = "off"] /\ UNCHANGED <<token, ciRow, kube, sweep, mixed, blamed>>
StraySees(m) == /\ stray[m].pc = "polls" /\ CancelSeen(m, stray[m].job)
                /\ stray' = [stray EXCEPT ![m].pc = "deletes"]
                /\ UNCHANGED <<token, ciRow, kube, mgr, watcher, sweep, mixed, blamed>>
StrayDeletes(m) == /\ stray[m].pc = "deletes" /\ Blame(ByOther(stray[m]), "overlap") /\ Deleted(stray[m].job)
                   /\ stray' = [stray EXCEPT ![m] = NoStray]
                   /\ UNCHANGED <<token, ciRow, mgr, watcher, sweep, mixed>>
NoBuild(m) == In(m, "watch") /\ Verdict(m, IF watcher[m] = "told" THEN "cancelled" ELSE "failure")
(* follow_build_logs_until_exit: a Job or a pod that is not there was       *)
(* deleted by a cancellation; a pod that cannot be read, a helper that     *)
(* failed and a build that takes too long are failures.                    *)
FollowEnds(m) ==
  /\ In(m, "follow")
  /\ LET j == mgr[m].job IN
     \/ watcher[m] = "told" /\ Verdict(m, "cancelled")
     \/ watcher[m] # "told" /\ Verdict(m, "failure")
     \/ ~LiveJob(j) /\ Verdict(m, "cancelled")
     \/ /\ LiveJob(j) /\ kube[j].phase \in {"success", "failure"}
        /\ Verdict(m, IF CancelSeen(m, j) THEN "cancelled" ELSE kube[j].phase)

RemoveJob(m) == /\ In(m, "remove") /\ Blame(ByOther(mgr[m]), "overlap") /\ Deleted(mgr[m].job)
             /\ TaskTo(m, "report") /\ UNCHANGED <<token, stray, ciRow, watcher, sweep, mixed>>
(* complete_job: a job of this runner that runs takes the verdict, if the  *)
(* request arrives                                                         *)
Report(m, arrives) ==
  /\ In(m, "report")
  /\ LET j == mgr[m].job
         takes == arrives /\ ~Unknown(m, j) /\ ciRow[j].status = "running"
     IN /\ ciRow' = IF takes THEN [ciRow EXCEPT ![j].status = mgr[m].verdict] ELSE ciRow
        /\ Blame(takes /\ ciRow[j].attempt # mgr[m].attempt, "overlap")
  /\ mgr' = [mgr EXCEPT ![m] = NoTask]
  /\ UNCHANGED <<token, stray, kube, watcher, sweep, mixed>>
ManagerDies(m) == /\ ~In(m, "dead") /\ \E n \in Managers \ {m} : ~In(n, "dead")
                  /\ mgr' = [mgr EXCEPT ![m] = [NoTask EXCEPT !.pc = "dead"]]
                  /\ watcher' = [watcher EXCEPT ![m] = "off"] /\ sweep' = [sweep EXCEPT ![m] = NoJob]
                  /\ stray' = [stray EXCEPT ![m] = NoStray] /\ UNCHANGED <<token, ciRow, kube, mixed, blamed>>

---------------------------------------------------------------------------
(* mutant: the sweep takes every Job whose manager is not this one *)
SweepSeesAny(m, j) ==
  /\ ~In(m, "dead") /\ sweep[m] = NoJob /\ Present(j) /\ mgr[m].job # j
  /\ sweep' = [sweep EXCEPT ![m] = j] /\ UNCHANGED <<token, stray, ciRow, kube, mgr, watcher, mixed, blamed>>
(* cleanup_orphaned_jobs: the Jobs of the namespace, the API asked about    *)
(* each, and the Job deleted in a later call.                              *)
SweepSees(m, j) ==
  /\ ~In(m, "dead") /\ sweep[m] = NoJob /\ Present(j) /\ IsTerminal(m, j)
  /\ sweep' = [sweep EXCEPT ![m] = j] /\ UNCHANGED <<token, stray, ciRow, kube, mgr, watcher, mixed, blamed>>
SweepDeletes(m) ==
  /\ sweep[m] # NoJob
  /\ Blame(Needed(sweep[m]), IF Unknown(m, sweep[m]) THEN "foreign" ELSE "overlap") /\ Deleted(sweep[m])
  /\ sweep' = [sweep EXCEPT ![m] = NoJob] /\ UNCHANGED <<token, stray, ciRow, mgr, watcher, mixed>>

(* The cluster: the pod starts, its build ends or its deadline passes, a Job *)
(* that is over is kept for a while only, and a deletion is done.          *)
Cluster(j) ==
  /\ Present(j)
  /\ \E v \in CASE kube[j].phase = "pending" -> {"running", "failure"}
               [] kube[j].phase = "running" -> {"success", "failure"}
               [] kube[j].phase \in {"success", "failure"} -> {"deleting"}
               [] OTHER -> {} : kube' = [kube EXCEPT ![j].phase = v]
  /\ UNCHANGED <<token, stray, ciRow, mgr, watcher, sweep, mixed, blamed>>
PodsGone(j) == /\ Present(j) /\ kube[j].phase = "deleting" /\ kube' = [kube EXCEPT ![j] = NoJob]
               /\ UNCHANGED <<token, stray, ciRow, mgr, watcher, sweep, mixed, blamed>>

KubeNext ==
  \/ \E j \in CiJobs : CancelCi(j) \/ (\E what \in {"step", "job"} : AskCi(j, what)) \/ GiveUpCi(j) \/ RerunCi(j) \/ Cluster(j) \/ PodsGone(j)
  \/ \E m \in Managers :
       \/ \E j \in CiJobs : Claim(m, j) \/ SweepSees(m, j)
       \/ Clear(m) \/ CreateJob(m) \/ Abandon(m) \/ WatcherSees(m) \/ WatcherDeletes(m) \/ BuildReady(m) \/ NoBuild(m)
       \/ FollowEnds(m) \/ RemoveJob(m) \/ (\E b \in BOOLEAN : Report(m, b)) \/ ManagerDies(m) \/ SweepDeletes(m)
       \/ Detach(m) \/ StraySees(m) \/ StrayDeletes(m)
KubeInit ==
  /\ token \in [Managers -> RunnerTokens]
  /\ ciRow = [j \in CiJobs |-> [status |-> "queued", runner |-> NoJob, by |-> NoJob,
                             asked |-> "no", attempt |-> 0]]
  /\ kube = [j \in CiJobs |-> NoJob] /\ mgr = [m \in Managers |-> NoTask]
  /\ watcher = [m \in Managers |-> "off"] /\ stray = [m \in Managers |-> NoStray] /\ sweep = [m \in Managers |-> NoJob]
  /\ mixed = FALSE /\ blamed = {}
SweepStep == \E m \in Managers, j \in CiJobs : SweepSees(m, j)
DeleteStep == \E m \in Managers : SweepDeletes(m)
GoneStep == \E j \in CiJobs : PodsGone(j)
KubeSpec == /\ KubeInit /\ [][KubeNext]_kubeVars
            /\ WF_kubeVars(SweepStep) /\ WF_kubeVars(DeleteStep) /\ WF_kubeVars(GoneStep)

---------------------------------------------------------------------------
KubeTypeOK ==
  /\ \A j \in CiJobs : ciRow[j].status \in Over \cup {"queued", "running"} /\ ciRow[j].attempt <= MaxAttempts
  /\ \A m \in Managers : /\ mgr[m].job \in CiJobs \cup {NoJob} /\ sweep[m] \in CiJobs \cup {NoJob}
                         /\ (stray[m].pc = "off") <=> (stray[m] = NoStray)
                         /\ watcher[m] # "off" => In(m, "watch") \/ In(m, "follow")
  /\ blamed \subseteq {"overlap", "foreign"}

(* A Job that runs an attempt is deleted, or reported on, by its own       *)
(* manager only, unless the attempt was claimed while an earlier one was   *)
(* under way, or runners of several tokens share the namespace.            *)
JobOfItsAttempt ==
  /\ "overlap" \in blamed => mixed
  /\ "foreign" \in blamed => Cardinality({token[m] : m \in Managers}) > 1

(* The Job of a CI job that is over goes, also when its manager died.      *)
LeftOver(j) == ciRow[j].status \in Over /\ Present(j)
JobsSwept == \A j \in CiJobs : LeftOver(j) ~> ~LeftOver(j)
===========================================================================
