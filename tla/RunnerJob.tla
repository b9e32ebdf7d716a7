------------------------------ MODULE RunnerJob ------------------------------
(* One CI job under the shell executor (runner/src/job/shell.rs): its steps, *)
(* the poller that stops them, its artifacts, and the handlers of cicd.rs    *)
(* that store artifacts and remove them.                                     *)
EXTENDS Naturals, Sequences, FiniteSets

CONSTANTS
  Shells,       \* runner processes that present one token
  Script,       \* the steps, then the declared artifacts: [kind, name]
  MaxTries,     \* bound on the claims of the job
  MaxJobFaults  \* bound on lost connections and deaths

StepKinds == {"run", "upload", "declared"}
ASSUME ScriptAssumption ==
  /\ Script \in Seq([kind : StepKinds, name : STRING])
  /\ MaxTries \in Nat /\ MaxJobFaults \in Nat

VARIABLES
  ciJob,          \* the job_runs row: [st, try, overdue]; try counts its claims
  shell,          \* what run_job is doing in each process
  artifactFiles,  \* the names with a file in the artifact store
  artifactRows,   \* job_artifacts rows: [name, at, try]
  remover,        \* the request that removes artifacts: [pc, keys]
  untidy,         \* a removal met an execution, or an upload was cut off
  jobFaults
jobVars == <<ciJob, shell, artifactFiles, artifactRows, remover, untidy, jobFaults>>

Statuses == {"queued", "running", "success", "failure", "cancelled", "gone"}
Uploads == {i \in 1..Len(Script) : Script[i].kind # "run"}
NameAt(i) == Script[i].name
Artifact(i, try) == [name |-> NameAt(i), at |-> i, try |-> try]
Resting == [pc |-> "idle", try |-> 0, at |-> 1, stop |-> FALSE, end |-> "success"]
NoRemoval == [pc |-> "idle", keys |-> {}]
Executing(p) == shell[p].pc # "idle"

JobTypeOK ==
  /\ ciJob \in [st : Statuses, try : 0..MaxTries, overdue : BOOLEAN]
  /\ shell \in [Shells ->
       [pc : {"idle", "checkout", "next", "run", "check", "put", "insert", "finish"},
        try : 0..MaxTries, at : 1..(Len(Script) + 1), stop : BOOLEAN,
        end : {"success", "failure", "cancelled"}]]
  /\ artifactFiles \subseteq {NameAt(i) : i \in Uploads}
  /\ \A a \in artifactRows : a.at \in Uploads /\ a.name = NameAt(a.at) /\ a.try \in 1..MaxTries
  /\ remover \in [pc : {"idle", "keys", "unlink", "dkeys", "dunlink"}, keys : SUBSET {NameAt(i) : i \in Uploads}]
  /\ untidy \in BOOLEAN /\ jobFaults \in 0..MaxJobFaults

JobInit ==
  /\ ciJob = [st |-> "queued", try |-> 0, overdue |-> FALSE]
  /\ shell = [p \in Shells |-> Resting]
  /\ artifactFiles = {} /\ artifactRows = {} /\ remover = NoRemoval
  /\ untidy = FALSE /\ jobFaults = 0

StoreVars == <<artifactFiles, artifactRows, remover, untidy, jobFaults>>
ShellAt(p, pc) == shell[p].pc = pc
ShellTo(p, pc) == shell' = [shell EXCEPT ![p].pc = pc]
EndsAs(p, verdict) == shell' = [shell EXCEPT ![p].pc = "finish", ![p].end = verdict]
Advance(p) == shell' = [shell EXCEPT ![p].pc = "next", ![p].at = @ + 1, ![p].stop = FALSE]

-----------------------------------------------------------------------------
(* The runner *)

(* A poll claims the job and run_job begins with /start.                     *)
TakeJob(p) ==
  /\ ~Executing(p) /\ ciJob.st = "queued" /\ ciJob.try < MaxTries
  /\ ciJob' = [st |-> "running", try |-> ciJob.try + 1, overdue |-> FALSE]
  /\ shell' = [shell EXCEPT ![p] = [Resting EXCEPT !.pc = "checkout", !.try = ciJob.try + 1]]
  /\ untidy' = (untidy \/ remover.pc # "idle")
  /\ UNCHANGED <<artifactFiles, artifactRows, remover, jobFaults>>

(* materialize_workspace; a checkout that fails is reported as failure.      *)
Checkout(p) ==
  /\ ShellAt(p, "checkout")
  /\ ShellTo(p, "next") \/ EndsAs(p, "failure")
  /\ UNCHANGED <<ciJob, StoreVars>>

(* The answer of runner_job_control: 404 says nothing, and it is about the   *)
(* row, whichever process claimed it last.                                   *)
TimedOut == ciJob.st # "gone" /\ ciJob.overdue
CancelAsked == ciJob.st = "cancelled"
(* The run of a job that failed may have failed too, which stops its jobs.   *)
RunMayHaveFailed == ciJob.st = "failure"

(* The top of the loop over the steps; the artifacts a job declares follow   *)
(* its steps and ask for the time only.                                      *)
IsStep(p) == Script[shell[p].at].kind # "declared"
Halted(p) == TimedOut \/ (CancelAsked /\ IsStep(p))
BeginStep(p) ==
  /\ ShellAt(p, "next") /\ shell[p].at <= Len(Script) /\ ~Halted(p)
  /\ ShellTo(p, IF Script[shell[p].at].kind = "run" THEN "run" ELSE "check")
  /\ UNCHANGED <<ciJob, StoreVars>>
HaltStep(p) ==
  /\ ShellAt(p, "next") /\ shell[p].at <= Len(Script)
  /\ Halted(p) \/ (RunMayHaveFailed /\ IsStep(p))
  /\ EndsAs(p, IF TimedOut THEN "failure" ELSE "cancelled")
  /\ UNCHANGED <<ciJob, StoreVars>>
AllDone(p) ==
  /\ ShellAt(p, "next") /\ shell[p].at > Len(Script)
  /\ EndsAs(p, "success")
  /\ UNCHANGED <<ciJob, StoreVars>>

(* poll_cancel_signals, every 500 ms while a step runs                       *)
HearStop(p) ==
  /\ ShellAt(p, "run") /\ ~shell[p].stop
  /\ TimedOut \/ CancelAsked \/ RunMayHaveFailed
  /\ shell' = [shell EXCEPT ![p].stop = TRUE]
  /\ UNCHANGED <<ciJob, StoreVars>>

(* run_step_streaming_cancellable returns: 130 if it killed the step, the    *)
(* step's own code (which may be 130) if that ended first.                   *)
StepEnds(p) ==
  /\ ShellAt(p, "run")
  /\ \E code \in {"zero", "nonzero", "130"} :
       IF TimedOut THEN EndsAs(p, "failure")
       ELSE CASE code = "zero"    -> Advance(p)
              [] code = "nonzero" -> EndsAs(p, "failure")
              [] code = "130"     -> EndsAs(p, "cancelled")
  /\ UNCHANGED <<ciJob, StoreVars>>
StepKilled(p) == shell[p].stop /\ StepEnds(p)

(* upload_runner_artifact looks at the row before it reads the body, which   *)
(* may take long; then it writes the file, then it inserts a row.            *)
UploadCheck(p) ==
  /\ ShellAt(p, "check")
  /\ IF ciJob.st \in {"running", "success"} THEN ShellTo(p, "put") ELSE EndsAs(p, "failure")
  /\ UNCHANGED <<ciJob, StoreVars>>
UploadPut(p) ==
  /\ ShellAt(p, "put")
  /\ artifactFiles' = artifactFiles \cup {NameAt(shell[p].at)}
  /\ ShellTo(p, "insert")
  /\ UNCHANGED <<ciJob, artifactRows, remover, untidy, jobFaults>>
UploadInsert(p) ==
  /\ ShellAt(p, "insert") /\ ciJob.st # "gone"
  /\ artifactRows' = artifactRows \cup {Artifact(shell[p].at, shell[p].try)}
  /\ Advance(p)
  /\ UNCHANGED <<ciJob, artifactFiles, remover, untidy, jobFaults>>
RowGone(p) == ShellAt(p, "insert") /\ ciJob.st = "gone"
(* Mutant: an upload that fails is logged and the job goes on. *)
UploadFailsSoftly(p) ==
  /\ ShellAt(p, "put") \/ ShellAt(p, "insert")
  /\ jobFaults < MaxJobFaults \/ RowGone(p)
  /\ jobFaults' = IF jobFaults < MaxJobFaults THEN jobFaults + 1 ELSE jobFaults
  /\ untidy' = (untidy \/ ShellAt(p, "insert"))
  /\ Advance(p)
  /\ UNCHANGED <<ciJob, artifactFiles, artifactRows, remover>>
(* The connection is lost, or the row has gone: the step fails.              *)
UploadFails(p) ==
  /\ ShellAt(p, "put") \/ ShellAt(p, "insert")
  /\ jobFaults < MaxJobFaults \/ RowGone(p)
  /\ jobFaults' = IF jobFaults < MaxJobFaults THEN jobFaults + 1 ELSE jobFaults
  /\ untidy' = (untidy \/ ShellAt(p, "insert"))
  /\ EndsAs(p, "failure")
  /\ UNCHANGED <<ciJob, artifactFiles, artifactRows, remover>>

(* /complete: a cancelled row stays cancelled, another row is not changed.   *)
CompleteJob(p) ==
  /\ ShellAt(p, "finish")
  /\ ciJob' = [ciJob EXCEPT !.st = IF @ = "running" THEN shell[p].end ELSE @]
  /\ shell' = [shell EXCEPT ![p] = Resting]
  /\ UNCHANGED StoreVars
Die(p) ==
  /\ Executing(p) /\ jobFaults < MaxJobFaults
  /\ jobFaults' = jobFaults + 1
  /\ untidy' = (untidy \/ ShellAt(p, "insert"))
  /\ shell' = [shell EXCEPT ![p] = Resting]
  /\ UNCHANGED <<ciJob, artifactFiles, artifactRows, remover>>

-----------------------------------------------------------------------------
(* The API *)

JobOverruns ==
  /\ ciJob.st \in {"running", "cancelled"} /\ ~ciJob.overdue
  /\ ciJob' = [ciJob EXCEPT !.overdue = TRUE]
  /\ UNCHANGED <<shell, StoreVars>>
ReclaimJob ==
  /\ ciJob.st = "running" /\ ciJob.overdue
  /\ ciJob' = [ciJob EXCEPT !.st = "failure"]
  /\ UNCHANGED <<shell, StoreVars>>
(* cancel_pipeline_run, or cancel_job_step of a step that runs               *)
Cancelled(st) == IF st \in {"queued", "running"} THEN "cancelled" ELSE st
CancelJob ==
  /\ ciJob.st \in {"queued", "running"}
  /\ ciJob' = [ciJob EXCEPT !.st = Cancelled(@)]
  /\ UNCHANGED <<shell, StoreVars>>

(* A re-run of the pipeline resets the row and then removes what the last    *)
(* attempt left; the row can be claimed meanwhile.                           *)
ResetJob ==
  /\ remover.pc = "idle" /\ ciJob.st \notin {"queued", "running", "gone"} /\ ciJob.try < MaxTries
  /\ ciJob' = [ciJob EXCEPT !.st = "queued", !.overdue = FALSE]
  /\ remover' = [remover EXCEPT !.pc = "keys"]
  /\ UNCHANGED <<shell, artifactFiles, artifactRows, untidy, jobFaults>>
(* delete_pipeline cancels the run first.                                    *)
DeletePipeline ==
  /\ remover.pc = "idle" /\ ciJob.st # "gone"
  /\ ciJob' = [ciJob EXCEPT !.st = Cancelled(@)]
  /\ remover' = [remover EXCEPT !.pc = "dkeys"]
  /\ UNCHANGED <<shell, artifactFiles, artifactRows, untidy, jobFaults>>

(* Both removals read the keys of the rows, delete those files one by one,   *)
(* and delete the rows as they are then.                                     *)
Meets == untidy' = (untidy \/ \E p \in Shells : Executing(p))
ReadKeys ==
  /\ remover.pc \in {"keys", "dkeys"}
  /\ remover' = [keys |-> {a.name : a \in artifactRows},
                 pc |-> IF remover.pc = "keys" THEN "unlink" ELSE "dunlink"]
  /\ Meets
  /\ UNCHANGED <<ciJob, shell, artifactFiles, artifactRows, jobFaults>>
UnlinkFile ==
  /\ remover.pc \in {"unlink", "dunlink"} /\ remover.keys # {}
  /\ \E n \in remover.keys : /\ artifactFiles' = artifactFiles \ {n}
                             /\ remover' = [remover EXCEPT !.keys = @ \ {n}]
  /\ Meets
  /\ UNCHANGED <<ciJob, shell, artifactRows, jobFaults>>
DropRows ==
  /\ remover.pc \in {"unlink", "dunlink"} /\ remover.keys = {}
  /\ artifactRows' = {}
  /\ ciJob' = [ciJob EXCEPT !.st = IF remover.pc = "dunlink" THEN "gone" ELSE @]
  /\ remover' = NoRemoval
  /\ Meets
  /\ UNCHANGED <<shell, artifactFiles, jobFaults>>

ShellStep(p) ==
  \/ Checkout(p) \/ BeginStep(p) \/ HaltStep(p) \/ AllDone(p)
  \/ UploadCheck(p) \/ UploadPut(p) \/ UploadInsert(p) \/ CompleteJob(p)
JobNext ==
  \/ \E p \in Shells : \/ TakeJob(p) \/ ShellStep(p) \/ HearStop(p) \/ StepEnds(p)
                       \/ UploadFails(p) \/ Die(p)
  \/ JobOverruns \/ ReclaimJob \/ CancelJob \/ ResetJob \/ DeletePipeline
  \/ ReadKeys \/ UnlinkFile \/ DropRows
JobSpec == JobInit /\ [][JobNext]_jobVars

-----------------------------------------------------------------------------
(* A job that counts as successful has every artifact of that attempt, and   *)
(* between requests the store holds a file exactly for the rows that name    *)
(* one.  Only a removal that meets an execution (a claim between the reset   *)
(* of the row and the removal, a cancelled step that is still being stopped) *)
(* or a connection lost between file and row may break either.               *)
HasItsArtifacts ==
  ciJob.st = "success" /\ remover.pc = "idle" =>
    \A i \in Uploads : Artifact(i, ciJob.try) \in artifactRows
FilesOfRows ==
  remover.pc = "idle" /\ (\A p \in Shells : ~ShellAt(p, "insert")) =>
    artifactFiles = {a.name : a \in artifactRows}
(* Both: success and the rows of artifacts (upload_runner_artifact, the      *)
(* removals of a re-run and of a deletion) go together.                      *)
ArtifactsSound == ~untidy => HasItsArtifacts /\ FilesOfRows

(* A cancelled job is not executed for ever.                                 *)
Unstopped == ciJob.st = "cancelled" /\ \E p \in Shells : Executing(p)
=============================================================================
