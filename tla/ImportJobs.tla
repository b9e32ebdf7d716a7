----------------------------- MODULE ImportJobs -----------------------------
(* The import of repositories from another host: a job with a row for each *)
(* repository, taken by the workers of the worker process and of the API   *)
(* process, which poll the same tables.  A claim is a time stamp: a job, or*)
(* the mirror of a repository, untouched for 30 minutes may be claimed     *)
(* again while the first worker is still at it.                            *)
EXTENDS FiniteSets, Naturals

CONSTANTS ImportRows,       \* the repositories of the job, numbered by name
          ImportWorkers,
          RemoteIssues,     \* bound: issues numbered by the remote host
          MaxUserIssues,    \* bound: issues created by users meanwhile
          MaxAges,          \* bound: claims that expire under a worker at work
          MaxImportCrashes, \* bound: workers that die, or whose database fails
          Nothing           \* no repository

ASSUME ImportAssumption ==
  /\ ImportRows \subseteq Nat /\ IsFiniteSet(ImportRows) /\ Nothing \notin ImportRows
  /\ {RemoteIssues, MaxUserIssues, MaxAges, MaxImportCrashes} \subseteq Nat

VARIABLES
  job,        \* import_jobs: status, whether its time stamp is 30 minutes old
  options,    \* on_conflict = skip; whether issues are wanted
  row,        \* import_job_repos: status, stale, whether repository_id is set
  disk,       \* the repository: absent, a shell, the user's own, or mirrored
  before,     \* the repositories that were there before the job
  next,       \* repository_counters.next_issue_number
  imported,   \* numbers of imported issues
  users,      \* numbers of issues created by users
  hand,       \* a number a user's request has drawn and not inserted yet
  importer,   \* what every worker is doing
  expired,    \* history: mirrors claimed again while claimed
  contested,  \* history: rows a worker took up that were another's
  orphaned,   \* history: rows whose worker died
  short,      \* history: imports of issues that ended before the counter
  ages, importCrashes

importVars == <<job, options, row, disk, before, next, imported, users, hand, importer,
                expired, contested, orphaned, short, ages, importCrashes>>
tracker == <<next, imported, users, hand>>
history == <<expired, contested, orphaned, short, ages, importCrashes>>

ImportIdle == [pc |-> "idle", todo |-> {}, at |-> Nothing,
               fails |-> 0, count |-> 0]
Open == {"pending", "mirroring", "metadata"}
Settled == {"done", "failed", "skipped"}
JobEnded == job.status \in {"done", "failed", "gone"}

ImportInit ==
  /\ options \in [skip : BOOLEAN, issues : BOOLEAN]
  /\ job = [status |-> "pending", stale |-> FALSE]
  /\ \E S \in (SUBSET ImportRows) \ {{}} :
       row = [r \in S |-> [status |-> "pending", stale |-> FALSE, linked |-> FALSE]]
  /\ before \in SUBSET ImportRows
  /\ disk = [r \in ImportRows |-> IF r \in before THEN "local" ELSE "absent"]
  /\ next = [r \in ImportRows |-> 1] /\ imported = [r \in ImportRows |-> {}]
  /\ users = [r \in ImportRows |-> {}] /\ hand = [r \in ImportRows |-> 0]
  /\ importer = [t \in ImportWorkers |-> ImportIdle]
  /\ expired = {} /\ contested = {} /\ orphaned = {} /\ short = {} /\ ages = 0 /\ importCrashes = 0

JobRows == DOMAIN row

(* Deleting the credential deletes the job and its rows: updates find none.*)
SetRow(r, s) == row' = IF job.status = "gone" THEN row
                       ELSE [row EXCEPT ![r].status = s, ![r].stale = FALSE]
Goes(t, pc) == importer' = [importer EXCEPT ![t].pc = pc]
NextRow(t) == importer' = [importer EXCEPT ![t].pc = "next", ![t].at = Nothing]
Doing(t, pc) == importer[t].pc = pc
Here(t) == importer[t].at
Working == {t \in ImportWorkers : importer[t].pc # "idle"}

---------------------------------------------------------------------------
(* process_pending_jobs and process_job *)

ClaimJob(t) ==
  /\ Doing(t, "idle")
  /\ job.status = "pending" \/ (job.status = "mirroring" /\ job.stale)
  /\ job' = [status |-> "mirroring", stale |-> FALSE]
  /\ Goes(t, "read")
  /\ UNCHANGED <<options, row, disk, before, tracker, history>>

(* The rows still open, with their status and repository as they are now.  *)
ReadRows(t) ==
  /\ Doing(t, "read")
  /\ LET open == IF job.status = "gone" THEN {} ELSE {r \in JobRows : row[r].status \in Open} IN
     importer' = [importer EXCEPT ![t] = [ImportIdle EXCEPT !.pc = "next",
       !.todo = {<<r, row[r].status, row[r].linked>> : r \in open}, !.count = Cardinality(open)]]
  /\ contested' = contested \cup
       {r \in JobRows :  \/ row[r].status = "mirroring" /\ ~row[r].stale
                         \/ \E u \in ImportWorkers \ {t} :
                               Here(u) = r \/ r \in {e[1] : e \in importer[u].todo}}
  /\ UNCHANGED <<job, options, row, disk, before, tracker, expired, orphaned, short, ages, importCrashes>>

(* import_job_final_status *)
EndJob(t) ==
  /\ Doing(t, "next") /\ importer[t].todo = {}
  /\ job' = IF job.status = "gone" THEN job
            ELSE [status |-> IF importer[t].fails > 0 /\ importer[t].fails = importer[t].count
                             THEN "failed" ELSE "done", stale |-> FALSE]
  /\ importer' = [importer EXCEPT ![t] = ImportIdle]
  /\ UNCHANGED <<options, row, disk, before, tracker, history>>

FailRow(t) ==
  /\ SetRow(Here(t), "failed")
  /\ importer' = [importer EXCEPT ![t].pc = "next", ![t].at = Nothing, ![t].fails = @ + 1]

---------------------------------------------------------------------------
(* import_repo *)

(* The rows come by name. *)
Locate(t) ==
  /\ Doing(t, "next")
  /\ \E e \in importer[t].todo :
       LET r == e[1]
           At(pc) == importer' = [importer EXCEPT ![t].pc = pc, ![t].todo = @ \ {e}, ![t].at = r]
           go == IF e[2] = "metadata" THEN "upsert" ELSE "claim"
       IN /\ \A f \in importer[t].todo : r <= f[1]
          /\ CASE ~e[3] /\ disk[r] = "absent" -> At("create") /\ UNCHANGED row
               [] ~e[3] /\ disk[r] # "absent" /\ options.skip ->
                    SetRow(r, "skipped") /\ importer' = [importer EXCEPT ![t].todo = @ \ {e}]
               [] OTHER -> At(go) /\ UNCHANGED row
  /\ UNCHANGED <<job, options, disk, before, tracker, history>>

(* ensure_repository: the insert fails if another worker was faster. *)
CreateShell(t) ==
  /\ Doing(t, "create")
  /\ IF disk[Here(t)] = "absent"
     THEN disk' = [disk EXCEPT ![Here(t)] = "shell"] /\ Goes(t, "claim") /\ UNCHANGED row
     ELSE FailRow(t) /\ UNCHANGED disk
  /\ UNCHANGED <<job, options, before, tracker, history>>

(* mutant: the row is taken as it was read *)
ClaimMirrorRead(t) ==
  /\ Doing(t, "claim")
  /\ row' = [row EXCEPT ![Here(t)] = [status |-> "mirroring", stale |-> FALSE, linked |-> TRUE]]
  /\ Goes(t, "mirror")
  /\ UNCHANGED <<job, options, disk, before, tracker, history>>
(* try_claim_repo_mirror *)
ClaimMirror(t) ==
  /\ Doing(t, "claim")
  /\ LET r == Here(t) IN
     IF /\ job.status # "gone"
        /\ row[r].status = "pending" \/ (row[r].status = "mirroring" /\ row[r].stale)
     THEN /\ row' = [row EXCEPT ![r] = [status |-> "mirroring", stale |-> FALSE, linked |-> TRUE]]
          /\ expired' = IF row[r].status = "mirroring" THEN expired \cup {r} ELSE expired
          /\ Goes(t, "mirror")
     ELSE NextRow(t) /\ UNCHANGED <<row, expired>>
  /\ UNCHANGED <<job, options, disk, before, tracker, contested, orphaned, short, ages, importCrashes>>

(* mirror_repository replaces what is there. *)
Mirror(t) ==
  /\ Doing(t, "mirror")
  /\ \/ /\ disk' = [disk EXCEPT ![Here(t)] = "mirror"]
        /\ IF options.issues THEN SetRow(Here(t), "metadata") /\ Goes(t, "upsert")
                             ELSE Goes(t, "finish") /\ UNCHANGED row
     \/ FailRow(t) /\ UNCHANGED disk
  /\ UNCHANGED <<job, options, before, tracker, history>>

(* The labels, the milestones and every page come first: a failed request  *)
(* leaves no issue, a failed upsert those before it.                       *)
Arrived == 0..RemoteIssues

(* upsert_issue: an issue of the same number is overwritten. *)
Overwrite(r, n) == /\ imported' = [imported EXCEPT ![r] = @ \cup 1..n]
                   /\ users' = [users EXCEPT ![r] = @ \ 1..n]

(* import_github_issues: an error is logged and the counter stays as it was.*)
UpsertIssues(t) ==
  /\ Doing(t, "upsert")
  /\ \E n \in Arrived :
       /\ Overwrite(Here(t), n)
       /\ IF n = RemoteIssues THEN Goes(t, "bump") /\ UNCHANGED short
                              ELSE Goes(t, "finish") /\ short' = short \cup {Here(t)}
  /\ UNCHANGED <<job, options, row, disk, before, next, hand, expired, contested, orphaned, ages, importCrashes>>

BumpCounter(t) ==
  /\ Doing(t, "bump")
  /\ next' = [next EXCEPT ![Here(t)] = IF @ > RemoteIssues THEN @ ELSE RemoteIssues + 1]
  /\ Goes(t, "finish")
  /\ UNCHANGED <<job, options, row, disk, before, imported, users, hand, history>>

FinishRow(t) ==
  /\ Doing(t, "finish")
  /\ SetRow(Here(t), "done") /\ NextRow(t)
  /\ UNCHANGED <<job, options, disk, before, tracker, history>>

---------------------------------------------------------------------------
(* A user creates an issue: next_issue_number, then the insert, which      *)
(* fails when the number is taken.                                         *)
DrawNumber(r) ==
  /\ disk[r] # "absent" /\ hand[r] = 0 /\ next[r] <= RemoteIssues + MaxUserIssues
  /\ hand' = [hand EXCEPT ![r] = next[r]]
  /\ next' = [next EXCEPT ![r] = @ + 1]
  /\ UNCHANGED <<job, options, row, disk, before, imported, users, importer, history>>

InsertIssue(r) ==
  /\ hand[r] # 0
  /\ users' = IF hand[r] \in imported[r] THEN users ELSE [users EXCEPT ![r] = @ \cup {hand[r]}]
  /\ hand' = [hand EXCEPT ![r] = 0]
  /\ UNCHANGED <<job, options, row, disk, before, next, imported, importer, history>>

DeleteCredential ==
  /\ job' = [status |-> "gone", stale |-> FALSE]
  /\ ~JobEnded
  /\ UNCHANGED <<options, row, disk, before, tracker, importer, history>>

(* mutant: a job that is being mirrored is never claimed again *)
AgeNever == FALSE /\ UNCHANGED importVars
(* Thirty minutes pass for the job, and for some of its mirrors. *)
Age ==
  /\ job.status = "mirroring" /\ ~job.stale
  /\ ages' = IF Working = {} THEN ages ELSE ages + 1
  /\ ages' <= MaxAges
  /\ job' = [job EXCEPT !.stale = TRUE]
  /\ \E S \in SUBSET {r \in JobRows : row[r].status = "mirroring"} :
       /\ Working = {} => S = {r \in JobRows : row[r].status = "mirroring"}
       /\ row' = [r \in JobRows |-> IF r \in S THEN [row[r] EXCEPT !.stale = TRUE] ELSE row[r]]
  /\ UNCHANGED <<options, disk, before, tracker, importer, expired, contested, orphaned, short, importCrashes>>

(* The process stops, or a query of process_job fails. *)
ImporterDies(t) ==
  /\ t \in Working /\ importCrashes < MaxImportCrashes
  /\ importCrashes' = importCrashes + 1
  /\ importer' = [importer EXCEPT ![t] = ImportIdle]
  /\ orphaned' = orphaned \cup ({Here(t)} \ {Nothing})
  /\ short' = IF Doing(t, "bump") THEN short \cup {Here(t)} ELSE short
  /\ UNCHANGED <<job, options, row, disk, before, tracker, expired, contested, ages>>

ImportStep(t) ==
  \/ ClaimJob(t) \/ ReadRows(t) \/ EndJob(t) \/ Locate(t) \/ CreateShell(t)
  \/ ClaimMirror(t) \/ Mirror(t) \/ UpsertIssues(t) \/ BumpCounter(t) \/ FinishRow(t)

ImportNext ==
  \/ \E t \in ImportWorkers : ImportStep(t) \/ ImporterDies(t)
  \/ \E r \in ImportRows : DrawNumber(r) \/ InsertIssue(r)
  \/ DeleteCredential \/ Age

(* The workers poll for ever, and time passes. *)
ImportFairness == /\ \A t \in ImportWorkers : WF_importVars(ImportStep(t))
                  /\ WF_importVars(Age)
ImportSpec == ImportInit /\ [][ImportNext]_importVars /\ ImportFairness

---------------------------------------------------------------------------
ImportTypeOK ==
  /\ job.status \in {"pending", "mirroring", "done", "failed", "gone"} /\ job.stale \in BOOLEAN
  /\ JobRows \subseteq ImportRows /\ \A r \in JobRows : row[r].status \in Open \cup Settled
  /\ \A r \in ImportRows : /\ disk[r] \in {"absent", "shell", "local", "mirror"}
                           /\ next[r] \in 1..(RemoteIssues + MaxUserIssues + 1)
                           /\ users[r] \cap imported[r] = {}
  /\ \A t \in ImportWorkers : importer[t].fails <= importer[t].count

(* Two workers mirror one repository only after a claim of it ran out: a   *)
(* job taken over because it is long is not mirrored twice.                *)
OneMirror ==
  \A t, u \in ImportWorkers :
    t # u /\ Doing(t, "mirror") /\ Doing(u, "mirror") /\ Here(t) = Here(u) => Here(t) \in expired

(* When the job has ended and nobody works on it, every repository is      *)
(* imported, failed or skipped, but those whose worker died when another  *)
(* worker had taken them up: the job had run out, and their claim had not. *)
JobEndsSettled ==
  job.status \in {"done", "failed"} /\ Working = {} =>
    \A r \in JobRows : row[r].status \in Settled \/ r \in contested \cap orphaned

(* With on_conflict = skip a repository of the user's is left as it is. *)
LocalKept == options.skip => \A r \in before : disk[r] = "local"

(* After an import whose issues all arrived, a user's new issue gets a     *)
(* number nobody has; a failed fetch or a crash leaves the counter behind. *)
CounterAhead ==
  \A r \in ImportRows :
    (~\E t \in ImportWorkers : Here(t) = r) /\ r \notin short => \A n \in imported[r] : n < next[r]

(* All four, of the claims of an import job and of what several claims do  *)
(* to a repository, its issue numbers and the outcome of the job.          *)
ImportSound == OneMirror /\ JobEndsSettled /\ LocalKept /\ CounterAhead

(* Every job ends, whatever dies on the way. *)
ImportEnds == ~JobEnded ~> JobEnded
===========================================================================
