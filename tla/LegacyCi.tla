------------------------------ MODULE LegacyCi ------------------------------
(* The conversion of .gitlab-ci.yml files and GitHub workflows into a      *)
(* pipeline configuration (crates/cicd/src/convert.rs): which jobs and     *)
(* triggers survive it, and what they need.                                *)
EXTENDS FiniteSets, Naturals, Sequences

CONSTANTS Unset,         \* a field that is absent
          GitlabFiles,   \* [stages |-> sequence, jobs |-> [name -> fields]]
          GithubFiles    \* [on |-> field or Unset, jobs |-> [name -> fields]]

(* The two kinds of files look different; a file has finitely many jobs.   *)
ASSUME FilesAssumption ==
  /\ GitlabFiles \cap GithubFiles = {}
  /\ \A file \in GitlabFiles : file.stages \in Seq(STRING) /\ IsFiniteSet(DOMAIN file.jobs)

VARIABLES source,        \* the file, with its kind
          converted      \* the outcome: Unset, NoJobs, or jobs and triggers

legacyVars == <<source, converted>>

NoJobs == [push |-> FALSE, pull_request |-> FALSE, jobs |-> <<>>]

LegacyInit == source = Unset /\ converted = Unset

(* mutant: a job counts for its stage even when it is omitted *)
ScriptedOrNot(file) == DOMAIN file.jobs
(* A job with neither script, before_script nor after_script is omitted.   *)
Scripted(file) == {j \in DOMAIN file.jobs : file.jobs[j].script}

StageOf(job) == IF job.stage = Unset THEN "test" ELSE job.stage
StageJobs(file, stage) == {j \in Scripted(file) : StageOf(file.jobs[j]) = stage}

(* The stages in their order, in any order where the file does not list    *)
(* them (the keys of a HashMap).                                           *)
StageOrders(file) ==
  LET used == {StageOf(file.jobs[j]) : j \in Scripted(file)} IN
  IF file.stages # <<>> THEN {file.stages}
  ELSE {s \in [1..Cardinality(used) -> used] : \A a, b \in DOMAIN s : a # b => s[a] # s[b]}

(* apply_gitlab_stage_needs: the needs left empty become the jobs of the   *)
(* stage before, where the order names both.  Pairs are visited in order,  *)
(* so the first that fills a job counts.                                   *)
StageNeeds(file, order, j) ==
  LET stage == StageOf(file.jobs[j])
      pairs == {i \in 2..Len(order) : order[i] = stage /\ StageJobs(file, order[i - 1]) # {}}
  IN IF file.jobs[j].needs # {} \/ pairs = {} THEN file.jobs[j].needs
     ELSE StageJobs(file, order[(CHOOSE i \in pairs : \A k \in pairs : i <= k) - 1])

(* when: and only: become an if:; `branches` says nothing, `tags` any tag, *)
(* everything else is a branch.                                            *)
GitlabIf(job) ==
  LET branches == job.only \ {"branches", "tags"} IN
  [event |-> IF job.when = "manual" THEN "manual" ELSE Unset,
   branch |-> IF branches = {} THEN Unset ELSE branches,
   tag |-> "tags" \in job.only]

ConvertGitlab(file) ==
  /\ source' = file
  /\ IF Scripted(file) = {} THEN converted' = NoJobs
     ELSE \E order \in StageOrders(file) :
       converted' = [push |-> TRUE, pull_request |-> FALSE,
         jobs |-> [j \in {k \in DOMAIN file.jobs : file.jobs[k].script} |->
                     [needs |-> StageNeeds(file, order, j), if |-> GitlabIf(file.jobs[j])]]]

(* Checkouts go, and steps with neither run nor uses; a job without a step *)
(* left is omitted.  A workflow on neither push nor pull_request runs on   *)
(* every push.                                                             *)
KeptSteps(job) == {s \in job.steps : s \in {"run", "uses"}}
ConvertGithub(file) ==
  /\ source' = file
  /\ LET kept == {j \in DOMAIN file.jobs : KeptSteps(file.jobs[j]) # {}}
         named == IF file.on = Unset THEN {"push"} ELSE file.on \cap {"push", "pull_request"}
     IN converted' = IF kept = {} THEN "no jobs"
          ELSE [push |-> named = {} \/ "push" \in named, pull_request |-> "pull_request" \in named,
                jobs |-> [j \in kept |-> [needs |-> file.jobs[j].needs,
                            if |-> [event |-> Unset, branch |-> Unset, tag |-> FALSE]]]]

LegacyNext == /\ source = Unset
              /\ \/ \E file \in GitlabFiles : ConvertGitlab(file)
                 \/ \E file \in GithubFiles : ConvertGithub(file)
LegacySpec == LegacyInit /\ [][LegacyNext]_legacyVars

---------------------------------------------------------------------------
(* A GitLab file whose jobs are ordered by stages alone, each listed once, *)
(* becomes a configuration the scheduler takes: every need is a job, and   *)
(* no job waits for itself, whichever jobs were omitted on the way         *)
(* (apply_gitlab_stage_needs).                                             *)
StagesAlone ==
  /\ source # Unset /\ source \in GitlabFiles /\ converted # NoJobs
  /\ \A j \in DOMAIN source.jobs : source.jobs[j].needs = {}
  /\ \A a, b \in DOMAIN source.stages : a # b => source.stages[a] # source.stages[b]
StagesSchedule ==
  StagesAlone =>
    LET jobs == converted.jobs IN
    /\ \A j \in DOMAIN jobs : jobs[j].needs \subseteq DOMAIN jobs
    /\ \A S \in SUBSET DOMAIN jobs : S # {} => \E j \in S : jobs[j].needs \cap S = {}
===========================================================================
