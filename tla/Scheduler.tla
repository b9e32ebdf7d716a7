----------------------------- MODULE Scheduler -----------------------------
(***************************************************************************)
(* How the jobs of a configuration become the rows of a run:               *)
(* Scheduler::schedule counts the needs of every job and takes the jobs in *)
(* topological order, jobs that wait for a click last; schedule_for_run    *)
(* then demotes, pass after pass, the jobs behind a job that will not run; *)
(* expand_parallel_jobs multiplies what is left.  JobRules starts from the *)
(* outcome and assumes what is stated here of it.                          *)
(***************************************************************************)
EXTENDS FiniteSets, Naturals, Sequences

CONSTANTS
    JobNames,      \* the names under jobs:
    Position,      \* Position[j]: the place of j in the file
    NeedChoices,   \* the needs: lists considered, as functions on JobNames
    WantChoices,   \* what if: makes of every job (JobIf), likewise
    Clicks,        \* the sets of jobs with event: manual considered
    Parallel,      \* Parallel[j]: parallel: of j, 0 if there is none
    MaxJobParallel

ASSUME SchedulerAssumption ==
    /\ IsFiniteSet(JobNames)
    /\ Position \in [JobNames -> Nat]
    /\ \A i, j \in JobNames : Position[i] = Position[j] => i = j
    /\ \A n \in NeedChoices : DOMAIN n = JobNames /\ \A j \in JobNames : IsFiniteSet(n[j])
    /\ WantChoices \subseteq [JobNames -> {"Queued", "Manual", "Skipped"}]
    /\ Parallel \in [JobNames -> Nat]
    /\ MaxJobParallel \in Nat \ {0}

VARIABLES
    needs, want, clicked,   \* the configuration
    indegree,               \* needs of a job that are not in the order yet
    queue,                  \* jobs whose needs are all in the order
    ordered,                \* the order so far
    mode, upstream,         \* the mode of a job; whether a need put it there
    cursor, changed,        \* the pass over the order
    phase

schedulerVars == <<needs, want, clicked, indegree, queue, ordered,
                   mode, upstream, cursor, changed, phase>>
config == <<needs, want, clicked>>

InOrder == {ordered[i] : i \in 1..Len(ordered)}

SchedulerInit ==
    /\ needs \in NeedChoices /\ want \in WantChoices /\ clicked \in Clicks
    /\ indegree = [j \in JobNames |-> 0] /\ queue = {} /\ ordered = <<>>
    /\ mode = want /\ upstream = {}
    /\ cursor = 1 /\ changed = FALSE
    /\ phase = "count"

---------------------------------------------------------------------------
(* Scheduler::schedule *)

UnknownNeed == \E j \in JobNames : ~(needs[j] \subseteq JobNames)

(* mutant: a job that needs several is counted as needing one *)
CountNeedsOnce ==
    /\ phase = "count"
    /\ IF UnknownNeed
       THEN phase' = "unknown" /\ UNCHANGED <<indegree, queue>>
       ELSE /\ indegree' = [j \in JobNames |-> IF needs[j] = {} THEN 0 ELSE 1]
            /\ queue' = {j \in JobNames : needs[j] = {}}
            /\ phase' = "sort"
    /\ UNCHANGED <<config, ordered, mode, upstream, cursor, changed>>
CountNeeds ==
    /\ phase = "count"
    /\ IF UnknownNeed
       THEN phase' = "unknown" /\ UNCHANGED <<indegree, queue>>
       ELSE /\ indegree' = [j \in JobNames |-> Cardinality(needs[j])]
            /\ queue' = {j \in JobNames : needs[j] = {}}
            /\ phase' = "sort"
    /\ UNCHANGED <<config, ordered, mode, upstream, cursor, changed>>

(* compare_job_names, by which the queue is kept sorted. *)
Before(i, j) ==
    \/ i \notin clicked /\ j \in clicked
    \/ (i \in clicked <=> j \in clicked) /\ Position[i] < Position[j]
First(S) == CHOOSE j \in S : \A i \in S \ {j} : Before(j, i)

TakeJob ==
    /\ phase = "sort" /\ queue # {}
    /\ LET j == First(queue) IN
       IF j \in InOrder
       THEN phase' = "cycle" /\ UNCHANGED <<ordered, indegree, queue>>
       ELSE /\ ordered' = Append(ordered, j)
            /\ indegree' = [c \in JobNames |-> IF j \in needs[c] THEN indegree[c] - 1
                                                                 ELSE indegree[c]]
            /\ queue' = (queue \ {j}) \cup
                          {c \in JobNames : j \in needs[c] /\ indegree'[c] = 0}
            /\ UNCHANGED phase
    /\ UNCHANGED <<config, mode, upstream, cursor, changed>>

EndOrder ==
    /\ phase = "sort" /\ queue = {}
    /\ phase' = IF Len(ordered) # Cardinality(JobNames) THEN "cycle" ELSE "demote"
    /\ UNCHANGED <<config, indegree, queue, ordered, mode, upstream, cursor, changed>>

---------------------------------------------------------------------------
(* Scheduler::schedule_for_run *)

HeldBack(j) == mode[j] = "Queued" /\ \E d \in needs[j] : mode[d] # "Queued"

(* mutant: only a skipped job holds back, not one that waits for a click *)
DemoteJobSkippedOnly ==
    /\ phase = "demote" /\ cursor <= Len(ordered)
    /\ LET j == ordered[cursor] IN
       IF mode[j] = "Queued" /\ \E d \in needs[j] : mode[d] = "Skipped"
       THEN /\ mode' = [mode EXCEPT ![j] = "Skipped"]
            /\ upstream' = upstream \cup {j}
            /\ changed' = TRUE
       ELSE UNCHANGED <<mode, upstream, changed>>
    /\ cursor' = cursor + 1
    /\ UNCHANGED <<config, indegree, queue, ordered, phase>>
DemoteJob ==
    /\ phase = "demote" /\ cursor <= Len(ordered)
    /\ LET j == ordered[cursor] IN
       IF HeldBack(j)
       THEN /\ mode' = [mode EXCEPT ![j] = "Skipped"]
            /\ upstream' = upstream \cup {j}
            /\ changed' = TRUE
       ELSE UNCHANGED <<mode, upstream, changed>>
    /\ cursor' = cursor + 1
    /\ UNCHANGED <<config, indegree, queue, ordered, phase>>

EndPass ==
    /\ phase = "demote" /\ cursor > Len(ordered)
    /\ IF changed THEN cursor' = 1 /\ changed' = FALSE /\ UNCHANGED phase
       ELSE phase' = "expand" /\ UNCHANGED <<cursor, changed>>
    /\ UNCHANGED <<config, indegree, queue, ordered, mode, upstream>>

---------------------------------------------------------------------------
(* expand_parallel_jobs *)

Count(j) == IF Parallel[j] < 1 THEN 1
            ELSE IF Parallel[j] > MaxJobParallel THEN MaxJobParallel ELSE Parallel[j]
Instances == {<<j, i>> : j \in JobNames, i \in 1..MaxJobParallel} \cap
             UNION {{j} \X (1..Count(j)) : j \in JobNames}
NeedsOf(x) == UNION {{d} \X (1..Count(d)) : d \in needs[x[1]]}

Place(j) == CHOOSE p \in 1..Len(ordered) : ordered[p] = j
RankOf(x) == Place(x[1]) * (MaxJobParallel + 1) + x[2]

Expand ==
    /\ phase = "expand"
    /\ phase' = "done"
    /\ UNCHANGED <<config, indegree, queue, ordered, mode, upstream, cursor, changed>>

SchedulerNext == CountNeeds \/ TakeJob \/ EndOrder \/ DemoteJob \/ EndPass \/ Expand

(* One thread runs to the end. *)
SchedulerSpec == SchedulerInit /\ [][SchedulerNext]_schedulerVars /\ WF_schedulerVars(SchedulerNext)

---------------------------------------------------------------------------
SchedulerPhases == {"count", "unknown", "sort", "cycle", "demote", "expand", "done"}

SchedulerTypeOK ==
    /\ needs \in NeedChoices /\ want \in WantChoices /\ clicked \in Clicks
    /\ indegree \in [JobNames -> Nat]
    /\ queue \subseteq JobNames
    /\ ordered \in Seq(JobNames)
    /\ mode \in [JobNames -> {"Queued", "Manual", "Skipped"}]
    /\ upstream \subseteq JobNames
    /\ cursor \in 1..Len(ordered) + 1
    /\ changed \in BOOLEAN
    /\ phase \in SchedulerPhases

(* A job loses the mode its if: gave it only behind a job that does not    *)
(* run by itself, and a job that waits for a click keeps its button.       *)
DemotedBehindAGap ==
    \A j \in JobNames :
        IF j \in upstream THEN want[j] = "Queued" /\ \E d \in needs[j] : mode[d] # "Queued"
                          ELSE mode[j] = want[j]

(* The outcome is what JobRules assumes of the schedule of a run: every    *)
(* job has its rows, the rows of a job come after all the rows of the jobs *)
(* it needs, and a job that is queued needs queued jobs only               *)
(* (JobRules!RankAssumption, ModeAssumption).  No job is demoted for       *)
(* another reason than a gap before it.                                    *)
ScheduleFeedsRun ==
    DemotedBehindAGap /\ (phase = "done" =>
        /\ InOrder = JobNames /\ Len(ordered) = Cardinality(JobNames)
        /\ \A x, y \in Instances : y \in NeedsOf(x) => RankOf(y) < RankOf(x)
        /\ \A x, y \in Instances : x # y => RankOf(x) # RankOf(y)
        /\ \A x \in Instances : NeedsOf(x) \subseteq Instances
        /\ \A j \in JobNames : mode[j] = "Queued" => \A d \in needs[j] : mode[d] = "Queued")

(* The order fails exactly on a cycle: some jobs all need one another.     *)
Cyclic == \E S \in SUBSET JobNames : S # {} /\ \A j \in S : needs[j] \cap S # {}
CycleReported ==
    /\ phase = "cycle" => Cyclic
    /\ phase \in {"demote", "expand", "done"} => ~Cyclic

(* Both: what schedule_for_run returns is what the pipeline run relies on, *)
(* and an error means a cycle.                                             *)
ScheduleSound == ScheduleFeedsRun /\ CycleReported

===========================================================================
