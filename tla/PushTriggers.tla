---------------------------- MODULE PushTriggers ----------------------------
(***************************************************************************)
(* From a push to a pipeline run.  The post-receive hook of a push inserts *)
(* rows into pipeline_triggers and then flushes every unprocessed row; the *)
(* worker polls the same table as a backup.  Neither claims a row: both    *)
(* read the unprocessed rows, start a run for each one, and mark it.       *)
(*                                                                         *)
(* A run is reduced to what other components see of it: whether it is open *)
(* and the commit status row it owns (PipelineRun models what happens      *)
(* inside).  One required job stands for the jobs of the configuration.    *)
(***************************************************************************)
EXTENDS Naturals, FiniteSets

CONSTANTS
    Commits,     \* commits that are pushed
    Config,      \* Config[c]: events for which .pertisk-ci.yaml at c starts a run
    Triggers,    \* ids of pipeline_triggers rows
    Runs,        \* ids of pipeline_runs rows
    Hooks,       \* post-receive tasks the API may run at the same time
    Worker,      \* the polling worker
    Nested,      \* whether the repository lives in a group inside a group
    None,        \* an absent id
    Verdicts,    \* how runs may end
    MaxCrashes,  \* bound on crashes of tasks
    MaxReruns    \* bound on re-runs

Events == {"push", "pull_request"}
Tasks == Hooks \union {Worker}

ASSUME ConfigAssumption == Config \in [Commits -> SUBSET Events]
ASSUME TaskAssumption == Worker \notin Hooks /\ Nested \in BOOLEAN
ASSUME NoneAssumption == None \notin Commits \union Triggers \union Runs
ASSUME VerdictAssumption == Verdicts \subseteq {"success", "failure"}
ASSUME BoundAssumption == MaxCrashes \in Nat /\ MaxReruns \in Nat

VARIABLES
    trig,     \* the rows of pipeline_triggers
    run,      \* the rows of pipeline_runs
    check,    \* commit_statuses: the row of the required job, for each commit
    task,     \* what each consumer is doing
    crashes, reruns

vars == <<trig, run, check, task, crashes, reruns>>

FreeTrigger == [st |-> "free", commit |-> None, event |-> "push"]
FreeRun == [st |-> "free", commit |-> None, trig |-> None]
NoCheck == [state |-> "none", owner |-> None]

PCs == {"idle", "enqueue", "pulls", "read", "next", "checks", "open", "mark"}
IdleTask == [pc |-> "idle", ups |-> {}, commit |-> None, batch |-> {},
             trig |-> None, run |-> None]
Polling == [IdleTask EXCEPT !.pc = "read"]

TriggersTypeOK ==
    /\ trig \in [Triggers -> [st : {"free", "new", "done"},
                              commit : Commits \union {None}, event : Events]]
    /\ run \in [Runs -> [st : {"free", "queued", "running", "success", "failure"},
                         commit : Commits \union {None},
                         trig : Triggers \union {None}]]
    /\ check \in [Commits -> [state : {"none", "pending", "success", "failure"},
                              owner : Runs \union {None}]]
    /\ task \in [Tasks -> [pc : PCs, ups : SUBSET Commits,
                           commit : Commits \union {None},
                           batch : SUBSET Triggers,
                           trig : Triggers \union {None},
                           run : Runs \union {None}]]
    /\ crashes \in 0 .. MaxCrashes
    /\ reruns \in 0 .. MaxReruns

TriggersInit ==
    /\ trig = [t \in Triggers |-> FreeTrigger]
    /\ run = [r \in Runs |-> FreeRun]
    /\ check = [c \in Commits |-> NoCheck]
    /\ task = [a \in Tasks |-> IF a = Worker THEN Polling ELSE IdleTask]
    /\ crashes = 0
    /\ reruns = 0

Goto(a, rec) == task' = [task EXCEPT ![a] = rec]
\* Mutant: only push events are polled.
UnprocessedPushes == {t \in Triggers : trig[t].st = "new" /\ trig[t].event = "push"}
Unprocessed == {t \in Triggers : trig[t].st = "new"}

(***************************************************************************)
(* Producing: the post-receive hook.                                       *)
(***************************************************************************)

\* receive_pack spawns the hook with the refs that differ between a snapshot
\* taken before and one taken after the push: what another push changed in
\* between is in it too.  (Bound: ids are left for all rows it may insert.)
Receive(a) ==
    /\ a \in Hooks
    /\ task[a].pc = "idle"
    /\ \E ups \in SUBSET Commits \ {{}} :
         /\ 2 * Cardinality(ups) <= Cardinality({t \in Triggers : trig[t].st = "free"})
         /\ Goto(a, [IdleTask EXCEPT !.pc = "enqueue", !.ups = ups])
    /\ UNCHANGED <<trig, run, check, crashes, reruns>>

\* An INSERT draws a new id; which one makes no difference.
Fresh(row) == CHOOSE i \in DOMAIN row : row[i].st = "free"
HasFree(row) == \E i \in DOMAIN row : row[i].st = "free"

InsertTrigger(c, e) ==
    /\ HasFree(trig)
    /\ trig' = [trig EXCEPT ![Fresh(trig)] = [st |-> "new", commit |-> c, event |-> e]]

\* enqueue_push_triggers: one row of its own for each update ...
EnqueuePush(a) ==
    /\ task[a].pc = "enqueue"
    /\ \E c \in task[a].ups :
        /\ InsertTrigger(c, "push")
        /\ Goto(a, [task[a] EXCEPT !.pc = "pulls", !.commit = c, !.ups = @ \ {c}])
    /\ UNCHANGED <<run, check, crashes, reruns>>

\* ... and one for the open pull request of the branch, if there is one.
EnqueuePull(a) ==
    /\ task[a].pc = "pulls"
    /\ InsertTrigger(task[a].commit, "pull_request")
    /\ Goto(a, [task[a] EXCEPT !.pc = "enqueue", !.commit = None])
    /\ UNCHANGED <<run, check, crashes, reruns>>

NoPull(a) ==
    /\ task[a].pc = "pulls"
    /\ Goto(a, [task[a] EXCEPT !.pc = "enqueue", !.commit = None])
    /\ UNCHANGED <<trig, run, check, crashes, reruns>>

BeginFlush(a) ==
    /\ task[a].pc = "enqueue"
    /\ task[a].ups = {}
    /\ Goto(a, Polling)
    /\ UNCHANGED <<trig, run, check, crashes, reruns>>

(***************************************************************************)
(* Consuming: flush_pending_triggers in the API, process_pending_triggers  *)
(* in the worker.                                                          *)
(***************************************************************************)

\* A batch of unprocessed rows.  The flush ends with the first empty batch;
\* the worker sleeps and polls again.
ReadBatch(a) ==
    /\ task[a].pc = "read"
    /\ \/ /\ Unprocessed # {}
          /\ Goto(a, [task[a] EXCEPT !.pc = "next", !.batch = Unprocessed])
       \/ /\ Unprocessed = {}
          /\ a # Worker
          /\ Goto(a, IdleTask)
    /\ UNCHANGED <<trig, run, check, crashes, reruns>>

\* process_trigger_now finds the repository on disk (the worker joins the slug
\* of the innermost group only), a configuration at the commit, and a trigger
\* in it that matches the event.
Matches(t) == trig[t].event \in Config[trig[t].commit]
\* Mutant: the worker never finds the repository.
FindsNot(a) == a # Worker
Finds(a) == a = Worker => ~Nested

StartRun(a) ==
    /\ task[a].pc = "next"
    /\ HasFree(run)
    /\ \E t \in task[a].batch, r \in {Fresh(run)} :
        /\ Finds(a) /\ Matches(t)
        /\ run' = [run EXCEPT ![r] = [st |-> "queued", commit |-> trig[t].commit,
                                      trig |-> t]]
        /\ Goto(a, [task[a] EXCEPT !.pc = "checks", !.trig = t, !.run = r])
    /\ UNCHANGED <<trig, check, crashes, reruns>>

SkipTrigger(a) ==
    /\ task[a].pc = "next"
    /\ \E t \in task[a].batch :
        /\ ~(Finds(a) /\ Matches(t))
        /\ Goto(a, [task[a] EXCEPT !.pc = "mark", !.trig = t])
    /\ UNCHANGED <<trig, run, check, crashes, reruns>>

\* The upsert of the commit status row: the run that materialises last owns it.
TakeCheck(r) ==
    check' = [check EXCEPT ![run[r].commit] = [state |-> "pending", owner |-> r]]

WriteChecks(a) ==
    /\ task[a].pc = "checks"
    /\ TakeCheck(task[a].run)
    /\ Goto(a, [task[a] EXCEPT !.pc = "open"])
    /\ UNCHANGED <<trig, run, crashes, reruns>>

\* Mutant: the run is reopened under a status of the checks.
OpenRunRaw(a) ==
    /\ task[a].pc = "open"
    /\ run' = [run EXCEPT ![task[a].run].st = "pending"]
    /\ Goto(a, [task[a] EXCEPT !.pc = "mark", !.run = None])
    /\ UNCHANGED <<trig, check, crashes, reruns>>
OpenRun(a) ==
    /\ task[a].pc = "open"
    /\ run' = [run EXCEPT ![task[a].run].st = "running"]
    /\ Goto(a, [task[a] EXCEPT !.pc = "mark", !.run = None])
    /\ UNCHANGED <<trig, check, crashes, reruns>>

\* Whatever became of the trigger, it is marked processed.
Mark(a) ==
    /\ task[a].pc = "mark"
    /\ trig' = [trig EXCEPT ![task[a].trig].st = "done"]
    /\ LET rest == task[a].batch \ {task[a].trig} IN
         Goto(a, [task[a] EXCEPT !.pc = IF rest = {} THEN "read" ELSE "next",
                                 !.batch = rest, !.trig = None])
    /\ UNCHANGED <<run, check, crashes, reruns>>

(***************************************************************************)
(* The life of a run, and crashes.                                         *)
(***************************************************************************)

\* Mutant: the owner of the status row is not compared.
FinishRunAny(r, verdict) ==
    /\ run[r].st = "running"
    /\ run' = [run EXCEPT ![r].st = verdict]
    /\ check' = [check EXCEPT ![run[r].commit].state = verdict]
    /\ UNCHANGED <<trig, task, crashes, reruns>>
\* The required job ends: its status is written only where the run still owns
\* the row.
FinishRun(r, verdict) ==
    /\ run[r].st = "running"
    /\ run' = [run EXCEPT ![r].st = verdict]
    /\ check' = IF check[run[r].commit].owner = r
                THEN [check EXCEPT ![run[r].commit].state = verdict] ELSE check
    /\ UNCHANGED <<trig, task, crashes, reruns>>

\* A re-run materialises the jobs again and takes the row back.
Rerun(r) ==
    /\ run[r].st \in {"success", "failure"}
    /\ reruns < MaxReruns
    /\ reruns' = reruns + 1
    /\ run' = [run EXCEPT ![r].st = "running"]
    /\ TakeCheck(r)
    /\ UNCHANGED <<trig, task, crashes>>

\* The process of a task dies; a hook is gone, the worker polls again.
Crash(a) ==
    /\ crashes < MaxCrashes
    /\ task[a].pc # "idle"
    /\ crashes' = crashes + 1
    /\ Goto(a, IF a = Worker THEN Polling ELSE IdleTask)
    /\ UNCHANGED <<trig, run, check, reruns>>

Consume(a) ==
    ReadBatch(a) \/ StartRun(a) \/ SkipTrigger(a) \/ WriteChecks(a) \/ OpenRun(a) \/ Mark(a)

TriggersNext ==
    \/ \E a \in Tasks :
         \/ Receive(a) \/ EnqueuePush(a) \/ EnqueuePull(a) \/ NoPull(a) \/ BeginFlush(a)
         \/ Consume(a) \/ Crash(a)
    \/ \E r \in Runs : Rerun(r) \/ \E verdict \in Verdicts : FinishRun(r, verdict)

TriggersSpec == TriggersInit /\ [][TriggersNext]_vars

\* The worker polls in a loop and its statements return; nothing is assumed of
\* the hooks, which may die with their request.
TriggersFairSpec == TriggersSpec /\ WF_vars(Consume(Worker))

(***************************************************************************)
(* What is promised.                                                       *)
(***************************************************************************)

\* A trigger is not dropped: once it is marked, and its configuration asks for
\* a run, there is a run, whichever consumer handled it and wherever a consumer
\* died (flush_pending_triggers, process_pending_triggers).
NoTriggerLost ==
    \A t \in Triggers :
        trig[t].st = "done" /\ Matches(t) => \E r \in Runs : run[r].trig = t

\* A commit status never shows the verdict of a run that no longer owns it: it
\* is pending while its owner is open, and its owner's verdict afterwards.
ChecksFollowOwner ==
    \A c \in Commits :
        LET o == check[c].owner IN
        /\ o = None <=> check[c].state = "none"
        /\ o # None =>
             /\ run[o].commit = c
             /\ check[c].state = IF run[o].st \in {"queued", "running"}
                                 THEN "pending" ELSE run[o].st

\* Every trigger is eventually processed, even when the API dies after it
\* inserted the row (the worker polls as a backup).
TriggersDrain ==
    \A t \in Triggers : trig[t].st = "new" ~> trig[t].st = "done"
=============================================================================
