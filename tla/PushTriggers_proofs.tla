------------------------ MODULE PushTriggers_proofs ------------------------
(***************************************************************************)
(* Proofs about PushTriggers, for every number of triggers, runs, commits  *)
(* and hooks: types, the owner of a commit status, and, for repositories   *)
(* the worker finds, that no trigger is lost.                              *)
(***************************************************************************)
EXTENDS PushTriggers, TLAPS

TrigRows == [st : {"free", "new", "done"}, commit : Commits \union {None}, event : Events]
RunRows == [st : {"free", "queued", "running", "success", "failure"},
            commit : Commits \union {None}, trig : Triggers \union {None}]
CheckRows == [state : {"none", "pending", "success", "failure"}, owner : Runs \union {None}]
TaskRows == [pc : PCs, ups : SUBSET Commits, commit : Commits \union {None},
             batch : SUBSET Triggers, trig : Triggers \union {None},
             run : Runs \union {None}]

\* A consumer that has started a run still names it and its trigger, no other
\* consumer does, and the run waits to be opened.
Starting(a) == task[a].pc \in {"checks", "open"}
StartsItsOwn ==
    \A a \in Tasks : Starting(a) =>
        /\ task[a].run \in Runs /\ task[a].trig \in Triggers
        /\ run[task[a].run].st = "queued"
        /\ run[task[a].run].trig = task[a].trig
        /\ \A b \in Tasks \ {a} : Starting(b) => task[b].run # task[a].run
Marking == \A a \in Tasks : task[a].pc = "mark" => task[a].trig \in Triggers
FreeRunsAreBlank ==
    /\ \A r \in Runs : run[r].st = "free" => run[r].trig = None
    /\ \A c \in Commits : check[c].owner # None => run[check[c].owner].st # "free"
RowsInv == TriggersTypeOK /\ StartsItsOwn /\ Marking /\ FreeRunsAreBlank /\ ChecksFollowOwner

\* What a consumer works on has been inserted; what it marks, it has started.
Started(t) == Matches(t) => \E r \in Runs : run[r].trig = t
Inserted ==
    \A a \in Tasks :
        /\ \A t \in task[a].batch : trig[t].st # "free"
        /\ Starting(a) \/ task[a].pc = "mark" => trig[task[a].trig].st # "free"
        /\ task[a].pc = "mark" => Started(task[a].trig)
LossInv == RowsInv /\ Inserted /\ NoTriggerLost

-----------------------------------------------------------------------------
LEMMA FreshIsFree ==
    ASSUME NEW S, NEW row, DOMAIN row = S, HasFree(row)
    PROVE  Fresh(row) \in S /\ row[Fresh(row)].st = "free"
BY DEF Fresh, HasFree

LEMMA Blank ==
    /\ IdleTask \in TaskRows /\ Polling \in TaskRows
    /\ IdleTask.pc = "idle" /\ Polling.pc = "read"
    /\ IdleTask.batch = {} /\ Polling.batch = {}
<1>1. IdleTask \in TaskRows /\ IdleTask.pc = "idle" /\ IdleTask.batch = {}
  BY DEF IdleTask, TaskRows, PCs
<1>2. Polling \in TaskRows /\ Polling.pc = "read" /\ Polling.batch = {}
  BY DEF IdleTask, Polling, TaskRows, PCs
<1> QED
  BY <1>1, <1>2

LEMMA TypesSplit ==
    TriggersTypeOK <=>
      /\ trig \in [Triggers -> TrigRows] /\ run \in [Runs -> RunRows]
      /\ check \in [Commits -> CheckRows] /\ task \in [Tasks -> TaskRows]
      /\ crashes \in 0 .. MaxCrashes /\ reruns \in 0 .. MaxReruns
BY DEF TriggersTypeOK, TrigRows, RunRows, CheckRows, TaskRows

LEMMA TriggersInitial == TriggersInit => LossInv
<1> SUFFICES ASSUME TriggersInit PROVE LossInv
  OBVIOUS
<1>1. /\ \A t \in Triggers : trig[t] = FreeTrigger
      /\ \A r \in Runs : run[r] = FreeRun
      /\ \A c \in Commits : check[c] = NoCheck
      /\ \A a \in Tasks : task[a] \in {IdleTask, Polling}
  BY DEF TriggersInit
<1>2. TriggersTypeOK
  <2>1. FreeTrigger \in TrigRows /\ FreeRun \in RunRows /\ NoCheck \in CheckRows
    BY DEF FreeTrigger, FreeRun, NoCheck, TrigRows, RunRows, CheckRows, Events
  <2> QED
    BY <2>1, Blank, BoundAssumption, TypesSplit DEF TriggersInit
<1>3. \A a \in Tasks : task[a].pc \in {"idle", "read"} /\ task[a].batch = {}
  BY <1>1, Blank
<1>4. StartsItsOwn /\ Marking /\ Inserted
  BY <1>3 DEF StartsItsOwn, Starting, Marking, Inserted
<1>5. FreeRunsAreBlank /\ ChecksFollowOwner
  BY <1>1 DEF FreeRunsAreBlank, ChecksFollowOwner, FreeRun, NoCheck
<1>6. NoTriggerLost
  BY <1>1 DEF NoTriggerLost, FreeTrigger
<1> QED
  BY <1>2, <1>4, <1>5, <1>6 DEF LossInv, RowsInv

-----------------------------------------------------------------------------
(* Types, starting consumers and owners of the statuses. *)

\* A task moves to where it starts and marks nothing, the runs stay.
LEMMA TaskMoves ==
    ASSUME RowsInv, NEW a \in Tasks, NEW rec \in TaskRows, Goto(a, rec),
           rec.pc \notin {"checks", "open", "mark"},
           UNCHANGED <<run, check>>
    PROVE  /\ task' \in [Tasks -> TaskRows]
           /\ StartsItsOwn' /\ Marking' /\ FreeRunsAreBlank' /\ ChecksFollowOwner'
<1>1. task \in [Tasks -> TaskRows] /\ task' = [task EXCEPT ![a] = rec]
  BY TypesSplit DEF RowsInv, Goto
<1>2. task' \in [Tasks -> TaskRows]
  BY <1>1
<1>3. /\ \A b \in Tasks : task'[b] = IF b = a THEN rec ELSE task[b]
      /\ ~Starting(a)'
      /\ \A b \in Tasks \ {a} : Starting(b)' <=> Starting(b)
  BY <1>1 DEF Starting
<1>4. StartsItsOwn'
  BY <1>3 DEF RowsInv, StartsItsOwn
<1>5. Marking'
  BY <1>3 DEF RowsInv, Marking
<1>6. FreeRunsAreBlank' /\ ChecksFollowOwner'
  BY DEF RowsInv, FreeRunsAreBlank, ChecksFollowOwner
<1> QED
  BY <1>2, <1>4, <1>5, <1>6

LEMMA ProducersKeepRows ==
    ASSUME RowsInv, NEW a \in Tasks,
           Receive(a) \/ EnqueuePush(a) \/ EnqueuePull(a) \/ NoPull(a) \/ BeginFlush(a)
             \/ ReadBatch(a) \/ Crash(a)
    PROVE  RowsInv'
<1>1. /\ trig \in [Triggers -> TrigRows] /\ task[a] \in TaskRows
      /\ crashes \in 0 .. MaxCrashes
  BY TypesSplit DEF RowsInv
<1>2. UNCHANGED <<run, check, reruns>>
  BY DEF Receive, EnqueuePush, EnqueuePull, NoPull, BeginFlush, ReadBatch, Crash
<1>3. \E rec \in TaskRows : Goto(a, rec) /\ rec.pc \notin {"checks", "open", "mark"}
  <2>1. CASE Receive(a)
    <3>1. PICK ups \in SUBSET Commits : Goto(a, [IdleTask EXCEPT !.pc = "enqueue", !.ups = ups])
      BY <2>1 DEF Receive
    <3> DEFINE rec == [IdleTask EXCEPT !.pc = "enqueue", !.ups = ups]
    <3>2. rec \in TaskRows /\ rec.pc = "enqueue"
      BY Blank DEF TaskRows, PCs
    <3> QED
      BY <3>1, <3>2
  <2>2. CASE EnqueuePush(a)
    <3>1. PICK c \in task[a].ups :
            Goto(a, [task[a] EXCEPT !.pc = "pulls", !.commit = c, !.ups = @ \ {c}])
      BY <2>2 DEF EnqueuePush
    <3> DEFINE rec == [task[a] EXCEPT !.pc = "pulls", !.commit = c, !.ups = @ \ {c}]
    <3>2. task[a].ups \subseteq Commits
      BY <1>1 DEF TaskRows
    <3>3. rec \in TaskRows /\ rec.pc = "pulls"
      BY <1>1, <3>2 DEF TaskRows, PCs
    <3> QED
      BY <3>1, <3>3
  <2>3. CASE EnqueuePull(a) \/ NoPull(a)
    <3>1. Goto(a, [task[a] EXCEPT !.pc = "enqueue", !.commit = None])
      BY <2>3 DEF EnqueuePull, NoPull
    <3> DEFINE rec == [task[a] EXCEPT !.pc = "enqueue", !.commit = None]
    <3>2. rec \in TaskRows /\ rec.pc = "enqueue"
      BY <1>1 DEF TaskRows, PCs
    <3> QED
      BY <3>1, <3>2
  <2>4. CASE BeginFlush(a) \/ Crash(a)
    BY <2>4, Blank DEF BeginFlush, Crash
  <2>5. CASE ReadBatch(a)
    <3>1. CASE Goto(a, IdleTask)
      BY <3>1, Blank
    <3> DEFINE rec == [task[a] EXCEPT !.pc = "next", !.batch = Unprocessed]
    <3>2. CASE Goto(a, rec)
      <4>1. Unprocessed \in SUBSET Triggers
        BY DEF Unprocessed
      <4>2. rec \in TaskRows /\ rec.pc = "next"
        BY <1>1, <4>1 DEF TaskRows, PCs
      <4> QED
        BY <3>2, <4>2
    <3> QED
      BY <2>5, <3>1, <3>2 DEF ReadBatch
  <2> QED
    BY <2>1, <2>2, <2>3, <2>4, <2>5
<1>4. trig' \in [Triggers -> TrigRows]
  <2>1. ASSUME NEW c \in Commits \union {None}, NEW e \in Events, InsertTrigger(c, e)
        PROVE  trig' \in [Triggers -> TrigRows]
    BY <1>1, <2>1 DEF InsertTrigger, TrigRows
  <2>2. CASE EnqueuePush(a)
    <3>1. PICK c \in task[a].ups : InsertTrigger(c, "push")
      BY <2>2 DEF EnqueuePush
    <3> QED
      BY <1>1, <2>1, <3>1 DEF TaskRows, Events
  <2>3. CASE EnqueuePull(a)
    BY <1>1, <2>1, <2>3 DEF EnqueuePull, TaskRows, Events
  <2>4. CASE UNCHANGED trig
    BY <1>1, <2>4
  <2> QED
    BY <2>2, <2>3, <2>4 DEF Receive, NoPull, BeginFlush, ReadBatch, Crash
<1>5. crashes' \in 0 .. MaxCrashes
  <2>1. crashes' = crashes \/ (crashes < MaxCrashes /\ crashes' = crashes + 1)
    BY DEF Receive, EnqueuePush, EnqueuePull, NoPull, BeginFlush, ReadBatch, Crash
  <2> QED
    BY <1>1, <2>1, BoundAssumption
<1>6. /\ task' \in [Tasks -> TaskRows]
      /\ StartsItsOwn' /\ Marking' /\ FreeRunsAreBlank' /\ ChecksFollowOwner'
  BY <1>2, <1>3, TaskMoves
<1>7. TriggersTypeOK'
  BY <1>2, <1>4, <1>5, <1>6, TypesSplit DEF RowsInv, TriggersTypeOK, TrigRows, TaskRows
<1> QED
  BY <1>6, <1>7 DEF RowsInv

LEMMA SkipKeepsRows == ASSUME RowsInv, NEW a \in Tasks, SkipTrigger(a) PROVE RowsInv'
<1>1. PICK t \in task[a].batch : Goto(a, [task[a] EXCEPT !.pc = "mark", !.trig = t])
  BY DEF SkipTrigger
<1>2. task \in [Tasks -> TaskRows] /\ t \in Triggers
  BY TypesSplit DEF RowsInv, TaskRows
<1>3. /\ task' \in [Tasks -> TaskRows] /\ ~Starting(a)'
      /\ \A b \in Tasks \ {a} : task'[b] = task[b]
      /\ task'[a].trig = t
  BY <1>1, <1>2 DEF Goto, TaskRows, PCs, Starting
<1>4. UNCHANGED <<trig, run, check, crashes, reruns>>
  BY DEF SkipTrigger
<1>5. TriggersTypeOK'
  BY <1>3, <1>4 DEF RowsInv, TriggersTypeOK, TaskRows
<1>6. StartsItsOwn' /\ Marking' /\ FreeRunsAreBlank' /\ ChecksFollowOwner'
  BY <1>2, <1>3, <1>4 DEF RowsInv, StartsItsOwn, Starting, Marking, FreeRunsAreBlank, ChecksFollowOwner
<1> QED
  BY <1>5, <1>6 DEF RowsInv

LEMMA StartKeepsRows == ASSUME RowsInv, NEW a \in Tasks, StartRun(a) PROVE RowsInv'
<1> DEFINE r == Fresh(run)
<1>1. PICK t \in task[a].batch :
        /\ run' = [run EXCEPT ![r] = [st |-> "queued", commit |-> trig[t].commit, trig |-> t]]
        /\ Goto(a, [task[a] EXCEPT !.pc = "checks", !.trig = t, !.run = r])
  BY DEF StartRun
<1>2. /\ task \in [Tasks -> TaskRows] /\ t \in Triggers /\ run \in [Runs -> RunRows]
      /\ trig \in [Triggers -> TrigRows] /\ check \in [Commits -> CheckRows]
  BY TypesSplit DEF RowsInv, TaskRows
<1>3. r \in Runs /\ run[r].st = "free"
  BY <1>2, FreshIsFree DEF StartRun
<1>4. UNCHANGED <<trig, check, crashes, reruns>>
  BY DEF StartRun
<1> HIDE DEF r
<1>5. /\ run' \in [Runs -> RunRows] /\ run'[r].st = "queued" /\ run'[r].trig = t
      /\ \A q \in Runs \ {r} : run'[q] = run[q]
  BY <1>1, <1>2, <1>3 DEF RunRows, TrigRows
<1>6. /\ task' \in [Tasks -> TaskRows] /\ task'[a].pc = "checks"
      /\ task'[a].run = r /\ task'[a].trig = t
      /\ \A b \in Tasks \ {a} : task'[b] = task[b]
  BY <1>1, <1>2, <1>3 DEF Goto, TaskRows, PCs
<1>7. TriggersTypeOK'
  BY <1>4, <1>5, <1>6 DEF RowsInv, TriggersTypeOK, TaskRows, RunRows
<1>8. StartsItsOwn'
  <2>1. \A b \in Tasks \ {a} : Starting(b)' => Starting(b) /\ task[b].run # r
    BY <1>3, <1>6 DEF RowsInv, StartsItsOwn, Starting
  <2> QED
    BY <1>2, <1>3, <1>5, <1>6, <2>1 DEF RowsInv, StartsItsOwn, Starting
<1>9. Marking'
  BY <1>6 DEF RowsInv, Marking
<1>10. FreeRunsAreBlank'
  <2>1. \A q \in Runs : run'[q].st = "free" => run'[q].trig = None
    BY <1>5 DEF RowsInv, FreeRunsAreBlank
  <2>2. ASSUME NEW c \in Commits, check[c].owner # None
        PROVE  run'[check[c].owner].st # "free"
    <3>1. check[c].owner \in Runs
      BY <1>2, <2>2 DEF CheckRows
    <3> QED
      BY <1>5, <2>2, <3>1 DEF RowsInv, FreeRunsAreBlank
  <2> QED
    BY <1>4, <2>1, <2>2 DEF FreeRunsAreBlank
<1>11. ChecksFollowOwner'
  BY <1>2, <1>3, <1>4, <1>5, NoneAssumption DEF RowsInv, FreeRunsAreBlank, ChecksFollowOwner, CheckRows
<1> QED
  BY <1>7, <1>8, <1>9, <1>10, <1>11 DEF RowsInv

\* A run that is open takes the status row over.
LEMMA TakenCheck ==
    ASSUME RowsInv, NEW r \in Runs, TakeCheck(r), run' \in [Runs -> RunRows],
           \A q \in Runs \ {r} : run'[q] = run[q],
           run'[r].st \in {"queued", "running"}, run'[r].commit = run[r].commit
    PROVE  /\ check' \in [Commits -> CheckRows]
           /\ ChecksFollowOwner'
           /\ \A c \in Commits : check'[c].owner # None => run'[check'[c].owner].st # "free"
<1>1. /\ check \in [Commits -> CheckRows] /\ run \in [Runs -> RunRows]
      /\ r # None
  BY TypesSplit, NoneAssumption DEF RowsInv
<1>2. /\ check' \in [Commits -> CheckRows]
      /\ \A c \in Commits : check'[c] = IF c = run[r].commit
                                        THEN [state |-> "pending", owner |-> r] ELSE check[c]
  BY <1>1 DEF TakeCheck, CheckRows
<1>3. ASSUME NEW c \in Commits, c # run[r].commit
      PROVE  check'[c] = check[c] /\ check[c].owner # r
  BY <1>1, <1>2, <1>3 DEF RowsInv, ChecksFollowOwner
<1>4. \A c \in Commits : check[c].owner \in Runs \union {None}
  BY <1>1 DEF CheckRows
<1>5. ChecksFollowOwner'
  BY <1>1, <1>2, <1>3, <1>4 DEF RowsInv, ChecksFollowOwner
<1>6. \A c \in Commits : check'[c].owner # None => run'[check'[c].owner].st # "free"
  BY <1>2, <1>3, <1>4 DEF RowsInv, FreeRunsAreBlank
<1> QED
  BY <1>2, <1>5, <1>6

LEMMA WriteChecksKeepsRows == ASSUME RowsInv, NEW a \in Tasks, WriteChecks(a) PROVE RowsInv'
<1>1. /\ task \in [Tasks -> TaskRows] /\ run \in [Runs -> RunRows]
      /\ task[a].run \in Runs /\ run[task[a].run].st = "queued"
  BY TypesSplit DEF RowsInv, StartsItsOwn, Starting, WriteChecks
<1>2. /\ TakeCheck(task[a].run) /\ Goto(a, [task[a] EXCEPT !.pc = "open"])
      /\ UNCHANGED <<trig, run, crashes, reruns>> /\ Starting(a)
  BY DEF WriteChecks, Starting
<1>3. /\ check' \in [Commits -> CheckRows] /\ ChecksFollowOwner'
      /\ \A c \in Commits : check'[c].owner # None => run'[check'[c].owner].st # "free"
  BY <1>1, <1>2, TakenCheck
<1>4. /\ task' \in [Tasks -> TaskRows]
      /\ task'[a] = [task[a] EXCEPT !.pc = "open"]
      /\ \A b \in Tasks \ {a} : task'[b] = task[b]
  BY <1>1, <1>2 DEF Goto, TaskRows, PCs
<1>5. /\ task'[a].pc = "open" /\ task'[a].run = task[a].run /\ task'[a].trig = task[a].trig
  BY <1>1, <1>4 DEF TaskRows
<1>6. StartsItsOwn' /\ Marking'
  <2>1. \A b \in Tasks : Starting(b)' <=> Starting(b)
    BY <1>2, <1>4, <1>5 DEF Starting
  <2>2. \A b \in Tasks : task'[b].run = task[b].run /\ task'[b].trig = task[b].trig
    BY <1>4, <1>5
  <2>3. StartsItsOwn'
    BY <1>2, <2>1, <2>2 DEF RowsInv, StartsItsOwn
  <2> QED
    BY <1>4, <1>5, <2>3 DEF RowsInv, Marking
<1>7. FreeRunsAreBlank'
  <2>1. \A r \in Runs : run'[r].st = "free" => run'[r].trig = None
    BY <1>2 DEF RowsInv, FreeRunsAreBlank
  <2> QED
    BY <1>3, <2>1 DEF FreeRunsAreBlank
<1>8. TriggersTypeOK'
  BY <1>2, <1>3, <1>4 DEF RowsInv, TriggersTypeOK, TaskRows, CheckRows
<1> QED
  BY <1>3, <1>6, <1>7, <1>8 DEF RowsInv

LEMMA OpenRunKeepsRows == ASSUME RowsInv, NEW a \in Tasks, OpenRun(a) PROVE RowsInv'
<1> DEFINE r == task[a].run
<1>1. /\ task \in [Tasks -> TaskRows] /\ run \in [Runs -> RunRows]
      /\ check \in [Commits -> CheckRows]
      /\ r \in Runs /\ run[r].st = "queued" /\ Starting(a) /\ task[a].trig \in Triggers
      /\ \A b \in Tasks \ {a} : Starting(b) => task[b].run # r
  BY TypesSplit DEF RowsInv, StartsItsOwn, Starting, OpenRun
<1>2. /\ run' = [run EXCEPT ![r].st = "running"]
      /\ Goto(a, [task[a] EXCEPT !.pc = "mark", !.run = None])
      /\ UNCHANGED <<trig, check, crashes, reruns>>
  BY DEF OpenRun
<1> HIDE DEF r
<1>3. /\ run' \in [Runs -> RunRows]
      /\ run'[r].st = "running" /\ run'[r].commit = run[r].commit
      /\ run'[r].trig = run[r].trig
      /\ \A q \in Runs \ {r} : run'[q] = run[q]
  BY <1>1, <1>2 DEF RunRows
<1>4. /\ task' \in [Tasks -> TaskRows] /\ task'[a].pc = "mark"
      /\ task'[a].trig = task[a].trig
      /\ \A b \in Tasks \ {a} : task'[b] = task[b]
  BY <1>1, <1>2 DEF Goto, TaskRows, PCs
<1>5. StartsItsOwn' /\ Marking'
  <2>1. /\ ~Starting(a)'
        /\ \A b \in Tasks \ {a} : Starting(b)' <=> Starting(b)
    BY <1>4 DEF Starting
  <2>2. \A b \in Tasks \ {a} : Starting(b) => run'[task[b].run] = run[task[b].run]
    BY <1>1, <1>3 DEF RowsInv, StartsItsOwn
  <2>3. StartsItsOwn'
    BY <1>4, <2>1, <2>2 DEF RowsInv, StartsItsOwn
  <2> QED
    BY <1>1, <1>4, <2>3 DEF RowsInv, Marking
<1>6. \A c \in Commits : check[c].owner \in Runs \union {None}
  BY <1>1 DEF CheckRows
<1>7. FreeRunsAreBlank' /\ ChecksFollowOwner'
  BY <1>1, <1>2, <1>3, <1>6 DEF RowsInv, FreeRunsAreBlank, ChecksFollowOwner
<1>8. TriggersTypeOK'
  BY <1>2, <1>3, <1>4 DEF RowsInv, TriggersTypeOK, TaskRows, RunRows
<1> QED
  BY <1>5, <1>7, <1>8 DEF RowsInv

LEMMA MarkKeepsRows == ASSUME RowsInv, NEW a \in Tasks, Mark(a) PROVE RowsInv'
<1> DEFINE rest == task[a].batch \ {task[a].trig}
           rec == [task[a] EXCEPT !.pc = IF rest = {} THEN "read" ELSE "next",
                                  !.batch = rest, !.trig = None]
<1>1. /\ trig \in [Triggers -> TrigRows] /\ task[a] \in TaskRows
  BY TypesSplit DEF RowsInv
<1>2. rec \in TaskRows /\ rec.pc \in {"read", "next"}
  BY <1>1 DEF TaskRows, PCs
<1>3. Goto(a, rec) /\ UNCHANGED <<run, check, crashes, reruns>>
  BY DEF Mark
<1>4. trig' \in [Triggers -> TrigRows]
  BY <1>1 DEF Mark, TrigRows
<1>5. /\ task' \in [Tasks -> TaskRows]
      /\ StartsItsOwn' /\ Marking' /\ FreeRunsAreBlank' /\ ChecksFollowOwner'
  BY <1>2, <1>3, TaskMoves
<1>6. TriggersTypeOK'
  BY <1>3, <1>4, <1>5 DEF RowsInv, TriggersTypeOK, TrigRows, TaskRows
<1> QED
  BY <1>5, <1>6 DEF RowsInv

LEMMA RunsKeepRows ==
    ASSUME RowsInv, NEW r \in Runs,
           Rerun(r) \/ \E verdict \in Verdicts : FinishRun(r, verdict)
    PROVE  RowsInv'
<1>1. /\ run \in [Runs -> RunRows] /\ check \in [Commits -> CheckRows]
      /\ reruns \in 0 .. MaxReruns
      /\ \A c \in Commits : check[c].owner \in Runs \union {None}
  BY TypesSplit DEF RowsInv, CheckRows
<1>2. /\ run[r].st \in {"running", "success", "failure"}
      /\ UNCHANGED <<trig, task, crashes>>
  BY DEF Rerun, FinishRun
<1>3. PICK st \in {"running", "success", "failure"} :
        /\ run' = [run EXCEPT ![r].st = st]
        /\ \/ Rerun(r) /\ st = "running"
           \/ FinishRun(r, st) /\ st \in {"success", "failure"}
  BY VerdictAssumption DEF Rerun, FinishRun
<1>4. /\ run' \in [Runs -> RunRows]
      /\ run'[r].st = st /\ run'[r].commit = run[r].commit /\ run'[r].trig = run[r].trig
      /\ \A q \in Runs \ {r} : run'[q] = run[q]
  BY <1>1, <1>3 DEF RunRows
<1>5. StartsItsOwn' /\ Marking'
  BY <1>2, <1>4 DEF RowsInv, StartsItsOwn, Starting, Marking
<1>6. /\ check' \in [Commits -> CheckRows] /\ ChecksFollowOwner'
      /\ \A c \in Commits : check'[c].owner # None => run'[check'[c].owner].st # "free"
  <2>1. CASE Rerun(r) /\ st = "running"
    BY <1>4, <2>1, TakenCheck DEF Rerun
  <2>2. CASE FinishRun(r, st) /\ st \in {"success", "failure"}
    <3>1. CASE check[run[r].commit].owner = r
      <4>0. check' = [check EXCEPT ![run[r].commit].state = st]
        BY <2>2, <3>1 DEF FinishRun
      <4>1. /\ \A c \in Commits :
                 check'[c] = IF c = run[r].commit THEN [check[c] EXCEPT !.state = st] ELSE check[c]
            /\ check' = [c \in Commits |-> check'[c]]
        BY <1>1, <4>0
      <4>2. check' \in [Commits -> CheckRows]
        <5>1. \A c \in Commits : [check[c] EXCEPT !.state = st] \in CheckRows
          BY <1>1, <2>2 DEF CheckRows
        <5>2. \A c \in Commits : check'[c] \in CheckRows
          BY <1>1, <4>1, <5>1
        <5> QED
          BY <4>1, <5>2
      <4>3. \A c \in Commits : /\ check'[c].owner = check[c].owner
                               /\ check[c].owner = r => c = run[r].commit
        <5>1. \A c \in Commits : [check[c] EXCEPT !.state = st].owner = check[c].owner
          BY <1>1 DEF CheckRows
        <5>2. \A c \in Commits : check[c].owner = r => c = run[r].commit
          BY NoneAssumption DEF RowsInv, ChecksFollowOwner
        <5> QED
          BY <4>1, <5>1, <5>2
      <4>4. \A c \in Commits : check'[c].state = IF c = run[r].commit THEN st ELSE check[c].state
        BY <1>1, <4>1 DEF CheckRows
      <4> QED
        BY <1>1, <1>2, <1>4, <2>2, <3>1, <4>2, <4>3, <4>4, NoneAssumption
           DEF RowsInv, ChecksFollowOwner, FreeRunsAreBlank
    <3>2. CASE check[run[r].commit].owner # r
      <4>1. check' = check
        BY <2>2, <3>2 DEF FinishRun
      <4>2. \A c \in Commits : check[c].owner # r
        BY <3>2, NoneAssumption DEF RowsInv, ChecksFollowOwner
      <4> QED
        BY <1>1, <1>4, <4>1, <4>2 DEF RowsInv, ChecksFollowOwner, FreeRunsAreBlank
    <3> QED
      BY <3>1, <3>2
  <2> QED
    BY <1>3, <2>1, <2>2
<1>7. FreeRunsAreBlank'
  BY <1>4, <1>6 DEF RowsInv, FreeRunsAreBlank
<1>8. reruns' \in 0 .. MaxReruns
  <2>1. reruns' = reruns \/ (reruns < MaxReruns /\ reruns' = reruns + 1)
    BY DEF Rerun, FinishRun
  <2> QED
    BY <1>1, <2>1, BoundAssumption
<1>9. TriggersTypeOK'
  BY <1>2, <1>4, <1>6, <1>8 DEF RowsInv, TriggersTypeOK, RunRows, CheckRows
<1> QED
  BY <1>5, <1>6, <1>7, <1>9 DEF RowsInv

LEMMA StepKeepsRows == RowsInv /\ [TriggersNext]_vars => RowsInv'
<1> SUFFICES ASSUME RowsInv, [TriggersNext]_vars PROVE RowsInv'
  OBVIOUS
<1>1. CASE UNCHANGED vars
  BY <1>1 DEF vars, RowsInv, TriggersTypeOK, StartsItsOwn, Starting, Marking,
     FreeRunsAreBlank, ChecksFollowOwner
<1>2. CASE TriggersNext
  BY <1>2, ProducersKeepRows, SkipKeepsRows, StartKeepsRows, WriteChecksKeepsRows,
     OpenRunKeepsRows, MarkKeepsRows, RunsKeepRows DEF TriggersNext, Consume
<1> QED
  BY <1>1, <1>2

\* The rows have their types in every state.
THEOREM TriggersTyped == TriggersSpec => []TriggersTypeOK
<1>1. TriggersInit => RowsInv
  BY TriggersInitial DEF LossInv
<1>2. RowsInv => TriggersTypeOK
  BY DEF RowsInv
<1> QED
  BY <1>1, <1>2, StepKeepsRows, PTL DEF TriggersSpec

\* ChecksFollowOwner: however the flush of the API, the worker, re-runs and the
\* runs of one commit interleave, a commit status is its owner's
\* (materialise_run_jobs, upsert_commit_status).
THEOREM ChecksAreTheOwners == TriggersSpec => []ChecksFollowOwner
<1>1. TriggersInit => RowsInv
  BY TriggersInitial DEF LossInv
<1>2. RowsInv => ChecksFollowOwner
  BY DEF RowsInv
<1> QED
  BY <1>1, <1>2, StepKeepsRows, PTL DEF TriggersSpec

-----------------------------------------------------------------------------
(* No trigger is lost. *)

\* A row that is in use stays so and keeps its commit and event; it is marked
\* by a consumer at that step only.
Marked(t) == \E a \in Tasks : Mark(a) /\ task[a].trig = t
LEMMA RowsAreKept ==
    ASSUME LossInv, [TriggersNext]_vars, NEW t \in Triggers
    PROVE  /\ trig[t].st # "free" => trig'[t].st # "free" /\ (Matches(t)' <=> Matches(t))
           /\ trig'[t].st = "done" => trig[t].st = "done" \/ Marked(t)
<1>1. /\ trig \in [Triggers -> TrigRows] /\ run \in [Runs -> RunRows]
  BY TypesSplit DEF LossInv, RowsInv
<1> DEFINE Kept == /\ trig[t].st # "free" =>
                        /\ trig'[t].st # "free" /\ trig'[t].commit = trig[t].commit
                        /\ trig'[t].event = trig[t].event
                   /\ trig'[t].st = "done" => trig[t].st = "done" \/ Marked(t)
<1>2. CASE \E c \in Commits \union {None}, e \in Events : InsertTrigger(c, e)
  <2>1. PICK c \in Commits \union {None}, e \in Events : InsertTrigger(c, e)
    BY <1>2
  <2>2. Fresh(trig) \in Triggers /\ trig[Fresh(trig)].st = "free"
    BY <1>1, <2>1, FreshIsFree DEF InsertTrigger
  <2> QED
    BY <1>1, <2>1, <2>2 DEF InsertTrigger, Matches
<1>3. CASE UNCHANGED trig
  BY <1>1, <1>3 DEF Matches
<1>4. CASE \E a \in Tasks : Mark(a)
  <2>1. PICK a \in Tasks : Mark(a)
    BY <1>4
  <2>2. trig' = [trig EXCEPT ![task[a].trig].st = "done"]
    BY <2>1 DEF Mark
  <2>3. CASE t = task[a].trig
    <3>1. trig'[t] = [trig[t] EXCEPT !.st = "done"] /\ trig[t] \in TrigRows
      BY <1>1, <2>2, <2>3
    <3>2. /\ trig'[t].st = "done" /\ trig'[t].commit = trig[t].commit
          /\ trig'[t].event = trig[t].event
      BY <3>1 DEF TrigRows
    <3> QED
      BY <2>1, <2>3, <3>2 DEF Matches, Marked
  <2>4. CASE t # task[a].trig
    BY <1>1, <2>2, <2>4 DEF Matches
  <2> QED
    BY <2>3, <2>4
<1>5. ASSUME NEW a \in Tasks, EnqueuePush(a) \/ EnqueuePull(a)
      PROVE  \E c \in Commits \union {None}, e \in Events : InsertTrigger(c, e)
  <2>1. task[a] \in TaskRows
    BY TypesSplit DEF LossInv, RowsInv
  <2> QED
    BY <1>5, <2>1 DEF EnqueuePush, EnqueuePull, TaskRows, Events
<1> QED
  BY <1>2, <1>3, <1>4, <1>5
     DEF TriggersNext, vars, Consume, Receive, NoPull, BeginFlush, ReadBatch, StartRun,
         SkipTrigger, WriteChecks, OpenRun, Crash, Rerun, FinishRun

\* A run that a trigger has stays its run.
LEMMA RunsAreKept ==
    ASSUME LossInv, [TriggersNext]_vars, NEW t \in Triggers,
           trig[t].st # "free", Started(t)
    PROVE  Started(t)'
<1>1. run \in [Runs -> RunRows] /\ t # None
  BY TypesSplit, NoneAssumption DEF LossInv, RowsInv
<1>2. Matches(t)' <=> Matches(t)
  BY RowsAreKept
<1>3. ASSUME NEW r \in Runs, run[r].trig = t
      PROVE  run'[r].trig = t
  <2>1. run[r].st # "free"
    BY <1>1, <1>3 DEF LossInv, RowsInv, FreeRunsAreBlank
  <2>2. CASE UNCHANGED run
    BY <1>3, <2>2
  <2>3. CASE \E a \in Tasks : StartRun(a)
    <3>1. PICK q, row : /\ q \in Runs /\ run[q].st = "free"
                        /\ run' = [run EXCEPT ![q] = row]
      BY <1>1, <2>3, FreshIsFree DEF StartRun
    <3> QED
      BY <1>1, <1>3, <2>1, <3>1
  <2>4. CASE \E q, st : run' = [run EXCEPT ![q].st = st]
    <3>1. PICK q, st : run' = [run EXCEPT ![q].st = st]
      BY <2>4
    <3>2. run'[r] = IF q = r THEN [run[r] EXCEPT !.st = st] ELSE run[r]
      BY <1>1, <3>1
    <3> QED
      BY <1>1, <1>3, <3>2 DEF RunRows
  <2> QED
    BY <2>2, <2>3, <2>4
       DEF TriggersNext, vars, Consume, Receive, EnqueuePush, EnqueuePull, NoPull, BeginFlush,
           ReadBatch, SkipTrigger, WriteChecks, OpenRun, Mark, Crash, Rerun, FinishRun
<1> QED
  BY <1>2, <1>3 DEF Started

InsertedFor(a) ==
    /\ \A t \in task[a].batch : trig[t].st # "free"
    /\ Starting(a) \/ task[a].pc = "mark" => trig[task[a].trig].st # "free"
    /\ task[a].pc = "mark" => Started(task[a].trig)

\* What a task works on stays inserted, whoever moves.
LEMMA StaysInserted ==
    ASSUME LossInv, [TriggersNext]_vars, NEW a \in Tasks,
           task'[a].batch \subseteq task[a].batch,
           \/ task'[a].pc \notin {"checks", "open", "mark"}
           \/ task'[a].pc = task[a].pc /\ task'[a].trig = task[a].trig
    PROVE  InsertedFor(a)'
<1>1. /\ task[a] \in TaskRows
      /\ task[a].batch \subseteq Triggers
      /\ Starting(a) \/ task[a].pc = "mark" => task[a].trig \in Triggers
  BY TypesSplit DEF LossInv, RowsInv, StartsItsOwn, Marking, TaskRows
<1>2. \A t \in task'[a].batch : trig'[t].st # "free"
  BY <1>1, RowsAreKept DEF LossInv, Inserted
<1>3. Starting(a)' \/ task'[a].pc = "mark" => trig'[task'[a].trig].st # "free"
  BY <1>1, RowsAreKept DEF LossInv, Inserted, Starting
<1>4. ASSUME task'[a].pc = "mark" PROVE Started(task[a].trig)'
  <2>1. PICK t \in Triggers : t = task[a].trig
    BY <1>1, <1>4
  <2>2. trig[t].st # "free" /\ Started(t)
    BY <1>4, <2>1 DEF LossInv, Inserted
  <2>3. Started(t)' /\ task'[a].trig = t
    BY <1>4, <2>1, <2>2, RunsAreKept
  <2> QED
    BY <2>3 DEF Started, Matches
<1> QED
  BY <1>2, <1>3, <1>4 DEF InsertedFor, Starting

LEMMA ConsumersInsert ==
    ASSUME Nested = FALSE, LossInv, [TriggersNext]_vars, NEW a \in Tasks,
           StartRun(a) \/ SkipTrigger(a) \/ WriteChecks(a) \/ OpenRun(a)
    PROVE  InsertedFor(a)'
<1>1. /\ task \in [Tasks -> TaskRows] /\ trig \in [Triggers -> TrigRows]
      /\ run \in [Runs -> RunRows]
      /\ task[a].batch \subseteq Triggers
      /\ UNCHANGED trig
      /\ \A t \in task[a].batch : trig[t].st # "free"
  BY TypesSplit
     DEF LossInv, RowsInv, Inserted, TaskRows, StartRun, SkipTrigger, WriteChecks, OpenRun
<1>2. CASE StartRun(a)
  <2>1. PICK t \in task[a].batch :
          Goto(a, [task[a] EXCEPT !.pc = "checks", !.trig = t, !.run = Fresh(run)])
    BY <1>2 DEF StartRun
  <2>2. /\ task'[a].pc = "checks" /\ task'[a].trig = t /\ task'[a].batch = task[a].batch
    BY <1>1, <2>1 DEF Goto, TaskRows
  <2> QED
    BY <1>1, <2>2 DEF InsertedFor
<1>3. CASE SkipTrigger(a)
  <2>1. PICK t \in task[a].batch :
          /\ ~Matches(t)
          /\ Goto(a, [task[a] EXCEPT !.pc = "mark", !.trig = t])
    BY <1>3 DEF SkipTrigger, Finds
  <2>2. /\ task'[a].pc = "mark" /\ task'[a].trig = t /\ task'[a].batch = task[a].batch
    BY <1>1, <2>1 DEF Goto, TaskRows
  <2>3. ~Matches(task[a].trig)'
    BY <1>1, <2>1, <2>2 DEF Matches
  <2> QED
    BY <1>1, <2>2, <2>3 DEF InsertedFor, Started, Starting
<1>4. CASE WriteChecks(a)
  <2>1. Goto(a, [task[a] EXCEPT !.pc = "open"]) /\ Starting(a)
    BY <1>4 DEF WriteChecks, Starting
  <2>2. /\ task'[a].pc = "open" /\ task'[a].trig = task[a].trig /\ task'[a].batch = task[a].batch
    BY <1>1, <2>1 DEF Goto, TaskRows
  <2> QED
    BY <1>1, <2>1, <2>2 DEF InsertedFor, LossInv, Inserted
<1>5. CASE OpenRun(a)
  <2>1. /\ Goto(a, [task[a] EXCEPT !.pc = "mark", !.run = None]) /\ Starting(a)
        /\ run' = [run EXCEPT ![task[a].run].st = "running"]
    BY <1>5 DEF OpenRun, Starting
  <2>2. /\ task'[a].pc = "mark" /\ task'[a].trig = task[a].trig /\ task'[a].batch = task[a].batch
    BY <1>1, <2>1 DEF Goto, TaskRows
  <2>3. task[a].run \in Runs /\ run[task[a].run].trig = task[a].trig
    BY <2>1 DEF LossInv, RowsInv, StartsItsOwn
  <2>4. run'[task[a].run].trig = task'[a].trig
    BY <1>1, <2>1, <2>2, <2>3 DEF RunRows
  <2> QED
    BY <1>1, <2>1, <2>2, <2>3, <2>4 DEF InsertedFor, LossInv, Inserted, Started
<1> QED
  BY <1>2, <1>3, <1>4, <1>5

LEMMA StepKeepsInserted ==
    ASSUME Nested = FALSE, LossInv, [TriggersNext]_vars
    PROVE  Inserted'
<1>1. task \in [Tasks -> TaskRows]
  BY TypesSplit DEF LossInv, RowsInv
<1> SUFFICES ASSUME NEW b \in Tasks PROVE InsertedFor(b)'
  BY DEF Inserted, InsertedFor, Starting, Started, Matches
<1>2. CASE UNCHANGED task[b]
  BY <1>2, StaysInserted
<1>3. ASSUME NEW a \in Tasks, a # b,
             \/ Receive(a) \/ EnqueuePush(a) \/ EnqueuePull(a) \/ NoPull(a) \/ BeginFlush(a)
             \/ Crash(a) \/ Consume(a)
      PROVE  UNCHANGED task[b]
  <2>1. \A rec : Goto(a, rec) => task'[b] = task[b]
    BY <1>1, <1>3 DEF Goto
  <2>2. \E rec : Goto(a, rec)
    <3>1. CASE Receive(a)
      BY <3>1 DEF Receive
    <3>2. CASE EnqueuePush(a) \/ EnqueuePull(a) \/ NoPull(a) \/ BeginFlush(a) \/ Crash(a)
      BY <3>2 DEF EnqueuePush, EnqueuePull, NoPull, BeginFlush, Crash
    <3>3. CASE ReadBatch(a) \/ StartRun(a) \/ SkipTrigger(a)
      BY <3>3 DEF ReadBatch, StartRun, SkipTrigger
    <3>4. CASE WriteChecks(a) \/ OpenRun(a) \/ Mark(a)
      BY <3>4 DEF WriteChecks, OpenRun, Mark
    <3> QED
      BY <1>3, <3>1, <3>2, <3>3, <3>4 DEF Consume
  <2> QED
    BY <2>1, <2>2
<1>4. ASSUME Receive(b) \/ EnqueuePush(b) \/ EnqueuePull(b) \/ NoPull(b) \/ BeginFlush(b)
             \/ Crash(b) \/ Mark(b)
      PROVE  /\ task'[b].pc \notin {"checks", "open", "mark"}
             /\ task'[b].batch \subseteq task[b].batch
  <2>1. task[b] \in TaskRows
    BY <1>1
  <2>2. CASE Receive(b) \/ BeginFlush(b) \/ Crash(b)
    BY <1>1, <2>2, Blank DEF Receive, BeginFlush, Crash, Goto, IdleTask
  <2>3. CASE EnqueuePush(b)
    <3>1. PICK c \in task[b].ups :
            Goto(b, [task[b] EXCEPT !.pc = "pulls", !.commit = c, !.ups = @ \ {c}])
      BY <2>3 DEF EnqueuePush
    <3> DEFINE rec == [task[b] EXCEPT !.pc = "pulls", !.commit = c, !.ups = @ \ {c}]
    <3>2. rec.pc = "pulls" /\ rec.batch = task[b].batch
      BY <2>1 DEF TaskRows
    <3>3. task'[b] = rec
      BY <1>1, <3>1 DEF Goto
    <3> QED
      BY <3>2, <3>3
  <2>4. CASE EnqueuePull(b) \/ NoPull(b)
    <3> DEFINE rec == [task[b] EXCEPT !.pc = "enqueue", !.commit = None]
    <3>1. Goto(b, rec)
      BY <2>4 DEF EnqueuePull, NoPull
    <3>2. rec.pc = "enqueue" /\ rec.batch = task[b].batch
      BY <2>1 DEF TaskRows
    <3>3. task'[b] = rec
      BY <1>1, <3>1 DEF Goto
    <3> QED
      BY <3>2, <3>3
  <2>5. CASE Mark(b)
    <3> DEFINE rest == task[b].batch \ {task[b].trig}
               rec == [task[b] EXCEPT !.pc = IF rest = {} THEN "read" ELSE "next",
                                      !.batch = rest, !.trig = None]
    <3>1. Goto(b, rec)
      BY <2>5 DEF Mark
    <3>2. rec.pc \in {"read", "next"} /\ rec.batch = rest
      BY <2>1 DEF TaskRows
    <3>3. task'[b] = rec
      BY <1>1, <3>1 DEF Goto
    <3> QED
      BY <3>2, <3>3
  <2> QED
    BY <1>4, <2>2, <2>3, <2>4, <2>5
<1>5. ASSUME ReadBatch(b) PROVE InsertedFor(b)'
  <2>1. UNCHANGED trig /\ task[b] \in TaskRows
    BY <1>1, <1>5 DEF ReadBatch
  <2>2. CASE Goto(b, [task[b] EXCEPT !.pc = "next", !.batch = Unprocessed])
    BY <1>1, <2>1, <2>2 DEF Goto, TaskRows, Unprocessed, InsertedFor, Starting
  <2>3. CASE Goto(b, IdleTask)
    BY <1>1, <2>3, Blank DEF Goto, InsertedFor, Starting
  <2> QED
    BY <1>5, <2>2, <2>3 DEF ReadBatch
<1>6. ASSUME TriggersNext, task'[b] # task[b]
      PROVE  \/ Receive(b) \/ EnqueuePush(b) \/ EnqueuePull(b) \/ NoPull(b) \/ BeginFlush(b)
             \/ Crash(b) \/ Consume(b)
  <2>1. \A r \in Runs : Rerun(r) \/ (\E verdict \in Verdicts : FinishRun(r, verdict)) => UNCHANGED task
    BY DEF Rerun, FinishRun
  <2> QED
    BY <1>3, <1>6, <2>1 DEF TriggersNext
<1> QED
  BY <1>2, <1>4, <1>5, <1>6, StaysInserted, ConsumersInsert DEF Consume, vars

LEMMA StepKeepsLossInv ==
    ASSUME Nested = FALSE
    PROVE  LossInv /\ [TriggersNext]_vars => LossInv'
<1> SUFFICES ASSUME LossInv, [TriggersNext]_vars PROVE LossInv'
  OBVIOUS
<1>1. RowsInv' /\ Inserted'
  BY StepKeepsRows, StepKeepsInserted DEF LossInv
<1>2. ASSUME NEW t \in Triggers, trig'[t].st = "done" PROVE Started(t)'
  <2>1. CASE trig[t].st = "done"
    BY <2>1, RunsAreKept DEF LossInv, NoTriggerLost, Started
  <2>2. CASE Marked(t)
    <3>1. PICK a \in Tasks : task[a].pc = "mark" /\ task[a].trig = t
      BY <2>2 DEF Marked, Mark
    <3>2. trig[t].st # "free" /\ Started(t)
      BY <3>1 DEF LossInv, Inserted
    <3> QED
      BY <3>2, RunsAreKept
  <2> QED
    BY <1>2, <2>1, <2>2, RowsAreKept
<1> QED
  BY <1>1, <1>2 DEF LossInv, NoTriggerLost, Started

\* NoTriggerLost for a repository both consumers find (not in a nested group):
\* a trigger that is marked and whose configuration asks for a run has one,
\* whoever handled it and whatever died (process_trigger_now).
THEOREM TriggersAreNotLost ==
    ASSUME Nested = FALSE
    PROVE  TriggersSpec => []NoTriggerLost
<1>1. LossInv => NoTriggerLost
  BY DEF LossInv
<1>2. LossInv /\ [TriggersNext]_vars => LossInv'
  BY StepKeepsLossInv
<1> QED
  BY <1>1, <1>2, TriggersInitial, PTL DEF TriggersSpec
=============================================================================
