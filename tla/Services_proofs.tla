--------------------------- MODULE Services_proofs ---------------------------
(***************************************************************************)
(* Proofs about the services beside the pipeline: the job manager of the   *)
(* Kubernetes executor, accounts, search indexing, a runner's artifacts,   *)
(* the permissions of groups and teams, imports, and backups, each for     *)
(* every value of its constants.                                           *)
(***************************************************************************)
EXTENDS KubeExecutor, Accounts, SearchIndex, RunnerJob, Membership, ImportJobs, Backup,
        FiniteSetTheorems, SequenceTheorems, WellFoundedInduction, TLAPS

(* A set of naturals has a least element: the induction that is used.      *)
LEMMA Least ==
  ASSUME NEW T \in SUBSET Nat, T # {}
  PROVE  \E m \in T : \A n \in T : m <= n
<1>1. PICK m \in T : \A n \in T : <<n, m>> \notin OpToRel(<, Nat)
  BY NatLessThanWellFounded, WFMin
<1>2. \A n \in T : ~(n < m)
  BY <1>1 DEF OpToRel
<1> QED BY <1>2

-----------------------------------------------------------------------------
(***************************************************************************)
(* KubeExecutor: types, and that the Kubernetes Job of a running attempt is*)
(* deleted and reported on by its own manager only.                        *)
(***************************************************************************)
CiRows == [status : Over \cup {"queued", "running"}, runner : RunnerTokens \cup {NoJob},
           by : Managers \cup {NoJob}, asked : {"no", "step", "job"}, attempt : 0..MaxAttempts]
TaskRows == [pc : {"idle", "dead", "clear", "create", "watch", "follow", "remove", "report"},
             job : CiJobs \cup {NoJob}, attempt : 0..MaxAttempts,
             verdict : {"none"} \cup Over]
StrayRows == [pc : {"off", "polls", "deletes"}, job : CiJobs \cup {NoJob}, attempt : 0..MaxAttempts]

Tables ==
  /\ token \in [Managers -> RunnerTokens] /\ ciRow \in [CiJobs -> CiRows]
  /\ mgr \in [Managers -> TaskRows] /\ stray \in [Managers -> StrayRows]
  /\ watcher \in [Managers -> {"off", "polls", "deletes", "told"}]
  /\ sweep \in [Managers -> CiJobs \cup {NoJob}] /\ mixed \in BOOLEAN
  /\ blamed \subseteq {"overlap", "foreign"}

\* A task under way has a job, and its watcher is there while it watches it.
Fits(m) ==
  /\ mgr[m].pc \notin {"idle", "dead"} => mgr[m].job \in CiJobs
  /\ watcher[m] # "off" <=> mgr[m].pc \in {"watch", "follow"}
  /\ stray[m].pc = "off" <=> stray[m] = NoStray
  /\ stray[m].pc # "off" => stray[m].job \in CiJobs
  /\ mgr[m].pc \in {"remove", "report"} => mgr[m].verdict \in Over

\* A job that runs has the token of the manager that claimed it.
Owned == \A j \in CiJobs : ciRow[j].status = "running" =>
           ciRow[j].by \in Managers /\ ciRow[j].runner = token[ciRow[j].by]

\* Unless a claim found an earlier attempt under way, every task works for the
\* last attempt of its job, and a Job about to be swept is not one that runs
\* for this runner.
CurrentAttempt(t) == t.job # NoJob => t.attempt = ciRow[t.job].attempt
Swept(m) == sweep[m] # NoJob =>
              LET j == sweep[m] IN
              Unknown(m, j) \/ ciRow[j].status # "running" \/ ciRow[j].asked = "job"
Apart == \A m \in Managers : CurrentAttempt(mgr[m]) /\ CurrentAttempt(stray[m]) /\ Swept(m)

KubeInv == /\ Tables /\ (\A m \in Managers : Fits(m)) /\ Owned
           /\ (~mixed => Apart) /\ JobOfItsAttempt

-----------------------------------------------------------------------------
LEMMA NoTaskRows ==
  /\ NoTask \in TaskRows /\ NoTask.pc = "idle" /\ NoTask.job = NoJob
  /\ [NoTask EXCEPT !.pc = "dead"] \in TaskRows
  /\ [NoTask EXCEPT !.pc = "dead"].pc = "dead" /\ [NoTask EXCEPT !.pc = "dead"].job = NoJob
  /\ NoStray \in StrayRows /\ NoStray.pc = "off" /\ NoStray.job = NoJob
BY KubeAssumption DEF NoTask, NoStray, TaskRows, StrayRows

LEMMA KubeInitially == KubeInit => KubeInv
<1> SUFFICES ASSUME KubeInit PROVE KubeInv
  OBVIOUS
<1>1. ASSUME NEW m \in Managers
      PROVE mgr[m] = NoTask /\ stray[m] = NoStray /\ watcher[m] = "off" /\ sweep[m] = NoJob
  BY DEF KubeInit
<1>2. ASSUME NEW j \in CiJobs PROVE ciRow[j].status = "queued"
  BY DEF KubeInit
<1>3. ciRow \in [CiJobs -> CiRows]
  BY KubeAssumption DEF KubeInit, CiRows
<1>4. Tables
  BY <1>3, NoTaskRows DEF KubeInit, Tables
<1>5. \A m \in Managers : Fits(m)
  BY <1>1, NoTaskRows DEF Fits
<1>6. Apart
  BY <1>1, NoTaskRows DEF Apart, CurrentAttempt, Swept
<1>7. JobOfItsAttempt
  BY DEF KubeInit, JobOfItsAttempt
<1> QED
  BY <1>2, <1>4, <1>5, <1>6, <1>7 DEF KubeInv, Owned

LEMMA InvTypes == KubeInv => KubeTypeOK
<1> SUFFICES ASSUME KubeInv PROVE KubeTypeOK
  OBVIOUS
<1>1. ASSUME NEW j \in CiJobs
      PROVE  ciRow[j].status \in Over \cup {"queued", "running"} /\ ciRow[j].attempt <= MaxAttempts
  BY DEF KubeInv, Tables, CiRows
<1>2. ASSUME NEW m \in Managers
      PROVE  /\ mgr[m].job \in CiJobs \cup {NoJob} /\ sweep[m] \in CiJobs \cup {NoJob}
             /\ (stray[m].pc = "off") <=> (stray[m] = NoStray)
             /\ watcher[m] # "off" => In(m, "watch") \/ In(m, "follow")
  <2>1. mgr[m] \in TaskRows /\ sweep[m] \in CiJobs \cup {NoJob} /\ Fits(m)
    BY DEF KubeInv, Tables
  <2> QED
    BY <2>1 DEF TaskRows, Fits, In
<1> QED
  BY <1>1, <1>2 DEF KubeInv, Tables, KubeTypeOK

LEMMA TwoTokens ==
  ASSUME Tables, NEW m \in Managers, NEW n \in Managers, token[m] # token[n]
  PROVE  Cardinality({token[x] : x \in Managers}) > 1
<1> DEFINE S == {token[x] : x \in Managers}
<1>1. IsFiniteSet(S)
  BY KubeAssumption, FS_Subset DEF Tables
<1>2. Cardinality(S) \in Nat
  BY <1>1, FS_CardinalityType
<1>3. Cardinality(S) # 0
  BY <1>1, FS_EmptySet
<1>4. Cardinality(S) # 1
  <2> SUFFICES ASSUME Cardinality(S) = 1 PROVE FALSE
    OBVIOUS
  <2>1. PICK x : S = {x}
    BY <1>1, FS_Singleton
  <2> QED
    BY <2>1
<1> QED
  BY <1>2, <1>3, <1>4

\* Whoever is blamed for an overlap worked for an earlier attempt.
\* The blame a task may take for what it deletes.
Blames(t) == blamed' = blamed \/ (ByOther(t) /\ blamed' = blamed \cup {"overlap"})

LEMMA BlameIsMixed ==
  ASSUME KubeInv, NEW t, t.job # NoJob, ~mixed => CurrentAttempt(t), ByOther(t)
  PROVE  mixed
BY DEF ByOther, Needed, CurrentAttempt

-----------------------------------------------------------------------------
(* Steps that leave the rows of the API alone *)

LEMMA TaskStep ==
  ASSUME KubeInv, UNCHANGED <<token, ciRow, mixed>>, Tables', \A m \in Managers : Fits(m)',
         \A m \in Managers :
           /\ mgr'[m].job # NoJob => mgr'[m].job = mgr[m].job /\ mgr'[m].attempt = mgr[m].attempt
           /\ stray'[m].job # NoJob =>
                \/ stray'[m].job = mgr[m].job /\ stray'[m].attempt = mgr[m].attempt
                \/ stray'[m].job = stray[m].job /\ stray'[m].attempt = stray[m].attempt
           /\ sweep'[m] # NoJob => sweep'[m] = sweep[m] \/ IsTerminal(m, sweep'[m]),
         JobOfItsAttempt'
  PROVE  KubeInv'
<1>1. Owned'
  BY DEF KubeInv, Owned
<1>2. ASSUME ~mixed', NEW m \in Managers
      PROVE  (CurrentAttempt(mgr[m]) /\ CurrentAttempt(stray[m]) /\ Swept(m))'
  <2>1. CurrentAttempt(mgr[m]) /\ CurrentAttempt(stray[m]) /\ Swept(m)
    BY <1>2 DEF KubeInv, Apart
  <2>2. CurrentAttempt(mgr[m])' /\ CurrentAttempt(stray[m])'
    BY <2>1 DEF CurrentAttempt
  <2>3. Swept(m)'
    BY <2>1 DEF Swept, IsTerminal, Unknown, Over
  <2> QED
    BY <2>2, <2>3
<1> QED
  BY <1>1, <1>2 DEF KubeInv, Apart

\* One manager's task and its watcher.
LEMMA ManagerStep ==
  ASSUME KubeInv, NEW m \in Managers, NEW r \in TaskRows,
         NEW w \in {"off", "polls", "deletes", "told"},
         mgr' = [mgr EXCEPT ![m] = r], watcher' = [watcher EXCEPT ![m] = w],
         r.job # NoJob => r.job = mgr[m].job /\ r.attempt = mgr[m].attempt,
         r.pc \notin {"idle", "dead"} => r.job \in CiJobs,
         r.pc \in {"remove", "report"} => r.verdict \in Over,
         w # "off" <=> r.pc \in {"watch", "follow"},
         blamed' = blamed \/ (mgr[m].job # NoJob /\ Blames(mgr[m])),
         UNCHANGED <<token, ciRow, stray, sweep, mixed>>
  PROVE  KubeInv'
<1>1. /\ mgr \in [Managers -> TaskRows]
      /\ watcher \in [Managers -> {"off", "polls", "deletes", "told"}]
      /\ \A n \in Managers : Fits(n)
  BY DEF KubeInv, Tables
<1>2. /\ mgr' \in [Managers -> TaskRows] /\ mgr'[m] = r
      /\ watcher' \in [Managers -> {"off", "polls", "deletes", "told"}] /\ watcher'[m] = w
      /\ \A n \in Managers \ {m} : mgr'[n] = mgr[n] /\ watcher'[n] = watcher[n]
  BY <1>1
<1>3. Tables'
  BY <1>2 DEF KubeInv, Tables, Blames
<1>4. ASSUME NEW n \in Managers PROVE Fits(n)'
  <2>1. CASE n = m
    BY <1>1, <1>2, <2>1 DEF Fits
  <2>2. CASE n # m
    BY <1>1, <1>2, <2>2 DEF Fits
  <2> QED
    BY <2>1, <2>2
<1>5. JobOfItsAttempt'
  <2>1. "overlap" \in blamed' => mixed
    <3>1. ~mixed => CurrentAttempt(mgr[m])
      BY DEF KubeInv, Apart
    <3>2. mgr[m].job # NoJob /\ ByOther(mgr[m]) => mixed
      BY <3>1, BlameIsMixed
    <3> QED
      BY <3>2 DEF KubeInv, JobOfItsAttempt, Blames
  <2>2. "foreign" \in blamed' => "foreign" \in blamed
    BY DEF Blames
  <2> QED
    BY <2>1, <2>2 DEF KubeInv, JobOfItsAttempt
<1>6. ASSUME NEW n \in Managers
      PROVE /\ mgr'[n].job # NoJob => mgr'[n].job = mgr[n].job /\ mgr'[n].attempt = mgr[n].attempt
            /\ stray'[n] = stray[n] /\ sweep'[n] = sweep[n]
  BY <1>2
<1> QED
  BY <1>3, <1>4, <1>5, <1>6, TaskStep

\* The tasks of a manager: run_job and the watcher of watch_job.
LEMMA ManagersKeepInv ==
  ASSUME KubeInv, NEW m \in Managers,
         \/ Clear(m) \/ CreateJob(m) \/ Abandon(m) \/ WatcherSees(m) \/ WatcherDeletes(m)
         \/ BuildReady(m) \/ NoBuild(m) \/ FollowEnds(m) \/ RemoveJob(m)
  PROVE  KubeInv'
<1> DEFINE StepOf(pc) == [mgr[m] EXCEPT !.pc = pc]
           Judged(v) == [mgr[m] EXCEPT !.pc = "remove", !.verdict = v]
           Same == UNCHANGED <<token, ciRow, stray, sweep, mixed>>
           Pcs == {"idle", "dead", "clear", "create", "watch", "follow", "remove", "report"}
           Told == {"off", "polls", "deletes", "told"}
<1>1. /\ mgr \in [Managers -> TaskRows] /\ mgr[m] \in TaskRows /\ Fits(m)
      /\ watcher \in [Managers -> Told] /\ watcher[m] \in Told
      /\ watcher' = watcher => watcher' = [watcher EXCEPT ![m] = watcher[m]]
      /\ mgr' = mgr => mgr' = [mgr EXCEPT ![m] = mgr[m]]
      /\ Same
  BY DEF KubeInv, Tables, Clear, CreateJob, Abandon, WatcherSees, WatcherDeletes, BuildReady,
         NoBuild, FollowEnds, RemoveJob, Verdict
<1>2. ASSUME NEW pc \in Pcs
      PROVE  /\ StepOf(pc) \in TaskRows /\ StepOf(pc).pc = pc /\ StepOf(pc).job = mgr[m].job
             /\ StepOf(pc).attempt = mgr[m].attempt /\ StepOf(pc).verdict = mgr[m].verdict
  BY <1>1 DEF TaskRows
<1>3. ASSUME NEW v \in Over
      PROVE  /\ Judged(v) \in TaskRows /\ Judged(v).pc = "remove" /\ Judged(v).job = mgr[m].job
             /\ Judged(v).attempt = mgr[m].attempt /\ Judged(v).verdict = v
  BY <1>1 DEF TaskRows
<1>4. ASSUME NEW v \in Over, mgr[m].pc \in {"watch", "follow"}, Verdict(m, v)
      PROVE  KubeInv'
  <2>1. /\ mgr' = [mgr EXCEPT ![m] = Judged(v)] /\ watcher' = [watcher EXCEPT ![m] = "off"]
        /\ blamed' = blamed
    BY <1>4 DEF Verdict
  <2>2. mgr[m].job \in CiJobs
    BY <1>1, <1>4 DEF Fits
  <2> HIDE DEF Judged
  <2> QED
    BY <1>1, <1>3, <2>1, <2>2, ManagerStep
<1>5. CASE Clear(m) \/ RemoveJob(m)
  <2>1. PICK pc \in {"create", "report"} :
          /\ mgr' = [mgr EXCEPT ![m] = StepOf(pc)] /\ watcher' = watcher
          /\ mgr[m].pc \in {"clear", "remove"} /\ (pc = "report" => mgr[m].pc = "remove")
          /\ Blames(mgr[m])
    BY <1>5 DEF Clear, RemoveJob, In, TaskTo, Blame, Blames
  <2>2. /\ mgr[m].job \in CiJobs /\ mgr[m].job # NoJob /\ watcher[m] = "off"
        /\ pc = "report" => mgr[m].verdict \in Over
    BY <1>1, <2>1, KubeAssumption DEF Fits
  <2> HIDE DEF StepOf
  <2> QED
    BY <1>1, <1>2, <2>1, <2>2, ManagerStep
<1>6. CASE CreateJob(m) \/ Abandon(m)
  <2>1. mgr[m].pc \in {"clear", "create"} /\ blamed' = blamed
    BY <1>6 DEF CreateJob, Abandon, In
  <2>2. mgr[m].job \in CiJobs /\ watcher[m] = "off"
    BY <1>1, <2>1 DEF Fits
  <2>3. \/ mgr' = [mgr EXCEPT ![m] = StepOf("watch")] /\ watcher' = [watcher EXCEPT ![m] = "polls"]
        \/ mgr' = [mgr EXCEPT ![m] = NoTask] /\ watcher' = watcher
    BY <1>6 DEF CreateJob, Abandon, TaskTo
  <2> HIDE DEF StepOf
  <2>4. CASE mgr' = [mgr EXCEPT ![m] = StepOf("watch")] /\ watcher' = [watcher EXCEPT ![m] = "polls"]
    BY <1>1, <1>2, <2>1, <2>2, <2>4, ManagerStep
  <2>5. CASE mgr' = [mgr EXCEPT ![m] = NoTask] /\ watcher' = watcher
    BY <1>1, <2>1, <2>2, <2>5, NoTaskRows, ManagerStep
  <2> QED
    BY <2>3, <2>4, <2>5
<1>7. CASE WatcherSees(m) \/ WatcherDeletes(m)
  <2>1. PICK w \in {"deletes", "told"} :
          /\ mgr' = mgr /\ watcher' = [watcher EXCEPT ![m] = w] /\ watcher[m] # "off"
          /\ Blames(mgr[m])
    BY <1>7 DEF WatcherSees, WatcherDeletes, Blame, Blames
  <2>2. mgr[m].job \in CiJobs /\ mgr[m].job # NoJob /\ mgr[m].pc \in {"watch", "follow"}
    BY <1>1, <2>1, KubeAssumption DEF Fits
  <2> QED
    BY <1>1, <2>1, <2>2, ManagerStep
<1>8. CASE BuildReady(m)
  <2>1. mgr[m].pc = "watch" /\ mgr' = [mgr EXCEPT ![m] = StepOf("follow")] /\ watcher' = watcher
        /\ blamed' = blamed
    BY <1>8 DEF BuildReady, In, TaskTo
  <2>2. mgr[m].job \in CiJobs /\ watcher[m] # "off"
    BY <1>1, <2>1 DEF Fits
  <2> HIDE DEF StepOf
  <2> QED
    BY <1>1, <1>2, <2>1, <2>2, ManagerStep
<1>9. CASE NoBuild(m)
  BY <1>4, <1>9 DEF NoBuild, In, Over
<1>10. CASE FollowEnds(m)
  <2>1. mgr[m].pc = "follow"
    BY <1>10 DEF FollowEnds, In
  <2>2. PICK v \in Over : Verdict(m, v)
    BY <1>10 DEF FollowEnds, Over
  <2> QED
    BY <1>4, <2>1, <2>2
<1> QED
  BY <1>5, <1>6, <1>7, <1>8, <1>9, <1>10

\* The watcher that outlives watch_job works for the attempt it was started for.
LEMMA StraysKeepInv ==
  ASSUME KubeInv, NEW m \in Managers, Detach(m) \/ StraySees(m) \/ StrayDeletes(m)
  PROVE  KubeInv'
<1>1. /\ mgr \in [Managers -> TaskRows] /\ mgr[m] \in TaskRows /\ stray[m] \in StrayRows
      /\ stray \in [Managers -> StrayRows]
      /\ watcher \in [Managers -> {"off", "polls", "deletes", "told"}]
      /\ UNCHANGED <<token, ciRow, sweep, mixed>> /\ \A n \in Managers : Fits(n)
  BY DEF KubeInv, Tables, Detach, StraySees, StrayDeletes
<1>2. CASE Detach(m)
  <2> DEFINE s == [pc |-> watcher[m], job |-> mgr[m].job, attempt |-> mgr[m].attempt]
             r == [mgr[m] EXCEPT !.pc = "remove", !.verdict = "failure"]
  <2>1. /\ stray' = [stray EXCEPT ![m] = s] /\ mgr' = [mgr EXCEPT ![m] = r]
        /\ watcher' = [watcher EXCEPT ![m] = "off"] /\ blamed' = blamed
        /\ mgr[m].pc = "follow" /\ watcher[m] # "told"
    BY <1>2 DEF Detach, In
  <2>2. watcher[m] \in {"polls", "deletes"} /\ mgr[m].job \in CiJobs
    BY <1>1, <2>1 DEF Fits
  <2>3. /\ s \in StrayRows /\ s.pc # "off" /\ s.job = mgr[m].job /\ s.attempt = mgr[m].attempt
        /\ s # NoStray
    BY <1>1, <2>2 DEF StrayRows, TaskRows, NoStray
  <2>4. /\ r \in TaskRows /\ r.pc = "remove" /\ r.job = mgr[m].job /\ r.attempt = mgr[m].attempt
        /\ r.verdict \in Over
    BY <1>1 DEF TaskRows, Over
  <2> HIDE DEF s, r
  <2>5. /\ stray' \in [Managers -> StrayRows] /\ stray'[m] = s
        /\ mgr' \in [Managers -> TaskRows] /\ mgr'[m] = r
        /\ watcher' \in [Managers -> {"off", "polls", "deletes", "told"}] /\ watcher'[m] = "off"
        /\ \A n \in Managers \ {m} : mgr'[n] = mgr[n] /\ stray'[n] = stray[n] /\ watcher'[n] = watcher[n]
    BY <1>1, <2>1, <2>3, <2>4
  <2>6. Tables'
    BY <1>1, <2>1, <2>5 DEF KubeInv, Tables
  <2>7. ASSUME NEW n \in Managers PROVE Fits(n)'
    <3>1. CASE n = m
      BY <2>2, <2>3, <2>4, <2>5, <3>1 DEF Fits
    <3>2. CASE n # m
      BY <1>1, <2>5, <3>2 DEF Fits
    <3> QED
      BY <3>1, <3>2
  <2>8. JobOfItsAttempt'
    BY <1>1, <2>1 DEF KubeInv, JobOfItsAttempt
  <2>9. ASSUME NEW n \in Managers
        PROVE /\ mgr'[n].job = mgr[n].job /\ mgr'[n].attempt = mgr[n].attempt
              /\ \/ stray'[n].job = mgr[n].job /\ stray'[n].attempt = mgr[n].attempt
                 \/ stray'[n].job = stray[n].job /\ stray'[n].attempt = stray[n].attempt
              /\ sweep'[n] = sweep[n]
    BY <1>1, <2>3, <2>4, <2>5
  <2> QED
    BY <1>1, <2>6, <2>7, <2>8, <2>9, TaskStep
<1>3. CASE StraySees(m) \/ StrayDeletes(m)
  <2>1. PICK s \in StrayRows :
          /\ stray' = [stray EXCEPT ![m] = s]
          /\ \/ s = NoStray
             \/ s.pc = "deletes" /\ s.job = stray[m].job /\ s.attempt = stray[m].attempt
          /\ stray[m].pc # "off" /\ UNCHANGED <<mgr, watcher>>
          /\ Blames(stray[m])
    <3>1. CASE StraySees(m)
      <4> DEFINE s == [stray[m] EXCEPT !.pc = "deletes"]
      <4>1. s \in StrayRows /\ s.pc = "deletes" /\ s.job = stray[m].job /\ s.attempt = stray[m].attempt
        BY <1>1 DEF StrayRows
      <4>2. /\ stray' = [stray EXCEPT ![m] = s] /\ stray[m].pc # "off"
            /\ UNCHANGED <<mgr, watcher, blamed>>
        BY <3>1 DEF StraySees
      <4> HIDE DEF s
      <4> QED
        BY <4>1, <4>2 DEF Blames
    <3>2. CASE StrayDeletes(m)
      BY <3>2, NoTaskRows DEF StrayDeletes, Blame, Blames
    <3> QED
      BY <1>3, <3>1, <3>2
  <2>2. stray[m].job \in CiJobs /\ stray[m].job # NoJob
    BY <1>1, <2>1, KubeAssumption DEF Fits
  <2>3. /\ stray' \in [Managers -> StrayRows] /\ stray'[m] = s
        /\ \A n \in Managers \ {m} : stray'[n] = stray[n]
    BY <1>1, <2>1
  <2>4. Tables'
    BY <1>1, <2>1, <2>3 DEF KubeInv, Tables, Blames
  <2>5. ASSUME NEW n \in Managers PROVE Fits(n)'
    <3>1. CASE n = m
      <4>1. stray[m] # NoStray
        BY <2>1, NoTaskRows
      <4>2. s.pc = "deletes" => s # NoStray
        BY NoTaskRows
      <4> QED
        BY <1>1, <2>1, <2>2, <2>3, <3>1, <4>2, NoTaskRows DEF Fits
    <3>2. CASE n # m
      BY <1>1, <2>1, <2>3, <3>2 DEF Fits
    <3> QED
      BY <3>1, <3>2
  <2>6. JobOfItsAttempt'
    <3>1. ~mixed => CurrentAttempt(stray[m])
      BY DEF KubeInv, Apart
    <3>2. ByOther(stray[m]) => mixed
      BY <2>2, <3>1, BlameIsMixed
    <3> QED
      BY <1>1, <2>1, <3>2 DEF KubeInv, JobOfItsAttempt, Blames
  <2>7. ASSUME NEW n \in Managers
        PROVE /\ mgr'[n] = mgr[n] /\ sweep'[n] = sweep[n]
              /\ stray'[n].job # NoJob =>
                   stray'[n].job = stray[n].job /\ stray'[n].attempt = stray[n].attempt
    BY <1>1, <2>1, <2>3, NoTaskRows
  <2> QED
    BY <1>1, <2>4, <2>5, <2>6, <2>7, TaskStep
<1> QED
  BY <1>2, <1>3

\* The sweep asked about the Job before: what it deletes of its own token's was
\* over then, and what is of another's was so for more than one token only.
LEMMA SweepsKeepInv ==
  ASSUME KubeInv, NEW m \in Managers, SweepDeletes(m) \/ \E j \in CiJobs : SweepSees(m, j)
  PROVE  KubeInv'
<1>1. /\ UNCHANGED <<token, stray, ciRow, mgr, watcher, mixed>> /\ Tables
      /\ \A n \in Managers : Fits(n)
  BY DEF KubeInv, SweepDeletes, SweepSees
<1>2. PICK j \in CiJobs \cup {NoJob} :
        /\ sweep' = [sweep EXCEPT ![m] = j] /\ (j # NoJob => IsTerminal(m, j))
    BY DEF SweepDeletes, SweepSees
<1>3. /\ sweep' \in [Managers -> CiJobs \cup {NoJob}] /\ sweep'[m] = j
      /\ \A n \in Managers \ {m} : sweep'[n] = sweep[n]
  BY <1>1, <1>2 DEF Tables
<1>4. JobOfItsAttempt' /\ blamed' \subseteq {"overlap", "foreign"}
  <2>1. CASE \E i \in CiJobs : SweepSees(m, i)
    BY <1>1, <2>1 DEF KubeInv, JobOfItsAttempt, SweepSees, Tables
  <2>2. CASE SweepDeletes(m)
    <3> DEFINE i == sweep[m]
    <3>1. i \in CiJobs /\ i # NoJob
      BY <1>1, <2>2 DEF SweepDeletes, Tables
    <3>2. ASSUME Needed(i), ~Unknown(m, i) PROVE mixed
      BY <3>1, <3>2 DEF KubeInv, Apart, Swept, Needed
    <3>3. ASSUME Needed(i), Unknown(m, i)
          PROVE Cardinality({token[n] : n \in Managers}) > 1
      <4>1. ciRow[i].by \in Managers /\ ciRow[i].runner = token[ciRow[i].by]
        BY <3>1, <3>3 DEF KubeInv, Owned, Needed
      <4>2. token[ciRow[i].by] # token[m]
        BY <3>3, <4>1 DEF Unknown
      <4> QED
        BY <1>1, <4>1, <4>2, TwoTokens
    <3>4. \/ blamed' = blamed
          \/ Needed(i) /\ Unknown(m, i) /\ blamed' = blamed \cup {"foreign"}
          \/ Needed(i) /\ ~Unknown(m, i) /\ blamed' = blamed \cup {"overlap"}
      BY <2>2 DEF SweepDeletes, Blame
    <3>5. blamed' \subseteq {"overlap", "foreign"}
      BY <1>1, <3>4 DEF Tables
    <3>6. {token'[n] : n \in Managers} = {token[n] : n \in Managers}
      BY <1>1
    <3> QED
      BY <1>1, <3>2, <3>3, <3>4, <3>5, <3>6 DEF KubeInv, JobOfItsAttempt
  <2> QED
    BY <2>1, <2>2
<1>5. Tables'
  BY <1>1, <1>3, <1>4 DEF Tables
<1>6. \A n \in Managers : Fits(n)'
  BY <1>1 DEF Fits
<1>7. ASSUME NEW n \in Managers
      PROVE  sweep'[n] # NoJob => sweep'[n] = sweep[n] \/ IsTerminal(n, sweep'[n])
  BY <1>2, <1>3
<1> QED
  BY <1>1, <1>4, <1>5, <1>6, <1>7, TaskStep

LEMMA DeathKeepsInv ==
  ASSUME KubeInv, NEW m \in Managers, ManagerDies(m)
  PROVE  KubeInv'
<1> DEFINE r == [NoTask EXCEPT !.pc = "dead"]
<1>1. /\ UNCHANGED <<token, ciRow, kube, mixed, blamed>> /\ Tables
      /\ mgr' = [mgr EXCEPT ![m] = r] /\ watcher' = [watcher EXCEPT ![m] = "off"]
      /\ sweep' = [sweep EXCEPT ![m] = NoJob] /\ stray' = [stray EXCEPT ![m] = NoStray]
      /\ \A n \in Managers : Fits(n)
  BY DEF KubeInv, ManagerDies
<1>2. r \in TaskRows /\ r.pc = "dead" /\ r.job = NoJob
  BY NoTaskRows
<1> HIDE DEF r
<1>3. /\ mgr' \in [Managers -> TaskRows] /\ mgr'[m] = r
      /\ stray' \in [Managers -> StrayRows] /\ stray'[m] = NoStray
      /\ watcher' \in [Managers -> {"off", "polls", "deletes", "told"}] /\ watcher'[m] = "off"
      /\ sweep' \in [Managers -> CiJobs \cup {NoJob}] /\ sweep'[m] = NoJob
      /\ \A n \in Managers \ {m} : /\ mgr'[n] = mgr[n] /\ stray'[n] = stray[n]
                                   /\ watcher'[n] = watcher[n] /\ sweep'[n] = sweep[n]
  BY <1>1, <1>2, NoTaskRows DEF Tables
<1>4. Tables'
  BY <1>1, <1>3 DEF Tables
<1>5. ASSUME NEW n \in Managers PROVE Fits(n)'
  <2>1. CASE n = m
    BY <1>2, <1>3, <2>1, NoTaskRows DEF Fits
  <2>2. CASE n # m
    BY <1>1, <1>3, <2>2 DEF Fits
  <2> QED
    BY <2>1, <2>2
<1>6. JobOfItsAttempt'
  BY <1>1 DEF KubeInv, JobOfItsAttempt
<1>7. ASSUME NEW n \in Managers
      PROVE  /\ mgr'[n].job # NoJob => mgr'[n] = mgr[n]
             /\ stray'[n].job # NoJob => stray'[n] = stray[n]
             /\ sweep'[n] # NoJob => sweep'[n] = sweep[n]
  BY <1>2, <1>3, NoTaskRows
<1> QED
  BY <1>1, <1>4, <1>5, <1>6, <1>7, TaskStep

-----------------------------------------------------------------------------
(* Steps on the rows of the API *)

\* A row that goes on running stays with its manager, and a request to stop it
\* is not taken back.
LEMMA RowStep ==
  ASSUME KubeInv, NEW j \in CiJobs, NEW rec \in CiRows,
         ciRow' = [ciRow EXCEPT ![j] = rec], rec.attempt = ciRow[j].attempt,
         rec.status = "running" =>
           /\ ciRow[j].status = "running" /\ rec.runner = ciRow[j].runner /\ rec.by = ciRow[j].by
           /\ ciRow[j].asked = "job" => rec.asked = "job",
         UNCHANGED <<token, kube, mgr, watcher, stray, sweep, mixed, blamed>>
  PROVE  KubeInv'
<1>1. ciRow \in [CiJobs -> CiRows] /\ Tables
  BY DEF KubeInv, Tables
<1>2. /\ ciRow' \in [CiJobs -> CiRows] /\ ciRow'[j] = rec
      /\ \A i \in CiJobs \ {j} : ciRow'[i] = ciRow[i]
  BY <1>1
<1>3. Tables' /\ \A m \in Managers : Fits(m)'
  BY <1>2 DEF KubeInv, Tables, Fits
<1>4. Owned'
  BY <1>2 DEF KubeInv, Owned
<1>5. ASSUME ~mixed', NEW m \in Managers
      PROVE  (CurrentAttempt(mgr[m]) /\ CurrentAttempt(stray[m]) /\ Swept(m))'
  <2>1. CurrentAttempt(mgr[m]) /\ CurrentAttempt(stray[m]) /\ Swept(m)
    BY <1>5 DEF KubeInv, Apart
  <2>2. mgr[m].job \in CiJobs \cup {NoJob} /\ stray[m].job \in CiJobs \cup {NoJob}
        /\ sweep[m] \in CiJobs \cup {NoJob}
    BY <1>1 DEF Tables, TaskRows, StrayRows
  <2>3. \A i \in CiJobs : ciRow'[i].attempt = ciRow[i].attempt
    BY <1>2
  <2>4. CurrentAttempt(mgr[m])' /\ CurrentAttempt(stray[m])'
    BY <2>1, <2>2, <2>3 DEF CurrentAttempt
  <2>5. Swept(m)'
    <3>1. CASE sweep[m] = j
      BY <1>2, <2>1, <3>1 DEF Swept, Unknown
    <3>2. CASE sweep[m] # j
      BY <1>2, <2>1, <2>2, <3>2 DEF Swept, Unknown
    <3> QED
      BY <3>1, <3>2
  <2> QED
    BY <2>4, <2>5
<1>6. JobOfItsAttempt'
  BY DEF KubeInv, JobOfItsAttempt
<1> QED
  BY <1>3, <1>4, <1>5, <1>6 DEF KubeInv, Apart

LEMMA ApiKeepsInv ==
  ASSUME KubeInv, NEW j \in CiJobs,
         \/ CancelCi(j) \/ (\E what \in {"step", "job"} : AskCi(j, what))
         \/ GiveUpCi(j) \/ RerunCi(j)
  PROVE  KubeInv'
<1>1. ciRow \in [CiJobs -> CiRows] /\ ciRow[j] \in CiRows
  BY DEF KubeInv, Tables
<1>2. CASE CancelCi(j)
  <2> DEFINE rec == [ciRow[j] EXCEPT !.status = "cancelled", !.asked = "job"]
  <2>1. rec \in CiRows /\ rec.attempt = ciRow[j].attempt /\ rec.status = "cancelled"
    BY <1>1 DEF CiRows, Over
  <2>2. /\ ciRow' = [ciRow EXCEPT ![j] = rec]
        /\ UNCHANGED <<token, kube, mgr, watcher, stray, sweep, mixed, blamed>>
    BY <1>1, <1>2 DEF CancelCi
  <2> HIDE DEF rec
  <2> QED
    BY <2>1, <2>2, RowStep
<1>3. CASE \E what \in {"step", "job"} : AskCi(j, what)
  <2>1. PICK what \in {"step", "job"} : AskCi(j, what)
    BY <1>3
  <2> DEFINE rec == [ciRow[j] EXCEPT !.asked = what]
  <2>2. /\ rec \in CiRows /\ rec.attempt = ciRow[j].attempt /\ rec.status = ciRow[j].status
        /\ rec.runner = ciRow[j].runner /\ rec.by = ciRow[j].by
    BY <1>1 DEF CiRows
  <2>3. /\ ciRow' = [ciRow EXCEPT ![j] = rec] /\ ciRow[j].asked = "no"
        /\ UNCHANGED <<token, kube, mgr, watcher, stray, sweep, mixed, blamed>>
    BY <1>1, <2>1 DEF AskCi
  <2> HIDE DEF rec
  <2> QED
    BY <2>2, <2>3, RowStep
<1>4. CASE GiveUpCi(j)
  <2> DEFINE over == IF ciRow[j].asked = "step" THEN "cancelled" ELSE "failure"
             rec == [ciRow[j] EXCEPT !.status = over]
  <2>1. over \in Over
    BY DEF Over
  <2>2. over # "running"
    OBVIOUS
  <2>3. /\ ciRow' = [ciRow EXCEPT ![j] = rec]
        /\ UNCHANGED <<token, kube, mgr, watcher, stray, sweep, mixed, blamed>>
    BY <1>1, <1>4 DEF GiveUpCi
  <2> HIDE DEF over
  <2>4. rec \in CiRows /\ rec.attempt = ciRow[j].attempt /\ rec.status # "running"
    BY <1>1, <2>1, <2>2 DEF CiRows
  <2> HIDE DEF rec
  <2> QED
    BY <2>3, <2>4, RowStep
<1>5. CASE RerunCi(j)
  <2> DEFINE rec == [ciRow[j] EXCEPT !.status = "queued", !.runner = NoJob, !.asked = "no"]
  <2>1. rec \in CiRows /\ rec.attempt = ciRow[j].attempt /\ rec.status = "queued"
    BY <1>1 DEF CiRows
  <2>2. /\ ciRow' = [ciRow EXCEPT ![j] = rec]
        /\ UNCHANGED <<token, kube, mgr, watcher, stray, sweep, mixed, blamed>>
    BY <1>1, <1>5 DEF RerunCi
  <2> HIDE DEF rec
  <2> QED
    BY <2>1, <2>2, RowStep
<1> QED
  BY <1>2, <1>3, <1>4, <1>5

\* A claim that finds no task and no sweep on the job keeps the attempts apart.
LEMMA ClaimKeepsInv ==
  ASSUME KubeInv, NEW m \in Managers, NEW j \in CiJobs, Claim(m, j)
  PROVE  KubeInv'
<1> DEFINE n == ciRow[j].attempt + 1
           rec == [status |-> "running", runner |-> token[m], by |-> m, asked |-> "no", attempt |-> n]
           begun == [pc |-> "clear", job |-> j, attempt |-> n, verdict |-> "none"]
<1>1. /\ ciRow \in [CiJobs -> CiRows] /\ ciRow[j] \in CiRows /\ Tables
      /\ mgr[m].pc = "idle" /\ ciRow[j].attempt < MaxAttempts
      /\ ciRow' = [ciRow EXCEPT ![j] = rec] /\ mgr' = [mgr EXCEPT ![m] = begun]
      /\ mixed' = (mixed \/ TasksOf(j) # {} \/ \E x \in Managers : sweep[x] = j)
      /\ UNCHANGED <<token, stray, kube, watcher, sweep, blamed>> /\ \A x \in Managers : Fits(x)
  BY DEF KubeInv, Tables, Claim, In
<1>2. n \in 0..MaxAttempts
  BY <1>1, KubeAssumption DEF CiRows
<1> HIDE DEF n
<1>3. rec \in CiRows /\ rec.by = m /\ rec.runner = token[m] /\ rec.attempt = n
  BY <1>1, <1>2 DEF CiRows, Tables
<1>4. begun \in TaskRows /\ begun.pc = "clear" /\ begun.job = j /\ begun.attempt = n
  BY <1>2 DEF TaskRows
<1> HIDE DEF rec, begun
<1>5. /\ ciRow' \in [CiJobs -> CiRows] /\ ciRow'[j] = rec
      /\ (\A i \in CiJobs \ {j} : ciRow'[i] = ciRow[i])
      /\ mgr' \in [Managers -> TaskRows] /\ mgr'[m] = begun
      /\ \A x \in Managers \ {m} : mgr'[x] = mgr[x]
  BY <1>1, <1>3, <1>4 DEF Tables
<1>6. mixed' \in BOOLEAN
  BY <1>1 DEF Tables
<1>7. Tables'
  BY <1>1, <1>5, <1>6 DEF Tables
<1>8. ASSUME NEW x \in Managers PROVE Fits(x)'
  <2>1. CASE x = m
    BY <1>1, <1>4, <1>5, <2>1 DEF Fits
  <2>2. CASE x # m
    BY <1>1, <1>5, <2>2 DEF Fits
  <2> QED
    BY <2>1, <2>2
<1>9. Owned'
  BY <1>1, <1>3, <1>5 DEF KubeInv, Owned
<1>10. ASSUME ~mixed', NEW x \in Managers
       PROVE  (CurrentAttempt(mgr[x]) /\ CurrentAttempt(stray[x]) /\ Swept(x))'
  <2>1. CurrentAttempt(mgr[x]) /\ CurrentAttempt(stray[x]) /\ Swept(x)
    BY <1>1, <1>10 DEF KubeInv, Apart
  <2>2. mgr[x].job # j /\ stray[x].job # j /\ sweep[x] # j
    BY <1>1, <1>10 DEF TasksOf
  <2>3. mgr[x].job \in CiJobs \cup {NoJob} /\ stray[x].job \in CiJobs \cup {NoJob}
        /\ sweep[x] \in CiJobs \cup {NoJob}
    BY <1>1 DEF Tables, TaskRows, StrayRows
  <2>4. CurrentAttempt(mgr[x])'
    <3>1. CASE x = m
      BY <1>3, <1>4, <1>5, <3>1 DEF CurrentAttempt
    <3>2. CASE x # m
      BY <1>5, <2>1, <2>2, <2>3, <3>2 DEF CurrentAttempt
    <3> QED
      BY <3>1, <3>2
  <2>5. CurrentAttempt(stray[x])'
    BY <1>1, <1>5, <2>1, <2>2, <2>3 DEF CurrentAttempt
  <2>6. Swept(x)'
    BY <1>1, <1>5, <2>1, <2>2, <2>3 DEF Swept, Unknown
  <2> QED
    BY <2>4, <2>5, <2>6
<1>11. JobOfItsAttempt'
  BY <1>1 DEF KubeInv, JobOfItsAttempt
<1> QED
  BY <1>7, <1>8, <1>9, <1>10, <1>11 DEF KubeInv, Apart

\* What complete_job takes ends the attempt; the task is over in any case.
LEMMA ReportKeepsInv ==
  ASSUME KubeInv, NEW m \in Managers, NEW arrives \in BOOLEAN, Report(m, arrives)
  PROVE  KubeInv'
<1> DEFINE j == mgr[m].job
           takes == arrives /\ ~Unknown(m, j) /\ ciRow[j].status = "running"
           rec == [ciRow[j] EXCEPT !.status = mgr[m].verdict]
<1>1. /\ Tables /\ mgr[m] \in TaskRows /\ mgr[m].pc = "report" /\ (\A x \in Managers : Fits(x))
      /\ ciRow' = (IF takes THEN [ciRow EXCEPT ![j].status = mgr[m].verdict] ELSE ciRow)
      /\ blamed' = IF takes /\ ciRow[j].attempt # mgr[m].attempt
                   THEN blamed \cup {"overlap"} ELSE blamed
      /\ mgr' = [mgr EXCEPT ![m] = NoTask]
      /\ UNCHANGED <<token, stray, kube, watcher, sweep, mixed>>
  BY DEF KubeInv, Tables, Report, In, Blame
<1>2. j \in CiJobs /\ j # NoJob /\ ciRow[j] \in CiRows
  BY <1>1, KubeAssumption DEF Fits, Tables
<1> HIDE DEF takes
<1>3. blamed' = blamed \/ (mixed /\ blamed' = blamed \cup {"overlap"})
  BY <1>1, <1>2 DEF KubeInv, Apart, CurrentAttempt
<1>4. JobOfItsAttempt' /\ blamed' \subseteq {"overlap", "foreign"}
  BY <1>1, <1>3 DEF KubeInv, JobOfItsAttempt, Tables
<1>5. /\ mgr' \in [Managers -> TaskRows] /\ mgr'[m] = NoTask
      /\ \A x \in Managers \ {m} : mgr'[x] = mgr[x]
  BY <1>1, NoTaskRows DEF Tables
<1>6. ASSUME NEW x \in Managers PROVE Fits(x)'
  <2>1. CASE x = m
    BY <1>1, <1>5, <2>1, NoTaskRows DEF Fits
  <2>2. CASE x # m
    BY <1>1, <1>5, <2>2 DEF Fits
  <2> QED
    BY <2>1, <2>2
<1>7. ciRow' \in [CiJobs -> CiRows] /\ \A i \in CiJobs :
        /\ ciRow'[i].attempt = ciRow[i].attempt /\ ciRow'[i].runner = ciRow[i].runner
        /\ ciRow'[i].by = ciRow[i].by /\ ciRow'[i].asked = ciRow[i].asked
        /\ ciRow'[i].status = "running" => ciRow[i].status = "running"
  <2>1. CASE ~takes
    BY <1>1, <2>1 DEF Tables
  <2>2. CASE takes
    <3>1. ciRow[j].status = "running" /\ ciRow' = [ciRow EXCEPT ![j] = rec]
      BY <1>1, <1>2, <2>2 DEF takes, Tables
    <3>2. mgr[m].verdict \in {"none"} \cup Over
      BY <1>1 DEF TaskRows
    <3>3. CASE mgr[m].verdict \in Over
      <4>1. /\ rec \in CiRows /\ rec.attempt = ciRow[j].attempt /\ rec.runner = ciRow[j].runner
            /\ rec.by = ciRow[j].by /\ rec.asked = ciRow[j].asked
        BY <1>2, <3>3 DEF CiRows
      <4> HIDE DEF rec
      <4> QED
        BY <1>1, <1>2, <3>1, <4>1 DEF Tables
    <3> QED
      BY <1>1, <3>2, <3>3 DEF Fits
  <2> QED
    BY <2>1, <2>2
<1>8. Tables'
  BY <1>1, <1>4, <1>5, <1>7 DEF Tables
<1>9. Owned'
  BY <1>1, <1>7 DEF KubeInv, Owned
<1>10. ASSUME ~mixed', NEW x \in Managers
       PROVE  (CurrentAttempt(mgr[x]) /\ CurrentAttempt(stray[x]) /\ Swept(x))'
  <2>1. CurrentAttempt(mgr[x]) /\ CurrentAttempt(stray[x]) /\ Swept(x)
    BY <1>1, <1>10 DEF KubeInv, Apart
  <2>2. mgr[x].job \in CiJobs \cup {NoJob} /\ stray[x].job \in CiJobs \cup {NoJob}
        /\ sweep[x] \in CiJobs \cup {NoJob}
    BY <1>1 DEF Tables, TaskRows, StrayRows
  <2>3. CurrentAttempt(mgr[x])'
    BY <1>5, <1>7, <2>1, <2>2, NoTaskRows DEF CurrentAttempt
  <2>4. CurrentAttempt(stray[x])' /\ Swept(x)'
    BY <1>1, <1>7, <2>1, <2>2 DEF CurrentAttempt, Swept, Unknown
  <2> QED
    BY <2>3, <2>4
<1> QED
  BY <1>4, <1>6, <1>8, <1>9, <1>10 DEF KubeInv, Apart

LEMMA ClusterKeepsInv ==
  ASSUME KubeInv, UNCHANGED <<token, ciRow, mgr, watcher, stray, sweep, mixed, blamed>>
  PROVE  KubeInv'
BY DEF KubeInv, Tables, Fits, Owned, Apart, CurrentAttempt, Swept, Unknown, JobOfItsAttempt

-----------------------------------------------------------------------------
(* The theorems *)

LEMMA KubeStepKeepsInv == KubeInv /\ [KubeNext]_kubeVars => KubeInv'
<1> SUFFICES ASSUME KubeInv, [KubeNext]_kubeVars PROVE KubeInv'
  OBVIOUS
<1>1. CASE \E j \in CiJobs : \/ CancelCi(j) \/ (\E what \in {"step", "job"} : AskCi(j, what))
                             \/ GiveUpCi(j) \/ RerunCi(j)
  BY <1>1, ApiKeepsInv
<1>2. CASE \E j \in CiJobs : Cluster(j) \/ PodsGone(j)
  BY <1>2, ClusterKeepsInv DEF Cluster, PodsGone
<1>3. CASE \E m \in Managers, j \in CiJobs : Claim(m, j) \/ SweepSees(m, j)
  BY <1>3, ClaimKeepsInv, SweepsKeepInv
<1>4. CASE \E m \in Managers :
             \/ Clear(m) \/ CreateJob(m) \/ Abandon(m) \/ WatcherSees(m) \/ WatcherDeletes(m)
             \/ BuildReady(m) \/ NoBuild(m) \/ FollowEnds(m) \/ RemoveJob(m)
  BY <1>4, ManagersKeepInv
<1>5. CASE \E m \in Managers : \/ (\E b \in BOOLEAN : Report(m, b)) \/ ManagerDies(m)
                               \/ SweepDeletes(m)
  BY <1>5, ReportKeepsInv, DeathKeepsInv, SweepsKeepInv
<1>6. CASE \E m \in Managers : Detach(m) \/ StraySees(m) \/ StrayDeletes(m)
  BY <1>6, StraysKeepInv
<1>7. CASE UNCHANGED kubeVars
  BY <1>7, ClusterKeepsInv DEF kubeVars
<1> QED
  BY <1>1, <1>2, <1>3, <1>4, <1>5, <1>6, <1>7 DEF KubeNext

LEMMA KubeAlways == KubeSpec => []KubeInv
BY KubeInitially, KubeStepKeepsInv, PTL DEF KubeSpec

\* Rows, tasks and watchers hold what their place calls for (executor.rs).
THEOREM KubeTyped == KubeSpec => []KubeTypeOK
BY KubeAlways, InvTypes, PTL

\* The Job of a running attempt is deleted and reported on by its own manager
\* only, for any number of managers and jobs, unless its claim found an earlier
\* attempt under way or several tokens share the namespace
\* (run_job, watch_job, cleanup_orphaned_jobs).
THEOREM JobsBelongToTheirAttempt == KubeSpec => []JobOfItsAttempt
<1>1. KubeInv => JobOfItsAttempt
  BY DEF KubeInv
<1> QED
  BY <1>1, KubeAlways, PTL

-----------------------------------------------------------------------------
(***************************************************************************)
(* AccountsSound for any number of users, subjects, clients and requests.  *)
(***************************************************************************)
AskOps == {"none", "reject", "edit", "profile", "delete", "signIn"}
AdminOps == {"edit", "delete"}
AccountAsk ==
  [op : AskOps, pc : {"", "identity", "unlink", "email", "insert", "link", "issue"},
   id : Users \cup {NoOne}, email : Emails \cup {NoOne}, super : BOOLEAN,
   subject : Subjects \cup {NoOne}]

AccountsTyped ==
  /\ user \in [Users -> AccountRows \cup {NoOne}]
  /\ link \in [Subjects -> Users \cup {NoOne}]
  /\ idp \in [Subjects -> Emails \cup {NoOne}]
  /\ act \in [AccountClients -> AccountAsk]
  /\ crossed \subseteq {"admin", "email", "identity"}

(* What a request carries. *)
Carries(r) ==
  /\ r.op \in AskOps \ {"none", "signIn"} => r.id \in Users
  /\ r.op \in {"edit", "profile"} => r.email \in Emails
  /\ r.op = "signIn" => r.subject \in Subjects /\ r.email \in Emails
  /\ r.op = "signIn" /\ r.pc = "link" => r.id \in Users

(* The foreign key of the identities, and the unique emails. *)
RowsFit ==
  /\ \A s \in Subjects : link[s] # NoOne => link[s] \in Accs
  /\ \A u, v \in Accs : user[u].email = user[v].email => u = v

(* A flow state is taken when it goes. *)
FlowsOnce ==
  /\ flow \in [Flows -> {"unused", "stored", "gone"}] /\ taken \in [Flows -> {0, 1}]
  /\ \A f \in Flows : taken[f] = 1 => flow[f] = "gone"

(* Changes that do not overlap each leave a super admin besides theirs. *)
Leaves(r) == (r.op = "edit" /\ r.super) \/ \E v \in Supers : v # r.id
AdminStays ==
  "admin" \notin crossed =>
    /\ Supers # {}
    /\ \A c \in AccountClients : act[c].op \in AdminOps =>
         /\ Leaves(act[c])
         /\ \A d \in AccountClients : act[d].op \in AdminOps => c = d

(* A sign-in on its own is about to link an account nobody else has. *)
Unlinked(r) == \A t \in Subjects : t # r.subject => link[t] # r.id
OneSignIn ==
  "identity" \notin crossed =>
    /\ \A c, d \in SignIns : c = d
    /\ \A s, t \in Subjects : s # t /\ link[s] # NoOne => link[s] # link[t]
    /\ \A c \in AccountClients : Works(c, "signIn", "link") => Unlinked(act[c])

(* It has the account of its email, from the moment it has one. *)
Its(r) == ByEmail(r.email) \subseteq {r.id}
SignInsFind ==
  crossed \cap {"identity", "email"} = {} =>
    \A c \in AccountClients :
      act[c].op = "signIn" /\ act[c].pc \in {"link", "issue"} => Its(act[c])

AccountsInv ==
  /\ AccountsTyped /\ RowsFit /\ FlowsOnce /\ AdminStays /\ OneSignIn /\ SignInsFind
  /\ \A c \in AccountClients : Carries(act[c])

LEMMA NoAskFits == NoAct \in AccountAsk /\ Carries(NoAct) /\ NoAct.op = "none"
BY DEF NoAct, AccountAsk, Carries, AskOps

LEMMA AccountsInitially == AccountsInit => AccountsInv
<1> SUFFICES ASSUME AccountsInit PROVE AccountsInv
  OBVIOUS
<1> USE AccountsAssumption
<1>1. PICK e \in Emails :
        user = [u \in Users |-> IF u = FirstAdmin THEN Row("approved", TRUE, e) ELSE NoOne]
  BY DEF AccountsInit
<1>2. Row("approved", TRUE, e) \in AccountRows /\ Row("approved", TRUE, e).super = TRUE
  BY DEF Row, AccountRows
<1>3. user \in [Users -> AccountRows \cup {NoOne}] /\ Accs = {FirstAdmin} /\ FirstAdmin \in Supers
  BY <1>1, <1>2 DEF Accs, Supers
<1>4. \A c \in AccountClients : act[c] = NoAct
  BY DEF AccountsInit
<1>5. \A c \in AccountClients : act[c] \in AccountAsk /\ Carries(act[c]) /\ act[c].op = "none"
  BY <1>4, NoAskFits
<1>6. act \in [AccountClients -> AccountAsk]
  BY <1>5 DEF AccountsInit
<1>7. link = [s \in Subjects |-> NoOne] /\ idp \in [Subjects -> Emails] /\ crossed = {}
      /\ flow = [f \in Flows |-> "unused"] /\ taken = [f \in Flows |-> 0]
  BY DEF AccountsInit
<1>8. AccountsTyped
  BY <1>3, <1>6, <1>7 DEF AccountsTyped
<1>9. RowsFit /\ FlowsOnce
  BY <1>3, <1>7 DEF RowsFit, FlowsOnce
<1>10. AdminStays /\ OneSignIn /\ SignInsFind
  BY <1>3, <1>5, <1>7 DEF AdminStays, OneSignIn, SignInsFind, SignIns, Opened, AdminOps, Works
<1> QED BY <1>5, <1>8, <1>9, <1>10 DEF AccountsInv

(* What the accounts do to one another. *)
LEMMA AccountFacts ==
  ASSUME AccountsInv
  PROVE  /\ \A u \in Accs : u \in Users /\ user[u] \in AccountRows
         /\ \A u \in Users : user[u] = NoOne \/ u \in Accs
         /\ Supers \subseteq Accs
         /\ \A c \in AccountClients : act[c] \in AccountAsk
BY AccountsAssumption DEF AccountsInv, AccountsTyped, Accs, Supers

(* A request that begins. *)
LEMMA Begins ==
  ASSUME AccountsInv, NEW c \in AccountClients, NEW a \in AccountAsk, Begin(c, a),
         Carries(a), a.pc \in {"", "identity"},
         crossed \subseteq crossed', crossed' \subseteq {"admin", "email", "identity"},
         a.op \in AdminOps => Leaves(a) /\ ("admin" \notin crossed' => Opened(AdminOps) = {}),
         a.op = "signIn" => ("identity" \notin crossed' => SignIns = {}),
         FlowsOnce'
  PROVE  AccountsInv'
<1> DEFINE A == act'
<1>1. /\ act[c].op = "none" /\ act' = [act EXCEPT ![c] = a]
      /\ user' = user /\ link' = link /\ idp' = idp
  BY DEF Begin
<1>2. act \in [AccountClients -> AccountAsk]
  BY DEF AccountsInv, AccountsTyped
<1>3. act' \in [AccountClients -> AccountAsk] /\ act'[c] = a
      /\ \A d \in AccountClients : d # c => act'[d] = act[d]
  BY <1>1, <1>2
<1>4. AccountsTyped' /\ RowsFit'
  BY <1>1, <1>3 DEF AccountsInv, AccountsTyped, RowsFit, Accs
<1>5. Supers' = Supers /\ Accs' = Accs
  BY <1>1 DEF Supers, Accs
<1>6. \A d \in AccountClients : Carries(act'[d])
  BY <1>3 DEF AccountsInv
<1>7. AdminStays'
  BY <1>1, <1>3, <1>5 DEF AccountsInv, AdminStays, Leaves, Opened, AdminOps
<1>8. OneSignIn'
  BY <1>1, <1>3 DEF AccountsInv, OneSignIn, SignIns, Opened, Unlinked, Works
<1>9. SignInsFind'
  <2> SUFFICES ASSUME (crossed \cap {"identity", "email"} = {})', NEW d \in AccountClients,
                      act'[d].op = "signIn" /\ act'[d].pc \in {"link", "issue"}
               PROVE  Its(act[d])'
    BY DEF SignInsFind
  <2>1. d # c /\ act'[d] = act[d]
    BY <1>3
  <2>2. Its(act[d])
    BY <2>1 DEF AccountsInv, SignInsFind
  <2> QED BY <1>1, <2>1, <2>2 DEF Its, ByEmail, Accs
<1> QED BY <1>4, <1>6, <1>7, <1>8, <1>9 DEF AccountsInv

(* Rows are written, identities dropped, and requests ended. *)
LEMMA Rewrites ==
  ASSUME AccountsInv,
         user' \in [Users -> AccountRows \cup {NoOne}],
         \A u, v \in Accs' : user'[u].email = user'[v].email => u = v,
         link' \in [Subjects -> Users \cup {NoOne}],
         \A s \in Subjects : link'[s] # NoOne => link'[s] = link[s] /\ link'[s] \in Accs',
         idp' \in [Subjects -> Emails \cup {NoOne}],
         act' \in [AccountClients -> AccountAsk],
         \A d \in AccountClients : act'[d] = act[d] \/ act'[d] = NoAct,
         crossed \subseteq crossed', crossed' \subseteq {"admin", "email", "identity"},
         "admin" \notin crossed' =>
           Supers' # {} /\ \A d \in AccountClients : act'[d].op \in AdminOps => Leaves(act[d])',
         SignIns = {} \/ "email" \in crossed' \/ \A e \in Emails : ByEmail(e)' \subseteq ByEmail(e),
         FlowsOnce'
  PROVE  AccountsInv'
<1>1. \A d \in AccountClients : act'[d] = act[d] \/ (act'[d] = NoAct /\ act'[d].op = "none")
  BY NoAskFits
<1>2. AccountsTyped' /\ RowsFit'
  BY DEF AccountsTyped, RowsFit
<1>3. \A d \in AccountClients : Carries(act'[d])
  BY <1>1, NoAskFits DEF AccountsInv
<1>4. AdminStays'
  BY <1>1, Zenon DEF AccountsInv, AdminStays, AdminOps
<1>5. OneSignIn'
  <2> SUFFICES ASSUME "identity" \notin crossed
               PROVE  OneSignIn'
    BY DEF OneSignIn
  <2>1. \A c, d \in SignIns' : c = d
    BY <1>1 DEF AccountsInv, OneSignIn, SignIns, Opened
  <2>2. \A s, t \in Subjects : s # t /\ link'[s] # NoOne => link'[s] # link'[t]
    BY DEF AccountsInv, OneSignIn
  <2>3. ASSUME NEW c \in AccountClients, Works(c, "signIn", "link")',
               NEW t \in Subjects, t # act'[c].subject
        PROVE  link'[t] # act'[c].id
    <3>1. act'[c] = act[c] /\ Works(c, "signIn", "link")
      BY <1>1, <2>3 DEF Works
    <3>2. act[c].id \in Users /\ link[t] # act[c].id
      BY <2>3, <3>1 DEF AccountsInv, OneSignIn, Unlinked, Works, Carries
    <3> QED BY <3>1, <3>2, AccountsAssumption
  <2> QED BY <2>1, <2>2, <2>3 DEF OneSignIn, Unlinked
<1>6. SignInsFind'
  <2> SUFFICES ASSUME (crossed \cap {"identity", "email"} = {})', NEW d \in AccountClients,
                      act'[d].op = "signIn" /\ act'[d].pc \in {"link", "issue"}
               PROVE  ByEmail(act[d].email)' \subseteq {act'[d].id}
    BY DEF SignInsFind, Its
  <2>1. act'[d] = act[d]
    BY <1>1
  <2>2. ByEmail(act[d].email) \subseteq {act[d].id} /\ SignIns # {} /\ act[d].email \in Emails
    BY <2>1 DEF AccountsInv, SignInsFind, SignIns, Opened, Carries, Its
  <2>3. PICK e \in Emails : e = act[d].email
    BY <2>2
  <2>4. ByEmail(e)' \subseteq ByEmail(e)
    BY <2>2
  <2>5. ByEmail(act[d].email)' = ByEmail(e)'
    BY <2>1, <2>3 DEF ByEmail
  <2> QED BY <2>1, <2>2, <2>3, <2>4, <2>5
<1> QED BY <1>2, <1>3, <1>4, <1>5, <1>6 DEF AccountsInv

(* A sign-in goes on. *)
Turned(c, p, i) == act' = [act EXCEPT ![c].pc = p, ![c].id = i]

LEMMA Turns ==
  ASSUME AccountsInv, NEW c \in AccountClients, act[c].op = "signIn",
         NEW p \in {"unlink", "email", "insert", "link", "issue"}, NEW i \in Users \cup {NoOne},
         p = "link" => i \in Users,
         Turned(c, p, i),
         AccountsTyped', RowsFit', FlowsOnce', crossed' = crossed,
         Supers \subseteq Supers',
         "identity" \notin crossed =>
           /\ \A s, t \in Subjects : s # t /\ link'[s] # NoOne => link'[s] # link'[t]
           /\ p = "link" => \A t \in Subjects : t # act[c].subject => link'[t] # i,
         crossed \cap {"identity", "email"} = {} /\ p \in {"link", "issue"} =>
           \A u \in Accs' : user'[u].email = act[c].email => u = i
  PROVE  AccountsInv'
<1>1. act \in [AccountClients -> AccountAsk] /\ Carries(act[c])
  BY DEF AccountsInv, AccountsTyped
<1>2. /\ act'[c].op = "signIn" /\ act'[c].pc = p /\ act'[c].id = i
      /\ act'[c].email = act[c].email /\ act'[c].subject = act[c].subject
      /\ \A d \in AccountClients : d # c => act'[d] = act[d]
  BY <1>1 DEF AccountAsk, Turned
<1>3. \A d \in AccountClients : Carries(act'[d])
  <2> SUFFICES ASSUME NEW d \in AccountClients PROVE Carries(act'[d])
    OBVIOUS
  <2>1. CASE d = c
    BY <1>1, <1>2, <2>1 DEF Carries
  <2>2. CASE d # c
    BY <1>2, <2>2 DEF AccountsInv
  <2> QED BY <2>1, <2>2
<1>4. AdminStays'
  <2> SUFFICES ASSUME "admin" \notin crossed
               PROVE  AdminStays'
    BY DEF AdminStays
  <2>1. \A d \in AccountClients : act'[d].op \in AdminOps => d # c /\ act'[d] = act[d]
    BY <1>2 DEF AdminOps
  <2>2. \A d \in AccountClients : act[d].op \in AdminOps => Leaves(act[d])
    BY DEF AccountsInv, AdminStays
  <2>3. \A d \in AccountClients : act'[d].op \in AdminOps => Leaves(act[d])'
    BY <2>1, <2>2 DEF Leaves
  <2>4. Supers' # {}
    BY DEF AccountsInv, AdminStays
  <2>5. \A d, e \in AccountClients : act'[d].op \in AdminOps /\ act'[e].op \in AdminOps => d = e
    BY <2>1 DEF AccountsInv, AdminStays
  <2> QED BY <2>3, <2>4, <2>5 DEF AdminStays
<1>5. OneSignIn'
  <2> SUFFICES ASSUME "identity" \notin crossed
               PROVE  OneSignIn'
    BY DEF OneSignIn
  <2>1. \A d \in AccountClients : act'[d].op = "signIn" => act[d].op = "signIn"
    BY <1>2
  <2>2. \A d \in AccountClients : act[d].op = "signIn" => d = c
    BY DEF AccountsInv, OneSignIn, SignIns, Opened
  <2>3. \A d, e \in SignIns' : d = e
    BY <2>1, <2>2 DEF SignIns, Opened
  <2>4. ASSUME NEW d \in AccountClients, Works(d, "signIn", "link")'
        PROVE  Unlinked(act[d])'
    <3>1. act'[d].op = "signIn" /\ act'[d].pc = "link"
      BY <2>4 DEF Works
    <3>2. d = c
      BY <2>1, <2>2, <3>1
    <3>3. p = "link" /\ act'[d].id = i /\ act'[d].subject = act[c].subject
      BY <1>2, <3>1, <3>2
    <3> QED BY <3>3 DEF Unlinked
  <2>5. \A s, t \in Subjects : s # t /\ link'[s] # NoOne => link'[s] # link'[t]
    OBVIOUS
  <2> QED BY <2>3, <2>4, <2>5 DEF OneSignIn, Works, Unlinked
<1>6. SignInsFind'
  <2> SUFFICES ASSUME crossed \cap {"identity", "email"} = {}, NEW d \in AccountClients,
                      act'[d].op = "signIn" /\ act'[d].pc \in {"link", "issue"}
               PROVE  ByEmail(act[d].email)' \subseteq {act'[d].id}
    BY DEF SignInsFind, Its
  <2>1. act[d].op = "signIn" /\ "identity" \notin crossed
    BY <1>2
  <2>2. d = c
    BY <2>1 DEF AccountsInv, OneSignIn, SignIns, Opened
  <2> QED BY <1>2, <2>2 DEF ByEmail
<1> QED BY <1>3, <1>4, <1>5, <1>6 DEF AccountsInv

LEMMA NewIds ==
  ASSUME Users # Accs
  PROVE  NewId \in Users /\ user[NewId] = NoOne
<1>1. \E u \in Users : user[u] = NoOne
  BY DEF Accs
<1> QED BY <1>1 DEF NewId

(* An account more. *)
LEMMA AddsAccount ==
  ASSUME AccountsInv, NEW st \in {"pending", "approved"}, NEW super \in BOOLEAN,
         NEW e \in Emails, ByEmail(e) = {}, Users # Accs,
         user' = [user EXCEPT ![NewId] = Row(st, super, e)]
  PROVE  /\ user' \in [Users -> AccountRows \cup {NoOne}]
         /\ \A u, v \in Accs' : user'[u].email = user'[v].email => u = v
         /\ Accs' = Accs \cup {NewId} /\ NewId \notin Accs
         /\ user'[NewId].email = e
         /\ \A u \in Accs : user'[u] = user[u]
         /\ Supers \subseteq Supers'
<1> DEFINE new == NewId
           r == Row(st, super, e)
<1>1. new \in Users /\ user[new] = NoOne
  BY NewIds
<1>2. r \in AccountRows /\ r.email = e
  BY DEF Row, AccountRows
<1>3. user \in [Users -> AccountRows \cup {NoOne}] /\ user' = [user EXCEPT ![new] = r]
  BY DEF AccountsInv, AccountsTyped
<1>4. \A u, v \in Accs : user[u].email = user[v].email => u = v
  BY DEF AccountsInv, RowsFit
<1>5. \A u \in Accs : user[u].email # e
  BY DEF ByEmail
<1> HIDE DEF new, r
<1>6. user'[new] = r /\ new \notin Accs /\ \A u \in Users : u # new => user'[u] = user[u]
  BY <1>1, <1>3 DEF Accs
<1>7. Accs' = Accs \cup {new}
  BY <1>1, <1>2, <1>6, AccountsAssumption DEF Accs
<1>8. user' \in [Users -> AccountRows \cup {NoOne}]
  BY <1>2, <1>3
<1>9. \A u \in Accs : u \in Users /\ user'[u] = user[u]
  BY <1>6 DEF Accs
<1>10. \A u, v \in Accs' : user'[u].email = user'[v].email => u = v
  BY <1>2, <1>4, <1>5, <1>6, <1>7, <1>9
<1>11. Supers \subseteq Supers'
  BY <1>7, <1>9 DEF Supers
<1>12. user'[new].email = e
  BY <1>2, <1>6
<1> QED BY <1>6, <1>7, <1>8, <1>9, <1>10, <1>11, <1>12 DEF new

(* The hypotheses of Rewrites that a request has when it leaves link alone. *)
LEMMA AccountsStay ==
  ASSUME AccountsInv
  PROVE  /\ act \in [AccountClients -> AccountAsk] /\ link \in [Subjects -> Users \cup {NoOne}]
         /\ idp \in [Subjects -> Emails \cup {NoOne}] /\ user \in [Users -> AccountRows \cup {NoOne}]
         /\ crossed \subseteq {"admin", "email", "identity"}
         /\ \A s \in Subjects : link[s] # NoOne => link[s] \in Accs
         /\ \A u, v \in Accs : user[u].email = user[v].email => u = v
         /\ "admin" \notin crossed => Supers # {}
         /\ "admin" \notin crossed =>
              \A d \in AccountClients : act[d].op \in AdminOps => Leaves(act[d])
         /\ FlowsOnce
BY DEF AccountsInv, AccountsTyped, RowsFit, AdminStays

LEMMA NewAccountStep ==
  ASSUME AccountsInv, NEW st \in {"pending", "approved"}, NEW super \in BOOLEAN,
         NEW e \in Emails, NewAccount(st, super, e), Cross(EmailMoves),
         UNCHANGED <<link, idp, flow, act, taken>>
  PROVE  AccountsInv'
<1>1. ByEmail(e) = {} /\ Users # Accs /\ user' = [user EXCEPT ![NewId] = Row(st, super, e)]
  BY DEF NewAccount
<1>2. /\ user' \in [Users -> AccountRows \cup {NoOne}]
      /\ \A u, v \in Accs' : user'[u].email = user'[v].email => u = v
      /\ Accs' = Accs \cup {NewId} /\ Supers \subseteq Supers'
  BY <1>1, AddsAccount
<1>3. crossed' = crossed \cup EmailMoves /\ EmailMoves \subseteq {"email"}
      /\ (SignIns = {} \/ "email" \in crossed')
  BY DEF Cross, EmailMoves
<1>4. \A s \in Subjects : link'[s] # NoOne => link'[s] = link[s] /\ link'[s] \in Accs'
  BY <1>2, AccountsStay
<1>5. "admin" \notin crossed' =>
        Supers' # {} /\ \A d \in AccountClients : act'[d].op \in AdminOps => Leaves(act[d])'
  <2> SUFFICES ASSUME "admin" \notin crossed'
               PROVE  Supers' # {} /\ \A d \in AccountClients : act'[d].op \in AdminOps => Leaves(act[d])'
    OBVIOUS
  <2>1. "admin" \notin crossed
    BY <1>3
  <2> QED BY <1>2, <2>1, AccountsStay DEF Leaves
<1>6. FlowsOnce'
  BY AccountsStay DEF FlowsOnce
<1> QED BY <1>2, <1>3, <1>4, <1>5, <1>6, AccountsStay, Rewrites

LEMMA RegisterStep == ASSUME AccountsInv, NEW e \in Emails, Register(e) PROVE AccountsInv'
<1>1. Pending \in {"pending", "approved"}
  BY DEF Pending
<1> QED BY <1>1, NewAccountStep DEF Register

LEMMA CreateUserStep ==
  ASSUME AccountsInv, NEW e \in Emails, NEW super \in BOOLEAN, CreateUser(e, super)
  PROVE  AccountsInv'
BY NewAccountStep DEF CreateUser

(* A row that keeps its email and its super administration. *)
LEMMA StatusStep ==
  ASSUME AccountsInv, NEW u \in Accs, NEW st \in {"approved", "rejected"},
         user' = [user EXCEPT ![u].status = st],
         act' \in [AccountClients -> AccountAsk],
         \A d \in AccountClients : act'[d] = act[d] \/ act'[d] = NoAct,
         UNCHANGED <<link, idp, flow, taken, crossed>>
  PROVE  AccountsInv'
<1>1. user[u] \in AccountRows /\ u \in Users /\ user \in [Users -> AccountRows \cup {NoOne}]
  BY AccountFacts, AccountsStay
<1> DEFINE r == [user[u] EXCEPT !.status = st]
<1>2. r \in AccountRows /\ r.email = user[u].email /\ r.super = user[u].super
  BY <1>1 DEF AccountRows
<1>3. user' = [user EXCEPT ![u] = r]
  OBVIOUS
<1> HIDE DEF r
<1>4. user' \in [Users -> AccountRows \cup {NoOne}]
      /\ user'[u] = r /\ \A v \in Users : v # u => user'[v] = user[v]
  BY <1>1, <1>2, <1>3
<1>5. Accs' = Accs /\ \A v \in Accs : user'[v].email = user[v].email /\ user'[v].super = user[v].super
  BY <1>1, <1>2, <1>4, AccountsAssumption DEF Accs
<1>6. Supers' = Supers /\ \A e \in Emails : ByEmail(e)' = ByEmail(e)
  BY <1>5 DEF Supers, ByEmail
<1>7. \A v, w \in Accs' : user'[v].email = user'[w].email => v = w
  BY <1>5, AccountsStay
<1>8. \A d \in AccountClients : act'[d].op \in AdminOps => act'[d] = act[d]
  BY NoAskFits DEF AdminOps
<1>9. \A s \in Subjects : link'[s] # NoOne => link'[s] = link[s] /\ link'[s] \in Accs'
  BY <1>5, AccountsStay
<1>10. "admin" \notin crossed' =>
        Supers' # {} /\ \A d \in AccountClients : act'[d].op \in AdminOps => Leaves(act[d])'
  BY <1>6, <1>8, AccountsStay DEF Leaves
<1>11. FlowsOnce'
  BY AccountsStay DEF FlowsOnce
<1> QED BY <1>4, <1>6, <1>7, <1>9, <1>10, <1>11, AccountsStay, Rewrites

LEMMA ApproveStep == ASSUME AccountsInv, NEW u \in Users, Approve(u) PROVE AccountsInv'
BY AccountsStay, StatusStep DEF Approve

(* Requests that end and leave the rows alone. *)
LEMMA StayStep ==
  ASSUME AccountsInv, UNCHANGED <<user, link, idp, crossed>>, FlowsOnce',
         act' \in [AccountClients -> AccountAsk],
         \A d \in AccountClients : act'[d] = act[d] \/ act'[d] = NoAct
  PROVE  AccountsInv'
<1>1. Accs' = Accs /\ Supers' = Supers /\ \A e \in Emails : ByEmail(e)' = ByEmail(e)
  BY DEF Accs, Supers, ByEmail
<1>2. \A d \in AccountClients : act'[d].op \in AdminOps => act'[d] = act[d]
  BY NoAskFits DEF AdminOps
<1>3. "admin" \notin crossed' =>
        Supers' # {} /\ \A d \in AccountClients : act'[d].op \in AdminOps => Leaves(act[d])'
  BY <1>1, <1>2, AccountsStay DEF Leaves
<1>4. \A v, w \in Accs' : user'[v].email = user'[w].email => v = w
  BY <1>1, AccountsStay
<1>5. \A s \in Subjects : link'[s] # NoOne => link'[s] = link[s] /\ link'[s] \in Accs'
  BY <1>1, AccountsStay
<1> QED BY <1>1, <1>3, <1>4, <1>5, AccountsStay, Rewrites

LEMMA EndFacts ==
  ASSUME AccountsInv, NEW c \in AccountClients, act' = [act EXCEPT ![c] = NoAct]
  PROVE  /\ act' \in [AccountClients -> AccountAsk]
         /\ \A d \in AccountClients : act'[d] = act[d] \/ act'[d] = NoAct
         /\ act'[c] = NoAct
BY AccountsStay, NoAskFits

LEMMA EndStep ==
  ASSUME AccountsInv, NEW c \in AccountClients, act' = [act EXCEPT ![c] = NoAct],
         UNCHANGED <<user, link, idp, flow, taken, crossed>>
  PROVE  AccountsInv'
<1>1. FlowsOnce'
  BY AccountsStay DEF FlowsOnce
<1> QED BY <1>1, EndFacts, StayStep

LEMMA CommitRejectStep ==
  ASSUME AccountsInv, NEW c \in AccountClients, CommitReject(c) PROVE AccountsInv'
<1>1. act' = [act EXCEPT ![c] = NoAct] /\ UNCHANGED <<link, idp, flow, taken, crossed>>
  BY DEF CommitReject, End
<1>2. CASE act[c].id \in Accs
  <2>1. user' = [user EXCEPT ![act[c].id].status = "rejected"]
    BY <1>2 DEF CommitReject
  <2> QED BY <1>1, <1>2, <2>1, EndFacts, StatusStep
<1>3. CASE act[c].id \notin Accs
  <2>1. user' = user
    BY <1>3 DEF CommitReject
  <2> QED BY <1>1, <2>1, EndStep
<1> QED BY <1>2, <1>3

(* update_admin_user and update_me: an administrator besides its own       *)
(* change remains.                                                         *)
LEMMA CommitEditStep ==
  ASSUME AccountsInv, NEW c \in AccountClients, CommitEdit(c) PROVE AccountsInv'
<1> DEFINE a == act[c]
<1>1. act' = [act EXCEPT ![c] = NoAct] /\ UNCHANGED <<link, idp, flow, taken>>
      /\ a.op \in {"edit", "profile"}
  BY DEF CommitEdit, End
<1>2. a.id \in Users /\ a.email \in Emails /\ a \in AccountAsk /\ a.super \in BOOLEAN
  BY <1>1, AccountsStay DEF AccountsInv, Carries, AskOps, AccountAsk
<1>3. crossed' = crossed \cup EmailMoves /\ EmailMoves \subseteq {"email"}
      /\ (SignIns = {} \/ "email" \in crossed')
  BY DEF CommitEdit, Cross, EmailMoves
<1>4. FlowsOnce'
  BY <1>1, AccountsStay DEF FlowsOnce
<1>5. CASE a.id \in Accs /\ ByEmail(a.email) \subseteq {a.id}
  <2> DEFINE old == user[a.id]
             s == IF a.op = "edit" THEN a.super ELSE old.super
             new == [old EXCEPT !.email = a.email, !.super = s]
  <2>1. old \in AccountRows /\ user \in [Users -> AccountRows \cup {NoOne}]
    BY <1>5, AccountFacts, AccountsStay
  <2>2. s \in BOOLEAN
    BY <1>2, <2>1 DEF AccountRows
  <2>3. user' = [user EXCEPT ![a.id] = new]
    BY <1>2, <1>5, <2>1 DEF CommitEdit
  <2> HIDE DEF s
  <2>4. new \in AccountRows /\ new.email = a.email /\ new.super = s
    BY <1>2, <2>1, <2>2 DEF AccountRows
  <2> HIDE DEF new
  <2>5. user' \in [Users -> AccountRows \cup {NoOne}]
        /\ user'[a.id] = new /\ \A v \in Users : v # a.id => user'[v] = user[v]
    BY <1>2, <2>1, <2>3, <2>4
  <2>6. Accs' = Accs
    BY <1>5, <2>4, <2>5, AccountsAssumption DEF Accs
  <2>7. \A u, v \in Accs' : user'[u].email = user'[v].email => u = v
    <3> SUFFICES ASSUME NEW u \in Accs, NEW v \in Accs, user'[u].email = user'[v].email
                 PROVE  u = v
      BY <2>6
    <3>1. u \in Users /\ v \in Users /\ (user[u].email = user[v].email => u = v)
      BY AccountFacts, AccountsStay
    <3>2. \A w \in Accs : user[w].email = a.email => w = a.id
      BY <1>5 DEF ByEmail
    <3> QED BY <2>4, <2>5, <3>1, <3>2
  <2>8. \A x \in Subjects : link'[x] # NoOne => link'[x] = link[x] /\ link'[x] \in Accs'
    BY <1>1, <2>6, AccountsStay
  <2>9. "admin" \notin crossed' =>
          Supers' # {} /\ \A d \in AccountClients : act'[d].op \in AdminOps => Leaves(act[d])'
    <3> SUFFICES ASSUME "admin" \notin crossed'
                 PROVE  Supers' # {} /\ \A d \in AccountClients : act'[d].op \in AdminOps => Leaves(act[d])'
      OBVIOUS
    <3>1. "admin" \notin crossed
      BY <1>3
    <3>2. \A v \in Supers \ {a.id} : v \in Supers'
      BY <2>5, <2>6 DEF Supers, Accs
    <3>3. s = TRUE => a.id \in Supers'
      BY <1>5, <2>4, <2>5, <2>6 DEF Supers
    <3>4. CASE a.op = "edit"
      <4>1. Leaves(a) /\ \A d \in AccountClients : act[d].op \in AdminOps => d = c
        BY <3>1, <3>4 DEF AccountsInv, AdminStays, AdminOps
      <4>2. Supers' # {}
        BY <3>2, <3>3, <3>4, <4>1 DEF Leaves, s
      <4> QED BY <1>1, <4>1, <4>2, EndFacts, NoAskFits DEF AdminOps
    <3>5. CASE a.op = "profile"
      <4>1. Supers' = Supers
        BY <1>5, <2>4, <2>5, <2>6, <3>5 DEF Supers, s, Accs
      <4>2. \A d \in AccountClients : act'[d].op \in AdminOps => act'[d] = act[d]
        BY <1>1, EndFacts, NoAskFits DEF AdminOps
      <4> QED BY <3>1, <4>1, <4>2, AccountsStay DEF Leaves
    <3> QED BY <1>1, <3>4, <3>5
  <2>10. \A d \in AccountClients : act'[d] = act[d] \/ act'[d] = NoAct
    BY <1>1, EndFacts
  <2>11. act' \in [AccountClients -> AccountAsk]
    BY <1>1, EndFacts
  <2> HIDE DEF old, a
  <2> QED BY <1>1, <1>3, <1>4, <2>5, <2>7, <2>8, <2>9, <2>10, <2>11, AccountsStay, Rewrites
<1>6. CASE ~(a.id \in Accs /\ ByEmail(a.email) \subseteq {a.id})
  <2>1. user' = user
    BY <1>6 DEF CommitEdit
  <2>2. Accs' = Accs /\ Supers' = Supers /\ \A e \in Emails : ByEmail(e)' = ByEmail(e)
    BY <2>1 DEF Accs, Supers, ByEmail
  <2>3. \A d \in AccountClients : act'[d].op \in AdminOps => act'[d] = act[d]
    BY <1>1, EndFacts, NoAskFits DEF AdminOps
  <2>4. "admin" \notin crossed' => "admin" \notin crossed
    BY <1>3
  <2>5. "admin" \notin crossed' =>
          Supers' # {} /\ \A d \in AccountClients : act'[d].op \in AdminOps => Leaves(act[d])'
    BY <2>2, <2>3, <2>4, AccountsStay DEF Leaves
  <2>6. \A v, w \in Accs' : user'[v].email = user'[w].email => v = w
    BY <2>1, <2>2, AccountsStay
  <2>7. \A x \in Subjects : link'[x] # NoOne => link'[x] = link[x] /\ link'[x] \in Accs'
    BY <1>1, <2>2, AccountsStay
  <2> HIDE DEF a
  <2> QED BY <1>1, <1>3, <1>4, <2>1, <2>2, <2>5, <2>6, <2>7, AccountsStay, EndFacts, Rewrites
<1> QED BY <1>5, <1>6

(* delete_admin_user takes the identities of the account along. *)
LEMMA CommitDeleteStep ==
  ASSUME AccountsInv, NEW c \in AccountClients, CommitDelete(c) PROVE AccountsInv'
<1> DEFINE u == act[c].id
<1>1. act' = [act EXCEPT ![c] = NoAct] /\ UNCHANGED <<idp, flow, taken>> /\ act[c].op = "delete"
      /\ user' = [user EXCEPT ![u] = NoOne]
      /\ link' = [s \in Subjects |-> IF link[s] = u THEN NoOne ELSE link[s]]
  BY DEF CommitDelete, End
<1>2. u \in Users
  BY <1>1 DEF AccountsInv, Carries, AskOps
<1>3. crossed' = crossed \cup EmailMoves /\ EmailMoves \subseteq {"email"}
  BY DEF CommitDelete, Cross, EmailMoves
<1>4. FlowsOnce'
  BY <1>1, AccountsStay DEF FlowsOnce
<1> HIDE DEF u
<1>5. user' \in [Users -> AccountRows \cup {NoOne}]
      /\ user'[u] = NoOne /\ \A v \in Users : v # u => user'[v] = user[v]
  BY <1>1, <1>2, AccountsStay
<1>6. Accs' = Accs \ {u} /\ Supers' = Supers \ {u}
  BY <1>2, <1>5 DEF Accs, Supers
<1>7. \A v, w \in Accs' : user'[v].email = user'[w].email => v = w
  BY <1>5, <1>6, AccountFacts, AccountsStay
<1>8. link' \in [Subjects -> Users \cup {NoOne}]
      /\ \A s \in Subjects : link'[s] # NoOne => link'[s] = link[s] /\ link'[s] \in Accs'
  BY <1>1, <1>6, AccountsStay
<1>9. \A e \in Emails : ByEmail(e)' \subseteq ByEmail(e)
  BY <1>5, <1>6, AccountFacts DEF ByEmail
<1>10. "admin" \notin crossed' =>
        Supers' # {} /\ \A d \in AccountClients : act'[d].op \in AdminOps => Leaves(act[d])'
  <2> SUFFICES ASSUME "admin" \notin crossed'
               PROVE  Supers' # {} /\ \A d \in AccountClients : act'[d].op \in AdminOps => Leaves(act[d])'
    OBVIOUS
  <2>1. Leaves(act[c]) /\ \A d \in AccountClients : act[d].op \in AdminOps => d = c
    BY <1>1, <1>3 DEF AccountsInv, AdminStays, AdminOps
  <2>2. Supers' # {}
    BY <1>1, <1>6, <2>1 DEF Leaves, u
  <2> QED BY <1>1, <2>1, <2>2, EndFacts, NoAskFits DEF AdminOps
<1>11. act' \in [AccountClients -> AccountAsk]
       /\ \A d \in AccountClients : act'[d] = act[d] \/ act'[d] = NoAct
  BY <1>1, EndFacts
<1>12. crossed \subseteq crossed' /\ crossed' \subseteq {"admin", "email", "identity"}
       /\ idp' \in [Subjects -> Emails \cup {NoOne}]
  BY <1>1, <1>3, AccountsStay
<1> QED BY <1>4, <1>5, <1>7, <1>8, <1>9, <1>10, <1>11, <1>12, Rewrites

LEMMA DeleteProviderStep == ASSUME AccountsInv, DeleteProvider PROVE AccountsInv'
<1>1. link' = [s \in Subjects |-> NoOne] /\ UNCHANGED <<user, idp, act, taken, crossed>>
      /\ flow' = [f \in Flows |-> IF flow[f] = "stored" THEN "gone" ELSE flow[f]]
  BY DEF DeleteProvider
<1>2. FlowsOnce'
  BY <1>1, AccountsStay DEF FlowsOnce
<1>3. Accs' = Accs /\ Supers' = Supers /\ \A e \in Emails : ByEmail(e)' = ByEmail(e)
  BY <1>1 DEF Accs, Supers, ByEmail
<1>4. "admin" \notin crossed' =>
        Supers' # {} /\ \A d \in AccountClients : act'[d].op \in AdminOps => Leaves(act[d])'
  BY <1>1, <1>3, AccountsStay DEF Leaves
<1>5. \A v, w \in Accs' : user'[v].email = user'[w].email => v = w
  BY <1>1, <1>3, AccountsStay
<1>6. link' \in [Subjects -> Users \cup {NoOne}]
      /\ \A s \in Subjects : link'[s] # NoOne => link'[s] = link[s] /\ link'[s] \in Accs'
  BY <1>1
<1> QED BY <1>1, <1>2, <1>3, <1>4, <1>5, <1>6, AccountsStay, Rewrites

LEMMA ProviderSteps ==
  ASSUME AccountsInv,
         \/ EnableProvider \/ \E f \in Flows : StartFlow(f) \/ FlowExpires(f)
  PROVE  AccountsInv'
<1>1. UNCHANGED <<user, link, idp, act, taken, crossed>>
  BY DEF EnableProvider, StartFlow, FlowExpires
<1>2. FlowsOnce'
  <2>1. FlowsOnce
    BY AccountsStay
  <2>2. CASE EnableProvider
    BY <1>1, <2>1, <2>2 DEF EnableProvider, FlowsOnce
  <2>3. ASSUME NEW f \in Flows, StartFlow(f)
        PROVE  FlowsOnce'
    BY <1>1, <2>1, <2>3 DEF StartFlow, FlowsOnce
  <2>4. ASSUME NEW f \in Flows, FlowExpires(f)
        PROVE  FlowsOnce'
    BY <1>1, <2>1, <2>4 DEF FlowExpires, FlowsOnce
  <2> QED BY <2>2, <2>3, <2>4
<1> QED BY <1>1, <1>2, AccountsStay, StayStep

LEMMA IdpStep ==
  ASSUME AccountsInv, NEW s \in Subjects, NEW e \in Emails \cup {NoOne}, IdpChanges(s, e)
  PROVE  AccountsInv'
<1>1. UNCHANGED <<user, link, flow, act, taken, crossed>> /\ idp' = [idp EXCEPT ![s] = e]
  BY DEF IdpChanges
<1>2. idp' \in [Subjects -> Emails \cup {NoOne}] /\ FlowsOnce'
  BY <1>1, AccountsStay DEF FlowsOnce
<1>3. Accs' = Accs /\ Supers' = Supers /\ \A x \in Emails : ByEmail(x)' = ByEmail(x)
  BY <1>1 DEF Accs, Supers, ByEmail
<1>4. "admin" \notin crossed' =>
        Supers' # {} /\ \A d \in AccountClients : act'[d].op \in AdminOps => Leaves(act[d])'
  BY <1>1, <1>3, AccountsStay DEF Leaves
<1>5. \A v, w \in Accs' : user'[v].email = user'[w].email => v = w
  BY <1>1, <1>3, AccountsStay
<1>6. \A x \in Subjects : link'[x] # NoOne => link'[x] = link[x] /\ link'[x] \in Accs'
  BY <1>1, <1>3, AccountsStay
<1> QED BY <1>1, <1>2, <1>3, <1>4, <1>5, <1>6, AccountsStay, Rewrites

(* The requests that read first. *)
LEMMA OpenRejectStep ==
  ASSUME AccountsInv, NEW c \in AccountClients, NEW u \in Users, OpenReject(c, u)
  PROVE  AccountsInv'
<1> DEFINE a == [NoAct EXCEPT !.op = "reject", !.id = u]
<1>1. a \in AccountAsk /\ Carries(a) /\ a.pc = "" /\ a.op = "reject"
  BY DEF NoAct, AccountAsk, Carries, AskOps
<1>2. Begin(c, a) /\ UNCHANGED <<flow, taken, crossed>>
  BY DEF OpenReject
<1>3. FlowsOnce' /\ crossed \subseteq crossed' /\ crossed' \subseteq {"admin", "email", "identity"}
  BY <1>2, AccountsStay DEF FlowsOnce
<1> HIDE DEF a
<1> QED BY <1>1, <1>2, <1>3, Begins DEF AdminOps

LEMMA OpenProfileStep ==
  ASSUME AccountsInv, NEW c \in AccountClients, NEW u \in Users, NEW e \in Emails,
         OpenProfile(c, u, e)
  PROVE  AccountsInv'
<1> DEFINE a == [NoAct EXCEPT !.op = "profile", !.id = u, !.email = e]
<1>1. a \in AccountAsk /\ Carries(a) /\ a.pc = "" /\ a.op = "profile"
  BY DEF NoAct, AccountAsk, Carries, AskOps
<1>2. Begin(c, a) /\ UNCHANGED <<flow, taken, crossed>>
  BY DEF OpenProfile
<1>3. FlowsOnce' /\ crossed \subseteq crossed' /\ crossed' \subseteq {"admin", "email", "identity"}
  BY <1>2, AccountsStay DEF FlowsOnce
<1> HIDE DEF a
<1> QED BY <1>1, <1>2, <1>3, Begins DEF AdminOps

(* More than one super admin: one besides any. *)
LEMMA AnotherSuper ==
  ASSUME Cardinality(Supers) > 1, NEW u
  PROVE  \E v \in Supers : v # u
<1> SUFFICES ASSUME \A v \in Supers : v = u
             PROVE  FALSE
  OBVIOUS
<1>1. CASE u \in Supers
  <2>1. Supers = {u}
    BY <1>1
  <2> QED BY <2>1, FS_Singleton
<1>2. CASE u \notin Supers
  <2>1. Supers = {}
    BY <1>2
  <2> QED BY <2>1, FS_EmptySet
<1> QED BY <1>1, <1>2

LEMMA OpenEditStep ==
  ASSUME AccountsInv, NEW c \in AccountClients, NEW actor \in Users, NEW u \in Users,
         OpenEdit(c, actor, u)
  PROVE  AccountsInv'
<1>1. PICK e \in Emails, super \in BOOLEAN :
        /\ actor \in Supers /\ u \in Accs
        /\ user[u].super /\ ~super => Cardinality(Supers) > 1
        /\ Begin(c, [NoAct EXCEPT !.op = "edit", !.id = u, !.email = e, !.super = super])
        /\ Cross(IF Opened({"edit", "delete"}) # {} THEN {"admin"} ELSE {})
        /\ UNCHANGED <<flow, taken>>
  BY DEF OpenEdit
<1> DEFINE a == [NoAct EXCEPT !.op = "edit", !.id = u, !.email = e, !.super = super]
<1>2. a \in AccountAsk /\ Carries(a) /\ a.pc = "" /\ a.op = "edit" /\ a.id = u /\ a.super = super
  BY DEF NoAct, AccountAsk, Carries, AskOps
<1>3. Begin(c, a)
  BY <1>1
<1>4. FlowsOnce' /\ crossed \subseteq crossed' /\ crossed' \subseteq {"admin", "email", "identity"}
      /\ ("admin" \notin crossed' => Opened(AdminOps) = {})
  BY <1>1, AccountsStay DEF FlowsOnce, Cross, AdminOps
<1> HIDE DEF a
<1>5. Leaves(a)
  <2>1. CASE super
    BY <1>2, <2>1 DEF Leaves
  <2>2. CASE ~super /\ user[u].super
    BY <1>1, <1>2, <2>2, AnotherSuper DEF Leaves
  <2>3. CASE ~user[u].super
    BY <1>1, <1>2, <2>3 DEF Leaves, Supers
  <2> QED BY <2>1, <2>2, <2>3
<1> QED BY <1>2, <1>3, <1>4, <1>5, Begins

LEMMA OpenDeleteStep ==
  ASSUME AccountsInv, NEW c \in AccountClients, NEW actor \in Users, NEW u \in Users,
         OpenDelete(c, actor, u)
  PROVE  AccountsInv'
<1> DEFINE a == [NoAct EXCEPT !.op = "delete", !.id = u]
<1>1. a \in AccountAsk /\ Carries(a) /\ a.pc = "" /\ a.op = "delete" /\ a.id = u
  BY DEF NoAct, AccountAsk, Carries, AskOps
<1>2. Begin(c, a)
  BY DEF OpenDelete
<1>3. FlowsOnce' /\ crossed \subseteq crossed' /\ crossed' \subseteq {"admin", "email", "identity"}
      /\ ("admin" \notin crossed' => Opened(AdminOps) = {})
  BY AccountsStay DEF OpenDelete, FlowsOnce, Cross, AdminOps
<1> HIDE DEF a
<1>4. Leaves(a)
  BY <1>1 DEF OpenDelete, Leaves
<1> QED BY <1>1, <1>2, <1>3, <1>4, Begins

LEMMA ProvisionStep ==
  ASSUME AccountsInv, NEW c \in AccountClients, NEW s \in Subjects, Usable(s), Provision(c, s),
         FlowsOnce'
  PROVE  AccountsInv'
<1> DEFINE a == [NoAct EXCEPT !.op = "signIn", !.pc = "identity", !.subject = s, !.email = idp[s]]
<1>1. idp[s] \in Emails
  BY AccountsStay DEF Usable
<1>2. a \in AccountAsk /\ Carries(a) /\ a.pc = "identity" /\ a.op = "signIn"
  BY <1>1 DEF NoAct, AccountAsk, Carries, AskOps
<1>3. Begin(c, a)
  BY DEF Provision
<1>4. crossed \subseteq crossed' /\ crossed' \subseteq {"admin", "email", "identity"}
      /\ ("identity" \notin crossed' => SignIns = {})
  BY AccountsStay DEF Provision, Cross
<1> HIDE DEF a
<1> QED BY <1>2, <1>3, <1>4, Begins DEF AdminOps

LEMMA TakenOnce == ASSUME AccountsInv, NEW f \in Flows, TakeFlow(f) PROVE FlowsOnce'
BY AccountsStay DEF TakeFlow, FlowsOnce

LEMMA CallbackStep ==
  ASSUME AccountsInv, NEW c \in AccountClients, NEW s \in Subjects, NEW f \in Flows,
         Callback(c, s, f) \/ SamlAcs(c, s, f)
  PROVE  AccountsInv'
<1>1. TakeFlow(f) /\ IF Usable(s) THEN Provision(c, s) ELSE Refused(c)
  BY DEF Callback, SamlAcs
<1>2. FlowsOnce'
  BY <1>1, TakenOnce
<1>3. CASE Usable(s)
  BY <1>1, <1>2, <1>3, ProvisionStep
<1>4. CASE ~Usable(s)
  <2>1. UNCHANGED <<user, link, idp, act, crossed>>
    BY <1>1, <1>4 DEF Refused
  <2> QED BY <1>2, <2>1, AccountsStay, StayStep
<1> QED BY <1>3, <1>4

LEMMA SessionStep ==
  ASSUME AccountsInv, NEW c \in AccountClients, NEW s \in Subjects,
         OidcSession(c, s) \/ LdapLogin(c, s)
  PROVE  AccountsInv'
<1>1. Usable(s) /\ Provision(c, s) /\ UNCHANGED <<flow, taken>>
  BY DEF OidcSession, LdapLogin
<1>2. FlowsOnce'
  BY <1>1, AccountsStay DEF FlowsOnce
<1> QED BY <1>1, <1>2, ProvisionStep

(* What a step of a sign-in leaves alone. *)
LEMMA TurnFacts ==
  ASSUME AccountsInv, NEW c \in AccountClients, act[c].op = "signIn",
         NEW p \in {"unlink", "email", "insert", "link", "issue"}, NEW i \in Users \cup {NoOne},
         Turn(c, p, i)
  PROVE  /\ Turned(c, p, i)
         /\ act' \in [AccountClients -> AccountAsk]
         /\ idp' = idp /\ crossed' = crossed /\ FlowsOnce'
<1> DEFINE a == [act[c] EXCEPT !.pc = p, !.id = i]
<1>1. act \in [AccountClients -> AccountAsk]
  BY AccountsStay
<1>2. act' = [act EXCEPT ![c] = a]
  BY <1>1 DEF Turn, Turned
<1>3. a \in AccountAsk
  BY <1>1 DEF AccountAsk
<1> HIDE DEF a
<1>4. act' \in [AccountClients -> AccountAsk]
  BY <1>1, <1>2, <1>3
<1>5. FlowsOnce'
  BY AccountsStay DEF Turn, FlowsOnce
<1> QED BY <1>4, <1>5 DEF Turn, Turned

LEMMA SignInFacts ==
  ASSUME AccountsInv, NEW c \in AccountClients, act[c].op = "signIn"
  PROVE  /\ act[c].subject \in Subjects /\ act[c].email \in Emails
         /\ act[c].pc = "link" => act[c].id \in Users
         /\ "identity" \notin crossed =>
              \A s, t \in Subjects : s # t /\ link[s] # NoOne => link[s] # link[t]
BY DEF AccountsInv, Carries, OneSignIn

LEMMA FindIdentityStep ==
  ASSUME AccountsInv, NEW c \in AccountClients, FindIdentity(c) PROVE AccountsInv'
<1> DEFINE s == act[c].subject
<1>1. act[c].op = "signIn" /\ UNCHANGED <<user, link>>
  BY DEF FindIdentity, Works
<1>2. PICK p \in {"unlink", "email", "insert", "link", "issue"}, i \in Users \cup {NoOne} :
        /\ Turn(c, p, i) /\ p \notin {"insert", "link"}
        /\ p = "issue" => ByEmail(act[c].email) \ {i} = {}
  <2>1. link[s] \in Users \cup {NoOne}
    BY <1>1, SignInFacts, AccountsStay
  <2> QED BY <2>1 DEF FindIdentity
<1>3. /\ Turned(c, p, i) /\ act' \in [AccountClients -> AccountAsk]
      /\ idp' = idp /\ crossed' = crossed /\ FlowsOnce'
  <2>1. Turn(c, p, i) /\ act[c].op = "signIn"
    BY <1>1, <1>2
  <2> HIDE <1>1, <1>2 DEF s
  <2> QED BY <2>1, TurnFacts, Zenon
<1>4. Accs' = Accs /\ Supers' = Supers
  BY <1>1 DEF Accs, Supers
<1>5. AccountsTyped' /\ RowsFit'
  BY <1>1, <1>3, <1>4, AccountsStay DEF AccountsTyped, RowsFit
<1>6. p = "issue" => \A u \in Accs' : user'[u].email = act[c].email => u = i
  BY <1>1, <1>2, <1>4 DEF ByEmail
<1>7. "identity" \notin crossed =>
        \A x, t \in Subjects : x # t /\ link'[x] # NoOne => link'[x] # link'[t]
  BY <1>1, SignInFacts
<1> QED BY <1>1, <1>2, <1>3, <1>4, <1>5, <1>6, <1>7, Turns

LEMMA UnlinkStep ==
  ASSUME AccountsInv, NEW c \in AccountClients, Unlink(c) PROVE AccountsInv'
<1> DEFINE s == act[c].subject
<1>1. act[c].op = "signIn" /\ user' = user /\ link' = [link EXCEPT ![s] = NoOne]
      /\ Turn(c, "email", NoOne)
  BY DEF Unlink, Works
<1>2. /\ Turned(c, "email", NoOne)
      /\ act' \in [AccountClients -> AccountAsk]
      /\ idp' = idp /\ crossed' = crossed /\ FlowsOnce'
  BY <1>1, TurnFacts
<1>3. Accs' = Accs /\ Supers' = Supers
  BY <1>1 DEF Accs, Supers
<1> HIDE DEF s
<1>4. \A t \in Subjects : link'[t] = NoOne \/ link'[t] = link[t]
  BY <1>1, AccountsStay
<1>5. link' \in [Subjects -> Users \cup {NoOne}]
  BY <1>1, AccountsStay
<1>6. AccountsTyped' /\ RowsFit'
  BY <1>1, <1>2, <1>3, <1>4, <1>5, AccountsStay DEF AccountsTyped, RowsFit
<1>7. "identity" \notin crossed =>
        \A x, t \in Subjects : x # t /\ link'[x] # NoOne => link'[x] # link'[t]
  BY <1>1, <1>4, SignInFacts
<1> QED BY <1>1, <1>2, <1>3, <1>6, <1>7, Turns

LEMMA FindByEmailStep ==
  ASSUME AccountsInv, NEW c \in AccountClients, FindByEmail(c) PROVE AccountsInv'
<1> DEFINE s == act[c].subject
           Elsewhere(u) == \E t \in Subjects \ {s} : link[t] = u
<1>1. act[c].op = "signIn" /\ UNCHANGED <<user, link>>
  BY DEF FindByEmail, Works
<1>2. Accs' = Accs /\ Supers' = Supers
  BY <1>1 DEF Accs, Supers
<1>3. "identity" \notin crossed =>
        \A x, t \in Subjects : x # t /\ link'[x] # NoOne => link'[x] # link'[t]
  BY <1>1, SignInFacts
<1>4. CASE ByEmail(act[c].email) = {}
  <2>1. Turn(c, "insert", NoOne)
    BY <1>4 DEF FindByEmail
  <2>2. /\ Turned(c, "insert", NoOne)
        /\ act' \in [AccountClients -> AccountAsk]
        /\ idp' = idp /\ crossed' = crossed /\ FlowsOnce'
    BY <1>1, <2>1, TurnFacts
  <2>3. AccountsTyped' /\ RowsFit'
    BY <1>1, <1>2, <2>2, AccountsStay DEF AccountsTyped, RowsFit
  <2> QED BY <1>1, <1>2, <1>3, <2>2, <2>3, Turns
<1>5. ASSUME NEW u \in ByEmail(act[c].email), ~Elsewhere(u), Turn(c, "link", u)
      PROVE  AccountsInv'
  <2>1. u \in Accs /\ u \in Users /\ user[u].email = act[c].email
    BY AccountFacts DEF ByEmail
  <2>2. /\ Turned(c, "link", u)
        /\ act' \in [AccountClients -> AccountAsk]
        /\ idp' = idp /\ crossed' = crossed /\ FlowsOnce'
    BY <1>1, <1>5, <2>1, TurnFacts
  <2>3. AccountsTyped' /\ RowsFit'
    BY <1>1, <1>2, <2>2, AccountsStay DEF AccountsTyped, RowsFit
  <2>4. \A v \in Accs' : user'[v].email = act[c].email => v = u
    BY <1>1, <1>2, <2>1, AccountsStay
  <2>5. \A t \in Subjects : t # act[c].subject => link'[t] # u
    BY <1>1, <1>5
  <2> QED BY <1>1, <1>2, <1>3, <2>1, <2>2, <2>3, <2>4, <2>5, Turns
<1>6. CASE act' = [act EXCEPT ![c] = NoAct] /\ UNCHANGED <<idp, provider, flow, taken, crossed, accountAsks>>
  BY <1>1, <1>6, EndStep
<1>7. CASE ByEmail(act[c].email) # {}
  <2>1. \E u \in ByEmail(act[c].email) :
          IF Elsewhere(u) THEN act' = [act EXCEPT ![c] = NoAct]
                               /\ UNCHANGED <<idp, provider, flow, taken, crossed, accountAsks>>
                          ELSE Turn(c, "link", u)
    BY <1>7 DEF FindByEmail
  <2> HIDE DEF Elsewhere
  <2> QED BY <1>5, <1>6, <2>1
<1> QED BY <1>4, <1>7

LEMMA InsertAccountStep ==
  ASSUME AccountsInv, NEW c \in AccountClients, InsertAccount(c) PROVE AccountsInv'
<1> DEFINE e == act[c].email
<1>1. act[c].op = "signIn" /\ link' = link
  BY DEF InsertAccount, Works
<1>2. e \in Emails
  BY <1>1, SignInFacts
<1>3. CASE ByEmail(e) # {} \/ Users = Accs
  <2>1. act' = [act EXCEPT ![c] = NoAct] /\ UNCHANGED <<user, idp, flow, taken, crossed>>
    BY <1>3 DEF InsertAccount
  <2> QED BY <1>1, <2>1, EndStep
<1>4. CASE ~(ByEmail(e) # {} \/ Users = Accs)
  <2>1. user' = [user EXCEPT ![NewId] = Row(Pending, FALSE, e)] /\ Turn(c, "link", NewId)
    BY <1>4 DEF InsertAccount
  <2>2. Pending \in {"pending", "approved"} /\ ByEmail(e) = {} /\ Users # Accs
    BY <1>4 DEF Pending
  <2>3. NewId \in Users
    BY <2>2, NewIds
  <2>4. /\ Turned(c, "link", NewId)
        /\ act' \in [AccountClients -> AccountAsk]
        /\ idp' = idp /\ crossed' = crossed /\ FlowsOnce'
    BY <1>1, <2>1, <2>3, TurnFacts
  <2> HIDE DEF e
  <2>5. /\ user' \in [Users -> AccountRows \cup {NoOne}]
        /\ \A u, v \in Accs' : user'[u].email = user'[v].email => u = v
        /\ Accs' = Accs \cup {NewId} /\ NewId \notin Accs
        /\ user'[NewId].email = e
        /\ Supers \subseteq Supers'
    BY <1>2, <2>1, <2>2, AddsAccount
  <2>6. AccountsTyped' /\ RowsFit'
    BY <1>1, <2>4, <2>5, AccountsStay DEF AccountsTyped, RowsFit
  <2>7. \A t \in Subjects : link'[t] # NewId
    BY <1>1, <2>3, <2>5, AccountsStay, AccountsAssumption
  <2>8. \A u \in Accs' : user'[u].email = e => u = NewId
    BY <2>5
  <2>9. "identity" \notin crossed =>
          \A x, t \in Subjects : x # t /\ link'[x] # NoOne => link'[x] # link'[t]
    BY <1>1, SignInFacts
  <2>10. PICK i \in Users : i = NewId
    BY <2>3
  <2> QED BY <1>1, <2>4, <2>5, <2>6, <2>7, <2>8, <2>9, <2>10, Turns DEF e
<1> QED BY <1>3, <1>4

LEMMA LinkIdentityStep ==
  ASSUME AccountsInv, NEW c \in AccountClients, LinkIdentity(c) PROVE AccountsInv'
<1> DEFINE s == act[c].subject
           i == act[c].id
<1>1. act[c].op = "signIn" /\ act[c].pc = "link" /\ user' = user
  BY DEF LinkIdentity, Works
<1>2. s \in Subjects /\ i \in Users
  BY <1>1, SignInFacts
<1>3. Accs' = Accs /\ Supers' = Supers
  BY <1>1 DEF Accs, Supers
<1>4. CASE i \in Accs /\ provider # "gone"
  <2>1. link' = [link EXCEPT ![s] = i] /\ Turn(c, "issue", i)
    BY <1>4 DEF LinkIdentity
  <2>2. /\ Turned(c, "issue", i)
        /\ act' \in [AccountClients -> AccountAsk]
        /\ idp' = idp /\ crossed' = crossed /\ FlowsOnce'
    BY <1>1, <1>2, <2>1, TurnFacts
  <2> HIDE DEF s, i
  <2>3. /\ link' \in [Subjects -> Users \cup {NoOne}] /\ link'[s] = i
        /\ \A t \in Subjects : t # s => link'[t] = link[t]
    BY <1>2, <2>1, AccountsStay
  <2>4. AccountsTyped' /\ RowsFit'
    BY <1>1, <1>3, <1>4, <2>2, <2>3, AccountsStay DEF AccountsTyped, RowsFit
  <2>5. "identity" \notin crossed =>
          \A x, t \in Subjects : x # t /\ link'[x] # NoOne => link'[x] # link'[t]
    <3> SUFFICES ASSUME "identity" \notin crossed
                 PROVE  \A x, t \in Subjects : x # t /\ link'[x] # NoOne => link'[x] # link'[t]
      OBVIOUS
    <3>1. \A t \in Subjects : t # s => link[t] # i
      BY <1>1 DEF AccountsInv, OneSignIn, Unlinked, Works, s, i
    <3> QED BY <1>1, <2>3, <3>1, SignInFacts
  <2>6. crossed \cap {"identity", "email"} = {} =>
          \A u \in Accs' : user'[u].email = act[c].email => u = i
    BY <1>1, <1>3 DEF AccountsInv, SignInsFind, Its, ByEmail, i
  <2> QED BY <1>1, <1>2, <1>3, <2>2, <2>4, <2>5, <2>6, Turns
<1>5. CASE ~(i \in Accs /\ provider # "gone")
  <2>1. act' = [act EXCEPT ![c] = NoAct] /\ UNCHANGED <<link, idp, flow, taken, crossed>>
    BY <1>5 DEF LinkIdentity
  <2> QED BY <1>1, <2>1, EndStep
<1> QED BY <1>4, <1>5

LEMMA IssueSteps ==
  ASSUME AccountsInv, NEW c \in AccountClients, Issue(c) \/ RequestDies(c) PROVE AccountsInv'
<1>1. act' = [act EXCEPT ![c] = NoAct] /\ UNCHANGED <<user, link, idp, flow, taken, crossed>>
  BY DEF Issue, RequestDies, End
<1> QED BY <1>1, EndStep

LEMMA AccountsStep == AccountsInv /\ [AccountsNext]_accountVars => AccountsInv'
<1> SUFFICES ASSUME AccountsInv, [AccountsNext]_accountVars PROVE AccountsInv'
  OBVIOUS
<1>1. CASE UNCHANGED accountVars
  <2>1. FlowsOnce'
    BY <1>1, AccountsStay DEF FlowsOnce, accountVars
  <2> QED BY <1>1, <2>1, AccountsStay, StayStep DEF accountVars
<1>2. ASSUME NEW e \in Emails, Register(e) \/ \E b \in BOOLEAN : CreateUser(e, b)
      PROVE  AccountsInv'
  BY <1>2, RegisterStep, CreateUserStep
<1>3. ASSUME NEW c \in AccountClients, NEW u \in Users,
             OpenReject(c, u) \/ (\E a \in Users : OpenEdit(c, a, u) \/ OpenDelete(c, a, u))
             \/ \E e \in Emails : OpenProfile(c, u, e)
      PROVE  AccountsInv'
  BY <1>3, OpenRejectStep, OpenEditStep, OpenDeleteStep, OpenProfileStep
<1>4. ASSUME NEW c \in AccountClients, CommitReject(c) \/ CommitEdit(c) \/ CommitDelete(c)
      PROVE  AccountsInv'
  BY <1>4, CommitRejectStep, CommitEditStep, CommitDeleteStep
<1>5. ASSUME NEW c \in AccountClients, NEW s \in Subjects,
             OidcSession(c, s) \/ LdapLogin(c, s) \/ \E f \in Flows : Callback(c, s, f) \/ SamlAcs(c, s, f)
      PROVE  AccountsInv'
  BY <1>5, SessionStep, CallbackStep
<1>6. ASSUME NEW c \in AccountClients,
             FindIdentity(c) \/ Unlink(c) \/ FindByEmail(c) \/ InsertAccount(c) \/ LinkIdentity(c)
             \/ Issue(c) \/ RequestDies(c)
      PROVE  AccountsInv'
  BY <1>6, FindIdentityStep, UnlinkStep, FindByEmailStep, InsertAccountStep, LinkIdentityStep, IssueSteps
<1> QED BY <1>1, <1>2, <1>3, <1>4, <1>5, <1>6, ApproveStep, ProviderSteps, DeleteProviderStep, IdpStep
        DEF AccountsNext

(* A super admin remains unless changes of administrators overlap; an      *)
(* account has one subject, and a session is of the account with the       *)
(* subject's email, unless sign-ins or changes of emails overlap; a flow   *)
(* state serves once: for any number of users, subjects and requests.      *)
THEOREM AccountsAreSound == AccountsSpec => []AccountsSound
<1>1. AccountsInv => AccountsSound
  <2> SUFFICES ASSUME AccountsInv PROVE AccountsSound
    OBVIOUS
  <2>1. AdminRemains
    BY DEF AccountsInv, AdminStays, AdminRemains
  <2>2. \A f \in Flows : taken[f] <= 1
    BY DEF AccountsInv, FlowsOnce
  <2>3. SignInSound
    BY <2>2 DEF AccountsInv, OneSignIn, SignInsFind, Its, SignInSound, Works
  <2> QED BY <2>1, <2>3 DEF AccountsSound
<1> QED BY <1>1, AccountsInitially, AccountsStep, PTL DEF AccountsSpec

-----------------------------------------------------------------------------
(***************************************************************************)
(* SearchSound for any number of repositories, pollers, pushes and faults. *)
(***************************************************************************)
IndexJob == [repo : IndexRepos, state : {"pending", "indexed", "failed"}]
Batch == [pc : {"poll", "open", "write", "meta", "mark", "fail"}, batch : SUBSET Nat]

SearchTyped ==
  /\ ixJob \in Seq(IndexJob)
  /\ docs \in [IndexRepos -> SUBSET Nat] /\ ixMeta \in [IndexRepos -> Nat]
  /\ indexer \in [Indexers -> Batch]
  /\ \A w \in Indexers : InBatch(w) \subseteq IxIds /\ (OnStep(w, "poll") <=> InBatch(w) = {})
  /\ overlapped \subseteq IndexRepos

Clean(j) == ixJob[j].repo \notin overlapped

(* Two pollers have no clean repository in common, *)
OneBatch ==
  \A v, w \in Indexers : \A i \in InBatch(v), j \in InBatch(w) :
    v # w /\ Clean(i) => ixJob[i].repo # ixJob[j].repo
(* a poller has waiting jobs of it, and all those before them, *)
BatchWaits ==
  \A w \in Indexers : \A i \in InBatch(w) : Clean(i) =>
    /\ Waits(i)
    /\ \A k \in IxIds : ixJob[k].repo = ixJob[i].repo /\ Waits(k) /\ k < i => k \in InBatch(w)
(* and its jobs are processed in the order of the pushes. *)
InPushOrder ==
  \A i, k \in IxIds : Clean(i) /\ ixJob[i].repo = ixJob[k].repo /\ ~Waits(i) /\ Waits(k) => i < k

(* What a poller has written of the job it is at. *)
WrittenBy(w) ==
  (OnStep(w, "meta") \/ OnStep(w, "mark")) /\ Clean(Current(w)) =>
      /\ docs[ixJob[Current(w)].repo] = {Current(w)}
      /\ OnStep(w, "mark") => ixMeta[ixJob[Current(w)].repo] = Current(w)

SearchInv ==
  /\ SearchTyped /\ OneBatch /\ BatchWaits /\ InPushOrder /\ SearchSound
  /\ \A w \in Indexers : WrittenBy(w)

LEMMA CurrentIsLeast ==
  ASSUME SearchTyped, NEW w \in Indexers, ~OnStep(w, "poll")
  PROVE  /\ Current(w) \in InBatch(w) /\ Current(w) \in IxIds /\ ixJob[Current(w)] \in IndexJob
         /\ \A i \in InBatch(w) : Current(w) <= i
<1>1. InBatch(w) \in SUBSET Nat /\ InBatch(w) # {} /\ InBatch(w) \subseteq IxIds
  BY DEF SearchTyped, InBatch, Batch
<1>2. \E j \in InBatch(w) : \A i \in InBatch(w) : j <= i
  BY <1>1, Least
<1>3. Current(w) \in InBatch(w) /\ \A i \in InBatch(w) : Current(w) <= i
  BY <1>2 DEF Current
<1> QED BY <1>1, <1>3 DEF SearchTyped, IxIds

LEMMA JobsTyped ==
  ASSUME SearchTyped
  PROVE  /\ Len(ixJob) \in Nat /\ \A j \in IxIds : ixJob[j] \in IndexJob /\ j \in Nat
         /\ \A w \in Indexers : indexer[w] \in Batch /\ InBatch(w) \in SUBSET Nat
BY DEF SearchTyped, IxIds, InBatch, Batch

LEMMA SearchInitially == SearchInit => SearchInv
<1> SUFFICES ASSUME SearchInit PROVE SearchInv
  OBVIOUS
<1>1. ixJob = <<>> /\ docs = [r \in IndexRepos |-> {}] /\ ixMeta = [r \in IndexRepos |-> 0]
      /\ indexer = [w \in Indexers |-> NoBatch] /\ overlapped = {}
  BY DEF SearchInit
<1>2. \A w \in Indexers : indexer[w].pc = "poll" /\ indexer[w].batch = {}
  BY <1>1 DEF NoBatch
<1>3. IxIds = {}
  BY <1>1 DEF IxIds
<1>4. SearchTyped
  <2>1. NoBatch \in Batch
    BY DEF NoBatch, Batch
  <2> QED BY <1>1, <1>2, <1>3, <2>1 DEF SearchTyped, InBatch, OnStep
<1> QED BY <1>2, <1>3, <1>4 DEF SearchInv, OneBatch, BatchWaits, InPushOrder, SearchSound, WrittenBy,
     InBatch, OnStep

(* A push: a job more, that waits. *)
LEMMA EnqueueStep == ASSUME SearchInv, NEW r \in IndexRepos, Enqueue(r) PROVE SearchInv'
<1> DEFINE entry == [repo |-> r, state |-> "pending"]
<1>1. ixJob' = Append(ixJob, entry) /\ UNCHANGED <<docs, ixMeta, indexer, overlapped>>
  BY DEF Enqueue
<1>2. entry \in IndexJob /\ ixJob \in Seq(IndexJob) /\ Len(ixJob) \in Nat
  BY DEF IndexJob, SearchInv, SearchTyped
<1>3. ixJob' \in Seq(IndexJob) /\ IxIds' = IxIds \cup {Len(ixJob) + 1}
      /\ ixJob'[Len(ixJob) + 1] = entry /\ \A j \in IxIds : ixJob'[j] = ixJob[j]
  BY <1>1, <1>2 DEF IxIds
<1>4. entry.repo = r /\ entry.state = "pending"
  OBVIOUS
<1> HIDE DEF entry
<1>5. \A w \in Indexers : InBatch(w)' = InBatch(w) /\ InBatch(w) \subseteq IxIds
      /\ Current(w)' = Current(w)
  <2>1. \A w \in Indexers : InBatch(w)' = InBatch(w) /\ InBatch(w) \subseteq IxIds
    BY <1>1 DEF InBatch, SearchInv, SearchTyped
  <2> QED BY <2>1 DEF Current
<1>6. SearchTyped'
  <2>1. \A w \in Indexers : InBatch(w)' \subseteq IxIds' /\ (OnStep(w, "poll")' <=> InBatch(w)' = {})
    BY <1>1, <1>3 DEF SearchInv, SearchTyped, OnStep, InBatch
  <2> QED BY <1>1, <1>3, <2>1 DEF SearchInv, SearchTyped
<1>7. \A j \in IxIds' : j \in IxIds \/ (j = Len(ixJob) + 1 /\ ixJob'[j] = entry)
  BY <1>3
<1>8. \A i \in IxIds : i < Len(ixJob) + 1 /\ i \in Nat
  BY <1>2 DEF IxIds
<1>9. OneBatch'
  <2> SUFFICES ASSUME NEW v \in Indexers, NEW w \in Indexers, NEW i \in InBatch(v)', NEW j \in InBatch(w)',
                      v # w, Clean(i)'
               PROVE  ixJob'[i].repo # ixJob'[j].repo
    BY DEF OneBatch
  <2>1. i \in InBatch(v) /\ j \in InBatch(w) /\ i \in IxIds /\ j \in IxIds
    BY <1>5
  <2>2. ixJob'[i] = ixJob[i] /\ ixJob'[j] = ixJob[j]
    BY <1>3, <2>1
  <2>3. Clean(i)
    BY <1>1, <2>2 DEF Clean
  <2>4. ixJob[i].repo # ixJob[j].repo
    BY <2>1, <2>3 DEF SearchInv, OneBatch
  <2> QED BY <2>2, <2>4
<1>10. BatchWaits'
  <2> SUFFICES ASSUME NEW w \in Indexers, NEW i \in InBatch(w)', Clean(i)'
               PROVE  Waits(i)' /\ \A k \in IxIds' : ixJob'[k].repo = ixJob'[i].repo /\ Waits(k)' /\ k < i
                                                    => k \in InBatch(w)'
    BY DEF BatchWaits
  <2>1. i \in InBatch(w) /\ i \in IxIds /\ Clean(i) /\ ixJob'[i] = ixJob[i]
    BY <1>1, <1>3, <1>5 DEF Clean
  <2>2. Waits(i) /\ \A k \in IxIds : ixJob[k].repo = ixJob[i].repo /\ Waits(k) /\ k < i => k \in InBatch(w)
    BY <2>1 DEF SearchInv, BatchWaits
  <2>3. \A k \in IxIds' : k < i => k \in IxIds
    BY <1>2, <1>7, <1>8, <2>1
  <2> QED BY <1>3, <1>5, <2>1, <2>2, <2>3 DEF Waits
<1>11. InPushOrder'
  <2> SUFFICES ASSUME NEW i \in IxIds', NEW k \in IxIds', Clean(i)', ixJob'[i].repo = ixJob'[k].repo,
                      ~Waits(i)', Waits(k)'
               PROVE  i < k
    BY DEF InPushOrder
  <2>1. i \in IxIds /\ ixJob'[i] = ixJob[i]
    BY <1>3, <1>4, <1>7 DEF Waits
  <2>2. CASE k \in IxIds
    BY <1>1, <1>3, <2>1, <2>2 DEF SearchInv, InPushOrder, Clean, Waits
  <2>3. CASE k = Len(ixJob) + 1
    BY <1>8, <2>1, <2>3
  <2> QED BY <1>7, <2>2, <2>3
<1>12. SearchSound'
  <2> SUFFICES ASSUME NEW x \in IndexRepos \ overlapped, NEW j \in IxIds',
                      ixJob'[j] = [repo |-> x, state |-> "indexed"],
                      \A i \in IxIds' : i > j => ixJob'[i].repo # x,
                      \A i \in IxIds' : ixJob'[i].repo = x => ~Waits(i)'
               PROVE  docs'[x] = {j} /\ ixMeta'[x] = j
    BY <1>1 DEF SearchSound
  <2>1. j \in IxIds
    BY <1>4, <1>7
  <2>2. ixJob[j] = [repo |-> x, state |-> "indexed"]
    BY <1>3, <2>1
  <2>3. \A i \in IxIds : i > j => ixJob[i].repo # x
    BY <1>3
  <2>4. \A i \in IxIds : ixJob[i].repo = x => ~Waits(i)
    BY <1>3 DEF Waits
  <2> QED BY <1>1, <2>1, <2>2, <2>3, <2>4 DEF SearchInv, SearchSound
<1>13. \A w \in Indexers : WrittenBy(w)'
  <2> SUFFICES ASSUME NEW w \in Indexers, OnStep(w, "meta") \/ OnStep(w, "mark"), Clean(Current(w))'
               PROVE  /\ docs'[ixJob'[Current(w)'].repo] = {Current(w)'}
                      /\ OnStep(w, "mark") => ixMeta'[ixJob'[Current(w)'].repo] = Current(w)'
    BY <1>1 DEF WrittenBy, OnStep
  <2>1. Current(w) \in IxIds
    BY CurrentIsLeast DEF SearchInv, SearchTyped, OnStep
  <2>2. Current(w)' = Current(w) /\ ixJob'[Current(w)] = ixJob[Current(w)]
    BY <1>3, <1>5, <2>1
  <2> QED BY <1>1, <2>2 DEF SearchInv, WrittenBy, Clean
<1> QED BY <1>6, <1>9, <1>10, <1>11, <1>12, <1>13 DEF SearchInv

(* The oldest waiting jobs: no waiting job before one of them is left out. *)
LEMMA OldestIsPrefix ==
  ASSUME SearchTyped
  PROVE  /\ Oldest \subseteq Waiting /\ Waiting \subseteq IxIds /\ \A j \in Waiting : Waits(j)
         /\ \A j \in Oldest, k \in Waiting : k < j => k \in Oldest
<1>1. Len(ixJob) \in Nat /\ Waiting \subseteq 1..Len(ixJob)
  BY DEF SearchTyped, Waiting, IxIds
<1>2. IsFiniteSet(1..Len(ixJob))
  BY <1>1, FS_Interval
<1>3. ASSUME NEW j \in Oldest, NEW k \in Waiting, k < j
      PROVE  k \in Oldest
  <2> DEFINE S == {i \in Waiting : i < k}
             T == {i \in Waiting : i < j}
  <2>1. T \subseteq 1..Len(ixJob) /\ S \subseteq T
    <3>1. j \in Waiting
      BY DEF Oldest
    <3>2. j \in Nat /\ k \in Nat /\ \A i \in Waiting : i \in Nat
      BY <1>1, <3>1
    <3>3. \A i \in Waiting : i < k => i < j
      BY <1>3, <3>2
    <3> QED BY <1>1, <3>3
  <2>2. IsFiniteSet(T)
    <3>1. T \in SUBSET (1..Len(ixJob))
      BY <2>1
    <3> QED BY <1>2, <3>1, FS_Subset
  <2>3. Cardinality(T) < BatchSize
    BY <1>3 DEF Oldest
  <2>4. k \in Waiting
    BY <1>3
  <2> HIDE DEF S, T
  <2>5. IsFiniteSet(S) /\ Cardinality(S) <= Cardinality(T)
    <3>1. S \in SUBSET T
      BY <2>1
    <3> QED BY <2>2, <3>1, FS_Subset
  <2>6. Cardinality(S) \in Nat /\ Cardinality(T) \in Nat
    BY <2>2, <2>5, FS_CardinalityType
  <2>7. Cardinality(S) < BatchSize
    BY <2>3, <2>5, <2>6, SearchAssumption
  <2> QED BY <2>4, <2>7 DEF Oldest, S
<1> QED BY <1>3 DEF Oldest, Waiting

(* A poller takes jobs; whoever has jobs of the same repository is noted.  *)
LEMMA PickJobsStep == ASSUME SearchInv, NEW w \in Indexers, PickJobs(w) PROVE SearchInv'
<1>1. /\ OnStep(w, "poll") /\ Oldest # {} /\ indexer' = [indexer EXCEPT ![w] = [pc |-> "open", batch |-> Oldest]]
      /\ UNCHANGED <<ixJob, docs, ixMeta>>
      /\ overlapped' = overlapped \cup
            {ixJob[j].repo : j \in {i \in Oldest : \E v \in Indexers \ {w} : \E k \in InBatch(v) :
                                                      ixJob[k].repo = ixJob[i].repo}}
  BY DEF PickJobs
<1>2. SearchTyped
  BY DEF SearchInv
<1>3. /\ Oldest \subseteq Waiting /\ Waiting \subseteq IxIds /\ \A j \in Waiting : Waits(j)
      /\ \A j \in Oldest, k \in Waiting : k < j => k \in Oldest
  BY <1>2, OldestIsPrefix
<1>4. PICK picked : picked = Oldest
  OBVIOUS
<1>5. picked \in SUBSET Nat /\ picked \subseteq IxIds
  BY <1>2, <1>3, <1>4 DEF IxIds
<1>6. /\ indexer' \in [Indexers -> Batch]
      /\ InBatch(w)' = picked /\ OnStep(w, "open")' /\ ~OnStep(w, "poll")' /\ ~OnStep(w, "meta")'
      /\ ~OnStep(w, "mark")' /\ \A v \in Indexers : v # w => indexer'[v] = indexer[v]
  <2> DEFINE new == [pc |-> "open", batch |-> picked]
  <2>1. new \in Batch /\ new.pc = "open" /\ new.batch = picked
    BY <1>5 DEF Batch
  <2>2. indexer' = [indexer EXCEPT ![w] = new] /\ indexer \in [Indexers -> Batch]
    BY <1>1, <1>2, <1>4 DEF SearchTyped
  <2> HIDE DEF new
  <2> QED BY <2>1, <2>2 DEF InBatch, OnStep
<1>7. \A v \in Indexers : v # w => InBatch(v)' = InBatch(v)
  BY <1>6 DEF InBatch
<1>8. IxIds' = IxIds /\ (\A j \in IxIds : Waits(j)' <=> Waits(j)) /\ (\A j : Clean(j)' => Clean(j))
  BY <1>1 DEF IxIds, Waits, Clean
<1>9. \A i \in picked, v \in Indexers : v # w /\ Clean(i)' =>
        \A k \in InBatch(v) : ixJob[k].repo # ixJob[i].repo
  BY <1>1, <1>4 DEF Clean
<1>10. overlapped' \subseteq IndexRepos
  <2>1. \A j \in Oldest : ixJob[j].repo \in IndexRepos
    BY <1>2, <1>4, <1>5, JobsTyped DEF IndexJob
  <2> QED BY <1>1, <1>2, <2>1 DEF SearchTyped
<1>11. SearchTyped'
  <2>1. \A v \in Indexers : InBatch(v)' \subseteq IxIds' /\ (OnStep(v, "poll")' <=> InBatch(v)' = {})
    BY <1>1, <1>2, <1>4, <1>5, <1>6, <1>7, <1>8 DEF SearchTyped, OnStep
  <2> QED BY <1>1, <1>2, <1>6, <1>10, <2>1 DEF SearchTyped
<1>12. OneBatch'
  <2> SUFFICES ASSUME NEW u \in Indexers, NEW v \in Indexers, NEW i \in InBatch(u)', NEW j \in InBatch(v)',
                      u # v, Clean(i)'
               PROVE  ixJob[i].repo # ixJob[j].repo
    BY <1>1 DEF OneBatch
  <2>1. CASE u = w
    BY <1>6, <1>7, <1>9, <2>1
  <2>2. CASE v = w /\ u # w
    <3> SUFFICES ASSUME ixJob[i].repo = ixJob[j].repo PROVE FALSE
      OBVIOUS
    <3>1. j \in picked /\ i \in InBatch(u) /\ Clean(j)'
      BY <1>1, <1>6, <1>7, <2>2 DEF Clean
    <3> QED BY <1>9, <2>2, <3>1
  <2>3. CASE u # w /\ v # w
    BY <1>7, <1>8, <2>3 DEF SearchInv, OneBatch
  <2> QED BY <2>1, <2>2, <2>3
<1>13. BatchWaits'
  <2> SUFFICES ASSUME NEW v \in Indexers, NEW i \in InBatch(v)', Clean(i)'
               PROVE  Waits(i) /\ \A k \in IxIds : ixJob[k].repo = ixJob[i].repo /\ Waits(k) /\ k < i
                                                    => k \in InBatch(v)'
    BY <1>1, <1>8, <1>11 DEF BatchWaits, SearchTyped
  <2>1. CASE v = w
    BY <1>3, <1>4, <1>6, <2>1 DEF Waiting
  <2>2. CASE v # w
    BY <1>7, <1>8, <2>2 DEF SearchInv, BatchWaits
  <2> QED BY <2>1, <2>2
<1>14. InPushOrder'
  BY <1>1, <1>8 DEF SearchInv, InPushOrder
<1>15. SearchSound'
  BY <1>1, <1>8 DEF SearchInv, SearchSound
<1>16. \A v \in Indexers : WrittenBy(v)'
  <2> SUFFICES ASSUME NEW v \in Indexers, OnStep(v, "meta")' \/ OnStep(v, "mark")', Clean(Current(v))'
               PROVE  WrittenBy(v)'
    BY DEF WrittenBy
  <2>1. v # w /\ indexer'[v] = indexer[v]
    BY <1>6
  <2>2. Current(v)' = Current(v)
    BY <1>7, <2>1 DEF Current
  <2>3. Clean(Current(v)) /\ (OnStep(v, "meta") \/ OnStep(v, "mark"))
    BY <1>8, <2>1, <2>2 DEF OnStep, Clean
  <2> QED BY <1>1, <2>1, <2>2, <2>3 DEF SearchInv, WrittenBy, OnStep
<1> QED BY <1>11, <1>12, <1>13, <1>14, <1>15, <1>16 DEF SearchInv

(* A step of a poller that leaves the jobs alone and keeps its batch or     *)
(* drops it keeps what is said of batches.                                 *)
LEMMA BatchKept ==
  ASSUME SearchInv, NEW w \in Indexers, NEW new \in Batch, indexer' = [indexer EXCEPT ![w] = new],
         new.batch = InBatch(w) \/ new.batch = {}, new.pc = "poll" <=> new.batch = {},
         UNCHANGED <<ixJob, overlapped>>
  PROVE  /\ indexer' \in [Indexers -> Batch] /\ indexer'[w] = new
         /\ \A v \in Indexers : v # w => indexer'[v] = indexer[v] /\ InBatch(v)' = InBatch(v)
         /\ \A v \in Indexers : InBatch(v)' \subseteq IxIds' /\ (OnStep(v, "poll")' <=> InBatch(v)' = {})
         /\ OneBatch' /\ BatchWaits' /\ InPushOrder'
<1>1. indexer \in [Indexers -> Batch]
  BY DEF SearchInv, SearchTyped
<1>2. indexer' \in [Indexers -> Batch] /\ indexer'[w] = new
      /\ \A v \in Indexers : v # w => indexer'[v] = indexer[v] /\ InBatch(v)' = InBatch(v)
  BY <1>1 DEF InBatch
<1>3. \A v \in Indexers : InBatch(v)' = InBatch(v) \/ InBatch(v)' = {}
  BY <1>2 DEF InBatch
<1>4. \A v \in Indexers : InBatch(v)' \subseteq InBatch(v) /\ InBatch(v) \subseteq IxIds
  BY <1>3 DEF SearchInv, SearchTyped
<1>5. IxIds' = IxIds /\ (\A j \in IxIds : Waits(j)' <=> Waits(j)) /\ (\A j : Clean(j)' <=> Clean(j))
  BY DEF IxIds, Waits, Clean
<1>6. \A v \in Indexers : OnStep(v, "poll")' <=> InBatch(v)' = {}
  <2> SUFFICES ASSUME NEW v \in Indexers PROVE OnStep(v, "poll")' <=> InBatch(v)' = {}
    OBVIOUS
  <2>1. CASE v = w
    BY <1>2, <2>1 DEF OnStep, InBatch
  <2>2. CASE v # w
    BY <1>2, <2>2 DEF OnStep, SearchInv, SearchTyped
  <2> QED BY <2>1, <2>2
<1>7. OneBatch'
  <2> SUFFICES ASSUME NEW u \in Indexers, NEW v \in Indexers, NEW i \in InBatch(u)', NEW j \in InBatch(v)',
                      u # v, Clean(i)'
               PROVE  ixJob[i].repo # ixJob[j].repo
    BY DEF OneBatch
  <2>1. i \in InBatch(u) /\ j \in InBatch(v) /\ Clean(i)
    BY <1>4, <1>5
  <2> QED BY <2>1 DEF SearchInv, OneBatch
<1>8. BatchWaits'
  <2> SUFFICES ASSUME NEW v \in Indexers, NEW i \in InBatch(v)', Clean(i)'
               PROVE  /\ Waits(i)'
                      /\ \A k \in IxIds' : ixJob'[k].repo = ixJob'[i].repo /\ Waits(k)' /\ k < i
                                            => k \in InBatch(v)'
    BY DEF BatchWaits
  <2>1. InBatch(v)' = InBatch(v) /\ i \in InBatch(v) /\ i \in IxIds
    BY <1>3, <1>4
  <2>4. Clean(i)
    BY <1>5
  <2>2. Waits(i) /\ \A k \in IxIds : ixJob[k].repo = ixJob[i].repo /\ Waits(k) /\ k < i => k \in InBatch(v)
    BY <2>1, <2>4 DEF SearchInv, BatchWaits
  <2>3. \A k \in IxIds : Waits(k)' <=> Waits(k)
    BY <1>5
  <2> QED BY <1>5, <2>1, <2>2, <2>3
<1>9. InPushOrder'
  BY <1>5 DEF SearchInv, InPushOrder
<1> QED BY <1>2, <1>4, <1>5, <1>6, <1>7, <1>8, <1>9

(* the record of a poller that goes on to another step of the same job *)
PollerAt(w, pc) == [pc |-> pc, batch |-> InBatch(w)]
LEMMA StepsTo ==
  ASSUME SearchInv, NEW w \in Indexers, NEW pc \in {"open", "write", "meta", "mark", "fail"},
         StepTo(w, pc), ~OnStep(w, "poll")
  PROVE  /\ PollerAt(w, pc) \in Batch /\ indexer' = [indexer EXCEPT ![w] = PollerAt(w, pc)]
         /\ PollerAt(w, pc).batch = InBatch(w) /\ PollerAt(w, pc).pc = pc
         /\ PollerAt(w, pc).pc = "poll" <=> PollerAt(w, pc).batch = {}
         /\ Current(w) \in InBatch(w)
<1>1. indexer \in [Indexers -> Batch] /\ indexer[w] \in Batch /\ InBatch(w) \in SUBSET Nat
  BY JobsTyped DEF SearchInv, SearchTyped
<1>2. Current(w) \in InBatch(w)
  BY CurrentIsLeast DEF SearchInv
<1>3. PollerAt(w, pc) \in Batch /\ PollerAt(w, pc).batch = InBatch(w) /\ PollerAt(w, pc).pc = pc
  BY <1>1 DEF PollerAt, Batch
<1>4. [indexer[w] EXCEPT !.pc = pc] = PollerAt(w, pc)
  BY <1>1 DEF PollerAt, Batch, InBatch
<1>5. indexer' = [indexer EXCEPT ![w] = [indexer[w] EXCEPT !.pc = pc]]
  BY <1>1 DEF StepTo
<1> QED BY <1>2, <1>3, <1>4, <1>5

(* A step of a poller to "write" or "fail", which writes nothing. *)
LEMMA QuietStep ==
  ASSUME SearchInv, NEW w \in Indexers, NEW pc \in {"write", "fail"}, StepTo(w, pc), ~OnStep(w, "poll"),
         UNCHANGED <<ixJob, docs, ixMeta, overlapped>>
  PROVE  SearchInv'
<1>1. PICK new \in Batch : /\ indexer' = [indexer EXCEPT ![w] = new] /\ new.pc = pc
                           /\ new.batch = InBatch(w) /\ (new.pc = "poll" <=> new.batch = {})
  BY StepsTo
<1>2. /\ indexer' \in [Indexers -> Batch] /\ indexer'[w] = new
      /\ \A v \in Indexers : v # w => indexer'[v] = indexer[v] /\ InBatch(v)' = InBatch(v)
      /\ \A v \in Indexers : InBatch(v)' \subseteq IxIds' /\ (OnStep(v, "poll")' <=> InBatch(v)' = {})
      /\ OneBatch' /\ BatchWaits' /\ InPushOrder'
  BY <1>1, BatchKept
<1>3. SearchTyped'
  BY <1>2 DEF SearchInv, SearchTyped
<1>4. SearchSound'
  BY DEF SearchInv, SearchSound, IxIds, Waits
<1>5. \A v \in Indexers : WrittenBy(v)'
  <2> SUFFICES ASSUME NEW v \in Indexers, OnStep(v, "meta")' \/ OnStep(v, "mark")'
               PROVE  WrittenBy(v)'
    BY DEF WrittenBy
  <2>1. v # w
    BY <1>1, <1>2 DEF OnStep
  <2>2. indexer'[v] = indexer[v] /\ Current(v)' = Current(v)
    BY <1>2, <2>1 DEF Current
  <2> QED BY <2>2 DEF SearchInv, WrittenBy, OnStep, Clean
<1> QED BY <1>2, <1>3, <1>4, <1>5 DEF SearchInv

LEMMA OpenWriterStep == ASSUME SearchInv, NEW w \in Indexers, OpenWriter(w) PROVE SearchInv'
<1>1. ~OnStep(w, "poll") /\ UNCHANGED <<ixJob, docs, ixMeta, overlapped>>
      /\ (StepTo(w, "write") \/ StepTo(w, "fail"))
  BY DEF OpenWriter, OnStep
<1> QED BY <1>1, QuietStep

(* What a poller writes is of a repository that, when it is clean, has a     *)
(* job that waits and that no other poller has a job of.                   *)
LEMMA WritesOfItsOwn ==
  ASSUME SearchInv, NEW w \in Indexers, ~OnStep(w, "poll"), Clean(Current(w))
  PROVE  /\ Waits(Current(w))
         /\ \A v \in Indexers : v # w /\ ~OnStep(v, "poll") =>
              ixJob[Current(v)].repo # ixJob[Current(w)].repo
<1>1. Current(w) \in InBatch(w)
  BY CurrentIsLeast DEF SearchInv
<1>2. \A v \in Indexers : ~OnStep(v, "poll") => Current(v) \in InBatch(v)
  BY CurrentIsLeast DEF SearchInv
<1> QED BY <1>1, <1>2 DEF SearchInv, BatchWaits, OneBatch

LEMMA CommitDocsStep == ASSUME SearchInv, NEW w \in Indexers, CommitDocs(w) PROVE SearchInv'
<1>1. ~OnStep(w, "poll") /\ UNCHANGED <<ixJob, ixMeta, overlapped>>
  BY DEF CommitDocs, OnStep
<1>2. CASE StepTo(w, "fail") /\ UNCHANGED docs
  BY <1>1, <1>2, QuietStep
<1>3. CASE StepTo(w, "meta") /\ docs' = [docs EXCEPT ![ixJob[Current(w)].repo] = {Current(w)}]
  <2> DEFINE c == Current(w)
             r == ixJob[Current(w)].repo
  <2>1. PICK new \in Batch : /\ indexer' = [indexer EXCEPT ![w] = new] /\ new.pc = "meta"
                             /\ new.batch = InBatch(w) /\ (new.pc = "poll" <=> new.batch = {})
    BY <1>1, <1>3, StepsTo
  <2>2. /\ indexer' \in [Indexers -> Batch] /\ indexer'[w] = new
        /\ \A v \in Indexers : v # w => indexer'[v] = indexer[v] /\ InBatch(v)' = InBatch(v)
        /\ \A v \in Indexers : InBatch(v)' \subseteq IxIds' /\ (OnStep(v, "poll")' <=> InBatch(v)' = {})
        /\ OneBatch' /\ BatchWaits' /\ InPushOrder'
    BY <1>1, <2>1, BatchKept
  <2>3. c \in IxIds /\ c \in Nat /\ r \in IndexRepos
    BY <1>1, CurrentIsLeast, JobsTyped DEF SearchInv, IndexJob
  <2>4. docs' \in [IndexRepos -> SUBSET Nat] /\ docs'[r] = {c} /\ \A x \in IndexRepos : x # r => docs'[x] = docs[x]
    BY <1>3, <2>3 DEF SearchInv, SearchTyped
  <2>5. SearchTyped'
    BY <1>1, <2>2, <2>4 DEF SearchInv, SearchTyped
  <2>6. r \notin overlapped => Waits(c)
    BY <1>1, WritesOfItsOwn DEF Clean
  <2>7. SearchSound'
    <3> SUFFICES ASSUME NEW x \in IndexRepos \ overlapped, NEW j \in IxIds,
                        ixJob[j] = [repo |-> x, state |-> "indexed"],
                        \A i \in IxIds : i > j => ixJob[i].repo # x,
                        \A i \in IxIds : ixJob[i].repo = x => ~Waits(i)
                 PROVE  docs'[x] = {j} /\ ixMeta[x] = j
      BY <1>1 DEF SearchSound, IxIds, Waits
    <3>1. x # r
      BY <2>3, <2>6
    <3> HIDE DEF r
    <3> QED BY <2>4, <3>1 DEF SearchInv, SearchSound
  <2>8. \A v \in Indexers : WrittenBy(v)'
    <3> SUFFICES ASSUME NEW v \in Indexers, OnStep(v, "meta")' \/ OnStep(v, "mark")', Clean(Current(v))'
                 PROVE  WrittenBy(v)'
      BY DEF WrittenBy
    <3>1. Current(v)' = Current(v)
      <4>1. InBatch(v)' = InBatch(v)
        BY <2>1, <2>2 DEF InBatch
      <4> QED BY <4>1 DEF Current
    <3>2. CASE v = w
      BY <1>1, <2>1, <2>2, <2>4, <3>1, <3>2 DEF WrittenBy, OnStep
    <3>3. CASE v # w
      <4>1. OnStep(v, "meta") \/ OnStep(v, "mark")
        BY <2>2, <3>3 DEF OnStep
      <4>2. Clean(Current(v)) /\ ~OnStep(v, "poll")
        BY <1>1, <3>1, <4>1 DEF OnStep, Clean
      <4>3. ixJob[Current(v)].repo # r /\ ixJob[Current(v)].repo \in IndexRepos
        <5>1. Current(v) \in IxIds /\ ixJob[Current(v)] \in IndexJob
          BY <4>2, CurrentIsLeast DEF SearchInv
        <5> QED BY <1>1, <3>3, <4>2, <5>1, WritesOfItsOwn DEF IndexJob
      <4>4. docs'[ixJob[Current(v)].repo] = docs[ixJob[Current(v)].repo]
        BY <2>4, <4>3
      <4> QED BY <1>1, <2>2, <3>1, <3>3, <4>1, <4>2, <4>4 DEF SearchInv, WrittenBy, OnStep
    <3> QED BY <3>2, <3>3
  <2> QED BY <2>2, <2>5, <2>7, <2>8 DEF SearchInv
<1> QED BY <1>2, <1>3 DEF CommitDocs

LEMMA WriteIndexMetaStep == ASSUME SearchInv, NEW w \in Indexers, WriteIndexMeta(w) PROVE SearchInv'
<1>1. ~OnStep(w, "poll") /\ OnStep(w, "meta") /\ UNCHANGED <<ixJob, docs, overlapped>>
  BY DEF WriteIndexMeta, OnStep
<1>2. CASE StepTo(w, "fail") /\ UNCHANGED ixMeta
  BY <1>1, <1>2, QuietStep
<1>3. CASE StepTo(w, "mark") /\ ixMeta' = [ixMeta EXCEPT ![ixJob[Current(w)].repo] = Current(w)]
  <2> DEFINE c == Current(w)
             r == ixJob[Current(w)].repo
  <2>1. PICK new \in Batch : /\ indexer' = [indexer EXCEPT ![w] = new] /\ new.pc = "mark"
                             /\ new.batch = InBatch(w) /\ (new.pc = "poll" <=> new.batch = {})
    BY <1>1, <1>3, StepsTo
  <2>2. /\ indexer' \in [Indexers -> Batch] /\ indexer'[w] = new
        /\ \A v \in Indexers : v # w => indexer'[v] = indexer[v] /\ InBatch(v)' = InBatch(v)
        /\ \A v \in Indexers : InBatch(v)' \subseteq IxIds' /\ (OnStep(v, "poll")' <=> InBatch(v)' = {})
        /\ OneBatch' /\ BatchWaits' /\ InPushOrder'
    BY <1>1, <2>1, BatchKept
  <2>3. c \in IxIds /\ c \in Nat /\ r \in IndexRepos
    BY <1>1, CurrentIsLeast, JobsTyped DEF SearchInv, IndexJob
  <2>4. ixMeta' \in [IndexRepos -> Nat] /\ ixMeta'[r] = c /\ \A x \in IndexRepos : x # r => ixMeta'[x] = ixMeta[x]
    BY <1>3, <2>3 DEF SearchInv, SearchTyped
  <2>5. SearchTyped'
    BY <1>1, <2>2, <2>4 DEF SearchInv, SearchTyped
  <2>6. r \notin overlapped => Waits(c)
    BY <1>1, WritesOfItsOwn DEF Clean
  <2>7. SearchSound'
    <3> SUFFICES ASSUME NEW x \in IndexRepos \ overlapped, NEW j \in IxIds,
                        ixJob[j] = [repo |-> x, state |-> "indexed"],
                        \A i \in IxIds : i > j => ixJob[i].repo # x,
                        \A i \in IxIds : ixJob[i].repo = x => ~Waits(i)
                 PROVE  docs[x] = {j} /\ ixMeta'[x] = j
      BY <1>1 DEF SearchSound, IxIds, Waits
    <3>1. x # r
      BY <2>3, <2>6
    <3> HIDE DEF r
    <3> QED BY <2>4, <3>1 DEF SearchInv, SearchSound
  <2>8. \A v \in Indexers : WrittenBy(v)'
    <3> SUFFICES ASSUME NEW v \in Indexers, OnStep(v, "meta")' \/ OnStep(v, "mark")', Clean(Current(v))'
                 PROVE  WrittenBy(v)'
      BY DEF WrittenBy
    <3>1. Current(v)' = Current(v)
      <4>1. InBatch(v)' = InBatch(v)
        BY <2>1, <2>2 DEF InBatch
      <4> QED BY <4>1 DEF Current
    <3>2. CASE v = w
      <4>1. docs[r] = {c}
        BY <1>1, <3>1, <3>2 DEF SearchInv, WrittenBy, Clean
      <4> QED BY <1>1, <2>4, <3>1, <3>2, <4>1 DEF WrittenBy
    <3>3. CASE v # w
      <4>1. OnStep(v, "meta") \/ OnStep(v, "mark")
        BY <2>2, <3>3 DEF OnStep
      <4>2. Clean(Current(v)) /\ ~OnStep(v, "poll")
        BY <1>1, <3>1, <4>1 DEF OnStep, Clean
      <4>3. ixJob[Current(v)].repo # r /\ ixJob[Current(v)].repo \in IndexRepos
        <5>1. Current(v) \in IxIds /\ ixJob[Current(v)] \in IndexJob
          BY <4>2, CurrentIsLeast DEF SearchInv
        <5> QED BY <1>1, <3>3, <4>2, <5>1, WritesOfItsOwn DEF IndexJob, Clean
      <4>4. ixMeta'[ixJob[Current(v)].repo] = ixMeta[ixJob[Current(v)].repo]
        BY <2>4, <4>3
      <4> QED BY <1>1, <2>2, <3>1, <3>3, <4>1, <4>2, <4>4 DEF SearchInv, WrittenBy, OnStep
    <3> QED BY <3>2, <3>3
  <2> QED BY <2>2, <2>5, <2>7, <2>8 DEF SearchInv
<1> QED BY <1>2, <1>3 DEF WriteIndexMeta


(* The poller drops its batch: the statement failed, or the process ended. *)
LEMMA DropsBatch ==
  ASSUME SearchInv, NEW w \in Indexers, indexer' = [indexer EXCEPT ![w] = NoBatch],
         UNCHANGED <<ixJob, docs, ixMeta, overlapped>>
  PROVE  SearchInv'
<1>1. NoBatch \in Batch /\ NoBatch.batch = {} /\ NoBatch.pc = "poll"
  BY DEF NoBatch, Batch
<1>2. /\ indexer' \in [Indexers -> Batch] /\ indexer'[w] = NoBatch
      /\ \A v \in Indexers : v # w => indexer'[v] = indexer[v] /\ InBatch(v)' = InBatch(v)
      /\ \A v \in Indexers : InBatch(v)' \subseteq IxIds' /\ (OnStep(v, "poll")' <=> InBatch(v)' = {})
      /\ OneBatch' /\ BatchWaits' /\ InPushOrder'
  BY <1>1, BatchKept
<1>3. SearchTyped'
  BY <1>2 DEF SearchInv, SearchTyped
<1>4. SearchSound'
  BY DEF SearchInv, SearchSound, IxIds, Waits
<1>5. \A v \in Indexers : WrittenBy(v)'
  <2> SUFFICES ASSUME NEW v \in Indexers, OnStep(v, "meta")' \/ OnStep(v, "mark")'
               PROVE  WrittenBy(v)'
    BY DEF WrittenBy
  <2>1. v # w
    BY <1>1, <1>2 DEF OnStep
  <2>2. indexer'[v] = indexer[v] /\ Current(v)' = Current(v)
    BY <1>2, <2>1 DEF Current
  <2> QED BY <2>2 DEF SearchInv, WrittenBy, OnStep, Clean
<1> QED BY <1>2, <1>3, <1>4, <1>5 DEF SearchInv

(* A job is processed, and leaves the batch: of the jobs of a clean         *)
(* repository that wait it was the oldest.                                 *)
LEMMA ProcessedStep ==
  ASSUME SearchInv, NEW w \in Indexers, OnStep(w, "mark") \/ OnStep(w, "fail"),
         NEW st \in {"indexed", "failed"}, st = "indexed" => OnStep(w, "mark"),
         ixJob' = [ixJob EXCEPT ![Current(w)].state = st],
         indexer' = [indexer EXCEPT ![w] = IF @.batch = {Current(w)} THEN NoBatch
                                           ELSE [pc |-> "open", batch |-> @.batch \ {Current(w)}]],
         UNCHANGED <<docs, ixMeta, overlapped>>
  PROVE  SearchInv'
<1>1. ~OnStep(w, "poll") /\ SearchTyped
  BY DEF OnStep, SearchInv
<1>2. PICK c : c = Current(w)
  OBVIOUS
<1>3. /\ c \in InBatch(w) /\ c \in IxIds /\ c \in Nat /\ ixJob[c] \in IndexJob
      /\ \A i \in InBatch(w) : c <= i
  BY <1>1, <1>2, CurrentIsLeast, JobsTyped
<1>4. PICK done \in IndexJob : done.repo = ixJob[c].repo /\ done.state = st /\ ixJob' = [ixJob EXCEPT ![c] = done]
  <2> DEFINE entry == [repo |-> ixJob[c].repo, state |-> st]
  <2>1. entry \in IndexJob /\ entry.repo = ixJob[c].repo /\ entry.state = st /\ entry = [ixJob[c] EXCEPT !.state = st]
    BY <1>3 DEF IndexJob
  <2>2. ixJob' = [ixJob EXCEPT ![c] = [ixJob[c] EXCEPT !.state = st]]
    BY <1>2
  <2> QED BY <2>1, <2>2
<1>5. /\ ixJob' \in Seq(IndexJob) /\ IxIds' = IxIds /\ ixJob'[c] = done
      /\ \A j \in IxIds : j # c => ixJob'[j] = ixJob[j]
  <2>1. ixJob \in Seq(IndexJob) /\ Len(ixJob) \in Nat /\ c \in 1..Len(ixJob)
    BY <1>1, <1>3 DEF SearchTyped, IxIds
  <2>2. /\ ixJob' \in Seq(IndexJob) /\ Len(ixJob') = Len(ixJob) /\ ixJob'[c] = done
        /\ \A j \in 1..Len(ixJob) : j # c => ixJob'[j] = ixJob[j]
    <3>1. \A x \in IndexJob : [ixJob EXCEPT ![c] = x] \in Seq(IndexJob)
      BY <2>1
    <3>2. \A x \in IndexJob : Len([ixJob EXCEPT ![c] = x]) = Len(ixJob)
      BY <2>1
    <3>3. DOMAIN ixJob = 1..Len(ixJob) /\ ixJob \in [1..Len(ixJob) -> IndexJob]
      BY <2>1
    <3>4. PICK D : D = 1..Len(ixJob)
      OBVIOUS
    <3>5. ixJob \in [D -> IndexJob] /\ c \in D
      BY <2>1, <3>3, <3>4
    <3>6. ixJob'[c] = done /\ \A j \in D : j # c => ixJob'[j] = ixJob[j]
      BY <1>4, <3>5
    <3>7. ixJob' \in Seq(IndexJob)
      BY <1>4, <3>1
    <3>8. Len(ixJob') = Len(ixJob)
      BY <1>4, <3>2
    <3> QED BY <3>4, <3>6, <3>7, <3>8
  <2> QED BY <2>2 DEF IxIds
<1>6. /\ \A j \in IxIds : ixJob'[j].repo = ixJob[j].repo /\ (Waits(j)' <=> Waits(j) /\ j # c)
      /\ \A j \in IxIds : Clean(j)' <=> Clean(j)
  <2>1. \A j \in IxIds : ixJob'[j].repo = ixJob[j].repo
    BY <1>4, <1>5
  <2>2. \A j \in IxIds : Waits(j)' <=> Waits(j) /\ j # c
    BY <1>4, <1>5 DEF Waits
  <2> QED BY <2>1, <2>2 DEF Clean
<1>7. PICK left : left = InBatch(w) \ {c}
  OBVIOUS
<1>8. PICK new \in Batch : /\ indexer' = [indexer EXCEPT ![w] = new] /\ new.batch = left
                           /\ new.pc \in {"poll", "open"} /\ (new.pc = "poll" <=> left = {})
  <2>1. left \in SUBSET Nat
    BY <1>1, <1>7, JobsTyped
  <2>2. CASE InBatch(w) = {c}
    <3>1. indexer' = [indexer EXCEPT ![w] = NoBatch] /\ left = {}
      BY <1>2, <1>7, <2>2 DEF InBatch
    <3>2. NoBatch \in Batch /\ NoBatch.batch = {} /\ NoBatch.pc = "poll"
      BY DEF NoBatch, Batch
    <3> QED BY <3>1, <3>2
  <2>3. CASE InBatch(w) # {c}
    <3> DEFINE rest == [pc |-> "open", batch |-> left]
    <3>1. indexer' = [indexer EXCEPT ![w] = rest] /\ left # {}
      BY <1>2, <1>3, <1>7, <2>3 DEF InBatch
    <3>2. rest \in Batch /\ rest.batch = left /\ rest.pc = "open"
      BY <2>1 DEF Batch
    <3> QED BY <3>1, <3>2
  <2> QED BY <2>2, <2>3
<1>9. /\ indexer' \in [Indexers -> Batch] /\ indexer'[w] = new /\ InBatch(w)' = left
      /\ \A v \in Indexers : v # w => indexer'[v] = indexer[v] /\ InBatch(v)' = InBatch(v)
  BY <1>1, <1>8 DEF SearchTyped, InBatch
<1>10. \A v \in Indexers : InBatch(v)' \subseteq InBatch(v) /\ InBatch(v) \subseteq IxIds
  BY <1>1, <1>7, <1>9 DEF SearchTyped
<1>11. SearchTyped'
  <2>1. \A v \in Indexers : OnStep(v, "poll")' <=> InBatch(v)' = {}
    <3> SUFFICES ASSUME NEW v \in Indexers PROVE OnStep(v, "poll")' <=> InBatch(v)' = {}
      OBVIOUS
    <3>1. CASE v = w
      BY <1>8, <1>9, <3>1 DEF OnStep
    <3>2. CASE v # w
      BY <1>1, <1>9, <3>2 DEF OnStep, SearchTyped
    <3> QED BY <3>1, <3>2
  <2>2. \A v \in Indexers : InBatch(v)' \subseteq IxIds'
    BY <1>5, <1>10
  <2> QED BY <1>1, <1>5, <1>9, <2>1, <2>2 DEF SearchTyped
<1>12. OneBatch'
  <2> SUFFICES ASSUME NEW u \in Indexers, NEW v \in Indexers, NEW i \in InBatch(u)', NEW j \in InBatch(v)',
                      u # v, Clean(i)'
               PROVE  ixJob'[i].repo # ixJob'[j].repo
    BY DEF OneBatch
  <2>1. i \in InBatch(u) /\ j \in InBatch(v) /\ i \in IxIds /\ j \in IxIds
    BY <1>10
  <2>2. Clean(i) /\ ixJob'[i].repo = ixJob[i].repo /\ ixJob'[j].repo = ixJob[j].repo
    BY <1>6, <2>1
  <2>3. ixJob[i].repo # ixJob[j].repo
    BY <2>1, <2>2 DEF SearchInv, OneBatch
  <2> QED BY <2>2, <2>3
<1>13. BatchWaits'
  <2> SUFFICES ASSUME NEW v \in Indexers, NEW i \in InBatch(v)', Clean(i)'
               PROVE  /\ Waits(i)'
                      /\ \A k \in IxIds' : ixJob'[k].repo = ixJob'[i].repo /\ Waits(k)' /\ k < i
                                            => k \in InBatch(v)'
    BY DEF BatchWaits
  <2>1. i \in InBatch(v) /\ i \in IxIds /\ Clean(i)
    BY <1>6, <1>10
  <2>2. Waits(i) /\ \A k \in IxIds : ixJob[k].repo = ixJob[i].repo /\ Waits(k) /\ k < i => k \in InBatch(v)
    BY <2>1 DEF SearchInv, BatchWaits
  <2>3. i # c
    <3>1. CASE v = w
      BY <1>7, <1>9, <3>1
    <3>2. CASE v # w
      BY <1>3, <2>1, <3>2 DEF SearchInv, OneBatch
    <3> QED BY <3>1, <3>2
  <2>4. ASSUME NEW k \in IxIds, ixJob[k].repo = ixJob[i].repo, Waits(k), k < i, k # c
        PROVE  k \in InBatch(v)'
    BY <1>7, <1>9, <2>2, <2>4
  <2> QED BY <1>5, <1>6, <2>1, <2>2, <2>3, <2>4
<1>14. \A k \in IxIds : Clean(c) /\ ixJob[k].repo = ixJob[c].repo /\ Waits(k) => c <= k
  <2> SUFFICES ASSUME NEW k \in IxIds, Clean(c), ixJob[k].repo = ixJob[c].repo, Waits(k), ~(c <= k)
               PROVE  FALSE
    OBVIOUS
  <2>1. k < c
    BY <1>1, <1>3, JobsTyped
  <2>2. k \in InBatch(w)
    BY <1>3, <2>1 DEF SearchInv, BatchWaits
  <2> QED BY <1>3, <2>2
<1>15. InPushOrder'
  <2> SUFFICES ASSUME NEW i \in IxIds, NEW k \in IxIds, Clean(i)', ixJob'[i].repo = ixJob'[k].repo,
                      ~Waits(i)', Waits(k)'
               PROVE  i < k
    BY <1>5 DEF InPushOrder
  <2>1. Clean(i) /\ ixJob[i].repo = ixJob[k].repo /\ Waits(k) /\ k # c /\ k \in Nat
    BY <1>1, <1>6, JobsTyped
  <2>2. CASE i = c
    BY <1>3, <1>14, <2>1, <2>2
  <2>3. CASE i # c
    BY <1>6, <2>1, <2>3 DEF SearchInv, InPushOrder
  <2> QED BY <2>2, <2>3
<1>16. SearchSound'
  <2> SUFFICES ASSUME NEW x \in IndexRepos \ overlapped, NEW j \in IxIds,
                      ixJob'[j] = [repo |-> x, state |-> "indexed"],
                      \A i \in IxIds : i > j => ixJob'[i].repo # x,
                      \A i \in IxIds : ixJob'[i].repo = x => ~Waits(i)'
               PROVE  docs[x] = {j} /\ ixMeta[x] = j
    BY <1>5 DEF SearchSound
  <2>1. ixJob'[j].repo = x /\ ixJob'[j].state = "indexed" /\ ixJob[j].repo = x
    BY <1>6
  <2>2. CASE j = c
    <3>1. OnStep(w, "mark") /\ Clean(c)
      BY <1>4, <1>5, <2>1, <2>2 DEF Clean
    <3> QED BY <1>2, <2>1, <2>2, <3>1 DEF SearchInv, WrittenBy
  <2>3. CASE j # c
    <3>1. ixJob[j] = [repo |-> x, state |-> "indexed"] /\ ~Waits(j) /\ Clean(j)
      BY <1>5, <2>1, <2>3 DEF Waits, Clean
    <3>2. ixJob[c].repo # x
      <4> SUFFICES ASSUME ixJob[c].repo = x PROVE FALSE
        OBVIOUS
      <4>1. Waits(c)
        BY <1>1, <1>2, WritesOfItsOwn DEF Clean
      <4>2. j < c
        BY <1>3, <2>1, <3>1, <4>1 DEF SearchInv, InPushOrder
      <4>3. c > j
        BY <1>1, <1>3, <4>2, JobsTyped
      <4> QED BY <1>3, <1>6, <4>3
    <3>3. \A i \in IxIds : i > j => ixJob[i].repo # x
      BY <1>6
    <3>4. \A i \in IxIds : ixJob[i].repo = x => ~Waits(i)
      BY <1>6, <3>2
    <3> QED BY <3>1, <3>3, <3>4 DEF SearchInv, SearchSound
  <2> QED BY <2>2, <2>3
<1>17. \A v \in Indexers : WrittenBy(v)'
  <2> SUFFICES ASSUME NEW v \in Indexers, OnStep(v, "meta")' \/ OnStep(v, "mark")', Clean(Current(v))'
               PROVE  WrittenBy(v)'
    BY DEF WrittenBy
  <2>1. v # w
    BY <1>8, <1>9 DEF OnStep
  <2>2. indexer'[v] = indexer[v] /\ Current(v)' = Current(v)
    BY <1>9, <2>1 DEF Current
  <2>3. ~OnStep(v, "poll")
    BY <2>2 DEF OnStep
  <2>4. Current(v) \in IxIds
    BY <1>1, <2>3, CurrentIsLeast
  <2>5. Clean(Current(v)) /\ ixJob'[Current(v)].repo = ixJob[Current(v)].repo
    BY <1>6, <2>2, <2>4
  <2> QED BY <2>2, <2>5 DEF SearchInv, WrittenBy, OnStep
<1> QED BY <1>11, <1>12, <1>13, <1>15, <1>16, <1>17 DEF SearchInv

LEMMA MarkProcessedStep == ASSUME SearchInv, NEW w \in Indexers, MarkProcessed(w) PROVE SearchInv'
<1>1. (OnStep(w, "mark") \/ OnStep(w, "fail")) /\ UNCHANGED <<docs, ixMeta, overlapped>>
  BY DEF MarkProcessed
<1>2. CASE /\ ixJob' = [ixJob EXCEPT ![Current(w)].state = IF OnStep(w, "mark") THEN "indexed" ELSE "failed"]
           /\ indexer' = [indexer EXCEPT ![w] = IF @.batch = {Current(w)} THEN NoBatch
                                                ELSE [pc |-> "open", batch |-> @.batch \ {Current(w)}]]
  <2>1. PICK st : st = IF OnStep(w, "mark") THEN "indexed" ELSE "failed"
    OBVIOUS
  <2>2. st \in {"indexed", "failed"} /\ (st = "indexed" => OnStep(w, "mark"))
        /\ ixJob' = [ixJob EXCEPT ![Current(w)].state = st]
    BY <1>2, <2>1
  <2> QED BY <1>1, <1>2, <2>2, ProcessedStep
<1>3. CASE indexer' = [indexer EXCEPT ![w] = NoBatch] /\ UNCHANGED ixJob
  BY <1>1, <1>3, DropsBatch
<1> QED BY <1>2, <1>3 DEF MarkProcessed

LEMMA IndexerRestartsStep == ASSUME SearchInv, NEW w \in Indexers, IndexerRestarts(w) PROVE SearchInv'
BY DropsBatch DEF IndexerRestarts

LEMMA SearchStep == SearchInv /\ [SearchNext]_searchVars => SearchInv'
<1> SUFFICES ASSUME SearchInv, [SearchNext]_searchVars PROVE SearchInv'
  OBVIOUS
<1>1. CASE UNCHANGED searchVars
  <2>1. UNCHANGED <<ixJob, docs, ixMeta, indexer, overlapped>>
    BY <1>1 DEF searchVars
  <2>2. SearchTyped' /\ OneBatch' /\ BatchWaits' /\ InPushOrder'
    BY <2>1 DEF SearchInv, SearchTyped, OneBatch, BatchWaits, InPushOrder, Clean, InBatch, OnStep, Waits, IxIds
  <2>3. SearchSound'
    BY <2>1 DEF SearchInv, SearchSound, Waits, IxIds
  <2>4. \A w \in Indexers : WrittenBy(w)'
    <3>1. \A w \in Indexers : Current(w)' = Current(w)
      BY <2>1 DEF Current, InBatch
    <3> QED BY <2>1, <3>1 DEF SearchInv, WrittenBy, Clean, OnStep
  <2> QED BY <2>2, <2>3, <2>4 DEF SearchInv
<1>2. ASSUME NEW r \in IndexRepos, Enqueue(r) PROVE SearchInv'
  BY <1>2, EnqueueStep
<1>3. ASSUME NEW w \in Indexers, Index(w) \/ IndexerRestarts(w) PROVE SearchInv'
  BY <1>3, PickJobsStep, OpenWriterStep, CommitDocsStep, WriteIndexMetaStep, MarkProcessedStep,
       IndexerRestartsStep DEF Index
<1> QED BY <1>1, <1>2, <1>3 DEF SearchNext

(* When nothing of a repository waits, the index and the row about it hold  *)
(* the branch that was pushed last, unless its job failed or two pollers    *)
(* had jobs of the repository at a time (worker/src/search.rs).            *)
THEOREM SearchIsSound == SearchSpec => []SearchSound
<1>1. SearchInit => SearchInv
  BY SearchInitially
<1>2. SearchInv /\ [SearchNext]_searchVars => SearchInv'
  BY SearchStep
<1>3. SearchInv => SearchSound
  BY DEF SearchInv
<1> QED BY <1>1, <1>2, <1>3, PTL DEF SearchSpec

-----------------------------------------------------------------------------
(***************************************************************************)
(* ArtifactsSound for any script, any number of runner processes, claims    *)
(* and faults.                                                             *)
(***************************************************************************)
ShellRow == [pc : {"idle", "checkout", "next", "run", "check", "put", "insert", "finish"},
             try : 0..MaxTries, at : 1..(Len(Script) + 1), stop : BOOLEAN,
             end : {"success", "failure", "cancelled"}]
NamesOf(stored) == {a.name : a \in stored}
UploadNames == {NameAt(i) : i \in Uploads}
Removal == [pc : {"idle", "keys", "unlink", "dkeys", "dunlink"}, keys : SUBSET UploadNames]

(* What a process is at: a step of the kind that its pc says, and "success"*)
(* only after the last.                                                    *)
AtStep(p) ==
  /\ Executing(p) => shell[p].try >= 1
  /\ ShellAt(p, "run") => shell[p].at <= Len(Script) /\ shell[p].at \notin Uploads
  /\ shell[p].pc \in {"check", "put", "insert"} => shell[p].at \in Uploads
  /\ ShellAt(p, "finish") /\ shell[p].end = "success" => shell[p].at > Len(Script)

(* As long as no removal meets an execution: one process executes the job,  *)
(* under its last claim, and none while files and rows are removed,        *)
OneExecution ==
  \A p \in Shells : Executing(p) =>
    /\ \A q \in Shells : Executing(q) => p = q
    /\ shell[p].try = ciJob.try /\ ciJob.st # "gone"
    /\ remover.pc \in {"idle", "keys", "dkeys"} /\ (ciJob.st = "queued" => remover.pc = "keys")
(* a row that was reset is queued, or cancelled, until its removal is over, *)
ResetWaits == remover.pc \in {"keys", "unlink"} => ciJob.st \in {"queued", "cancelled"}
(* the uploads of the steps that are behind have their rows,               *)
BehindIsStored ==
  \A p \in Shells : Executing(p) =>
    \A i \in Uploads : i < shell[p].at => Artifact(i, shell[p].try) \in artifactRows
SuccessIsStored == ciJob.st = "success" => \A i \in Uploads : Artifact(i, ciJob.try) \in artifactRows
(* and the files are those of the rows, of the upload between its file and  *)
(* its row, and in a removal those that are left to remove.                *)
Arriving == {NameAt(shell[p].at) : p \in {q \in Shells : ShellAt(q, "insert")}}
FilesAgree ==
  IF remover.pc \in {"unlink", "dunlink"} THEN artifactFiles = remover.keys
  ELSE artifactFiles = NamesOf(artifactRows) \cup Arriving

TidyInv == OneExecution /\ ResetWaits /\ BehindIsStored /\ SuccessIsStored /\ FilesAgree
JobInv == /\ JobTypeOK /\ \A p \in Shells : AtStep(p)
          /\ ~untidy => TidyInv

LEMMA ScriptTyped ==
  /\ Len(Script) \in Nat /\ Uploads \subseteq 1..Len(Script)
  /\ \A i \in 1..Len(Script) : i \notin Uploads <=> Script[i].kind = "run"
BY ScriptAssumption DEF Uploads

LEMMA JobTyped ==
  ASSUME JobTypeOK
  PROVE  /\ ciJob \in [st : Statuses, try : 0..MaxTries, overdue : BOOLEAN]
         /\ shell \in [Shells -> ShellRow] /\ \A p \in Shells : shell[p] \in ShellRow
         /\ artifactFiles \subseteq UploadNames /\ remover.keys \subseteq UploadNames
         /\ remover \in Removal /\ remover.pc \in {"idle", "keys", "unlink", "dkeys", "dunlink"}
         /\ untidy \in BOOLEAN /\ jobFaults \in Nat /\ MaxJobFaults \in Nat /\ MaxTries \in Nat
         /\ jobFaults <= MaxJobFaults
         /\ \A a \in artifactRows : a.at \in Uploads /\ a.name = NameAt(a.at) /\ a.try \in 1..MaxTries
BY ScriptAssumption DEF JobTypeOK, ShellRow, UploadNames, Removal

LEMMA JobSound == JobInv => ArtifactsSound
<1> SUFFICES ASSUME JobInv, ~untidy PROVE HasItsArtifacts /\ FilesOfRows
  BY DEF ArtifactsSound
<1>1. TidyInv
  BY DEF JobInv
<1>2. HasItsArtifacts
  BY <1>1 DEF TidyInv, SuccessIsStored, HasItsArtifacts
<1>3. FilesOfRows
  BY <1>1 DEF TidyInv, FilesAgree, Arriving, NamesOf, FilesOfRows
<1> QED BY <1>2, <1>3

LEMMA JobInitially == JobInit => JobInv
<1> SUFFICES ASSUME JobInit PROVE JobInv
  OBVIOUS
<1>1. Resting \in ShellRow /\ Resting.pc = "idle"
  BY ScriptTyped, ScriptAssumption DEF Resting, ShellRow
<1>2. shell \in [Shells -> ShellRow] /\ \A p \in Shells : shell[p].pc = "idle"
  BY <1>1 DEF JobInit
<1>3. ciJob \in [st : Statuses, try : 0..MaxTries, overdue : BOOLEAN] /\ ciJob.st = "queued"
  <2>1. 0 \in 0..MaxTries
    BY ScriptAssumption
  <2>2. ciJob = [st |-> "queued", try |-> 0, overdue |-> FALSE]
    BY DEF JobInit
  <2> QED BY <2>1, <2>2 DEF Statuses
<1>4. remover.pc = "idle" /\ remover.keys = {} /\ artifactFiles = {} /\ artifactRows = {}
  BY DEF JobInit, NoRemoval
<1>5. JobTypeOK
  <2>1. shell \in [Shells -> ShellRow]
    BY <1>2
  <2>2. untidy \in BOOLEAN /\ jobFaults \in 0..MaxJobFaults
    <3>1. untidy = FALSE /\ jobFaults = 0
      BY DEF JobInit
    <3>2. 0 \in 0..MaxJobFaults
      BY ScriptAssumption
    <3> QED BY <3>1, <3>2
  <2>3. artifactFiles \subseteq {NameAt(i) : i \in Uploads}
    BY <1>4
  <2>4. \A a \in artifactRows : a.at \in Uploads /\ a.name = NameAt(a.at) /\ a.try \in 1..MaxTries
    BY <1>4
  <2>5. remover \in Removal
    BY DEF JobInit, NoRemoval, Removal
  <2> QED BY <1>3, <2>1, <2>2, <2>3, <2>4, <2>5 DEF JobTypeOK, ShellRow, Removal, UploadNames
<1>6. \A p \in Shells : AtStep(p)
  BY <1>2 DEF AtStep, Executing, ShellAt
<1>7. TidyInv
  BY <1>2, <1>3, <1>4 DEF TidyInv, OneExecution, ResetWaits, BehindIsStored, SuccessIsStored, FilesAgree,
     Executing, NamesOf, Arriving, ShellAt
<1> QED BY <1>5, <1>6, <1>7 DEF JobInv

(* The record of a process after it has moved. *)
LEMMA ShellToTyped ==
  ASSUME JobTypeOK, NEW p \in Shells,
         NEW pc \in {"checkout", "next", "run", "check", "put", "insert", "finish"}, ShellTo(p, pc)
  PROVE  /\ shell' \in [Shells -> ShellRow] /\ \A q \in Shells : q # p => shell'[q] = shell[q]
         /\ shell'[p].pc = pc /\ shell'[p].try = shell[p].try /\ shell'[p].at = shell[p].at
         /\ shell'[p].end = shell[p].end /\ shell'[p].stop = shell[p].stop
<1>1. shell \in [Shells -> ShellRow] /\ shell[p] \in ShellRow
  BY JobTyped
<1>2. [shell[p] EXCEPT !.pc = pc] \in ShellRow
  BY <1>1 DEF ShellRow
<1>3. shell' = [shell EXCEPT ![p] = [shell[p] EXCEPT !.pc = pc]]
  BY <1>1 DEF ShellTo
<1>4. shell'[p] = [shell[p] EXCEPT !.pc = pc] /\ shell' \in [Shells -> ShellRow]
      /\ \A q \in Shells : q # p => shell'[q] = shell[q]
  BY <1>1, <1>2, <1>3
<1> QED BY <1>1, <1>4 DEF ShellRow

LEMMA EndsAsTyped ==
  ASSUME JobTypeOK, NEW p \in Shells, NEW verdict \in {"success", "failure", "cancelled"}, EndsAs(p, verdict)
  PROVE  /\ shell' \in [Shells -> ShellRow] /\ \A q \in Shells : q # p => shell'[q] = shell[q]
         /\ shell'[p].pc = "finish" /\ shell'[p].try = shell[p].try /\ shell'[p].at = shell[p].at
         /\ shell'[p].end = verdict
<1>1. shell \in [Shells -> ShellRow] /\ shell[p] \in ShellRow
  BY JobTyped
<1>2. [shell[p] EXCEPT !.pc = "finish", !.end = verdict] \in ShellRow
  BY <1>1 DEF ShellRow
<1>3. shell' = [shell EXCEPT ![p] = [shell[p] EXCEPT !.pc = "finish", !.end = verdict]]
  BY <1>1 DEF EndsAs
<1>4. shell'[p] = [shell[p] EXCEPT !.pc = "finish", !.end = verdict] /\ shell' \in [Shells -> ShellRow]
      /\ \A q \in Shells : q # p => shell'[q] = shell[q]
  BY <1>1, <1>2, <1>3
<1> QED BY <1>1, <1>4 DEF ShellRow

LEMMA AdvanceTyped ==
  ASSUME JobTypeOK, NEW p \in Shells, Advance(p), shell[p].at <= Len(Script)
  PROVE  /\ shell' \in [Shells -> ShellRow] /\ \A q \in Shells : q # p => shell'[q] = shell[q]
         /\ shell'[p].pc = "next" /\ shell'[p].try = shell[p].try /\ shell'[p].at = shell[p].at + 1
<1>1. shell \in [Shells -> ShellRow] /\ shell[p] \in ShellRow /\ Len(Script) \in Nat
  BY JobTyped, ScriptTyped
<1>2. shell[p].at + 1 \in 1..(Len(Script) + 1)
  BY <1>1 DEF ShellRow
<1>3. [shell[p] EXCEPT !.pc = "next", !.at = shell[p].at + 1, !.stop = FALSE] \in ShellRow
  BY <1>1, <1>2 DEF ShellRow
<1>4. shell' = [shell EXCEPT ![p] = [shell[p] EXCEPT !.pc = "next", !.at = shell[p].at + 1, !.stop = FALSE]]
  BY <1>1 DEF Advance
<1>5. shell'[p] = [shell[p] EXCEPT !.pc = "next", !.at = shell[p].at + 1, !.stop = FALSE]
      /\ shell' \in [Shells -> ShellRow] /\ \A q \in Shells : q # p => shell'[q] = shell[q]
  BY <1>1, <1>3, <1>4
<1> QED BY <1>1, <1>5 DEF ShellRow

(* A process that executes moves on, and nothing else changes: to another   *)
(* step of the same index, or past a step that is not an upload.           *)
LEMMA ProcessMoves ==
  ASSUME JobInv, NEW p \in Shells, Executing(p), UNCHANGED <<ciJob, StoreVars>>,
         shell' \in [Shells -> ShellRow], \A q \in Shells : q # p => shell'[q] = shell[q],
         shell'[p].pc # "idle", shell'[p].pc # "insert", ~ShellAt(p, "insert"), shell'[p].try = shell[p].try,
         shell'[p].at = shell[p].at \/ (shell'[p].at = shell[p].at + 1 /\ shell[p].at \notin Uploads),
         AtStep(p)'
  PROVE  JobInv'
<1>1. UNCHANGED <<ciJob, artifactFiles, artifactRows, remover, untidy, jobFaults>>
  BY DEF StoreVars
<1>2. JobTypeOK'
  BY <1>1 DEF JobInv, JobTypeOK, ShellRow
<1>3. \A q \in Shells : AtStep(q)'
  BY DEF JobInv, AtStep, Executing, ShellAt
<1>4. ASSUME ~untidy PROVE TidyInv'
  <2>1. TidyInv
    BY <1>4 DEF JobInv
  <2>2. \A q \in Shells : Executing(q)' <=> Executing(q)
    BY DEF Executing
  <2>3. \A q \in Shells : shell'[q].try = shell[q].try
    OBVIOUS
  <2>4. OneExecution'
    BY <1>1, <2>1, <2>2, <2>3 DEF TidyInv, OneExecution
  <2>5. BehindIsStored'
    <3> SUFFICES ASSUME NEW q \in Shells, Executing(q)', NEW i \in Uploads, i < shell'[q].at
                 PROVE  Artifact(i, shell'[q].try) \in artifactRows
      BY <1>1 DEF BehindIsStored, Artifact, Uploads
    <3>1. Executing(q)
      BY <2>2
    <3>2. i < shell[q].at
      <4>1. CASE q # p
        BY <4>1
      <4>2. CASE q = p /\ shell'[p].at = shell[p].at
        BY <4>2
      <4>3. CASE q = p /\ shell'[p].at = shell[p].at + 1 /\ shell[p].at \notin Uploads
        <5>1. i \in Nat /\ shell[p].at \in Nat /\ i # shell[p].at
          BY <4>3, ScriptTyped, JobTyped DEF JobInv, ShellRow
        <5> QED BY <4>3, <5>1
      <4> QED BY <4>1, <4>2, <4>3
    <3> QED BY <2>1, <2>3, <3>1, <3>2 DEF TidyInv, BehindIsStored
  <2>6. SuccessIsStored' /\ ResetWaits'
    BY <1>1, <2>1 DEF TidyInv, SuccessIsStored, ResetWaits, Artifact, Uploads
  <2>7. FilesAgree'
    <3>1. \A q \in Shells : (shell'[q].pc = "insert" <=> shell[q].pc = "insert")
                            /\ (shell[q].pc = "insert" => shell'[q].at = shell[q].at)
      BY DEF ShellAt
    <3>2. Arriving' = Arriving
      BY <3>1 DEF Arriving, ShellAt, NameAt
    <3> QED BY <1>1, <2>1, <3>2 DEF TidyInv, FilesAgree, NamesOf
  <2> QED BY <2>4, <2>5, <2>6, <2>7 DEF TidyInv
<1> QED BY <1>1, <1>2, <1>3, <1>4 DEF JobInv

LEMMA ProcessGoesTo ==
  ASSUME JobInv, NEW p \in Shells, NEW pc \in {"next", "run", "check", "put"}, ShellTo(p, pc), Executing(p),
         ~ShellAt(p, "insert"), UNCHANGED <<ciJob, StoreVars>>,
         pc = "run" => shell[p].at <= Len(Script) /\ shell[p].at \notin Uploads,
         pc \in {"check", "put"} => shell[p].at \in Uploads
  PROVE  JobInv'
<1>1. /\ shell' \in [Shells -> ShellRow] /\ \A q \in Shells : q # p => shell'[q] = shell[q]
      /\ shell'[p].pc = pc /\ shell'[p].try = shell[p].try /\ shell'[p].at = shell[p].at
  BY ShellToTyped DEF JobInv
<1>2. AtStep(p)'
  BY <1>1 DEF JobInv, AtStep, Executing, ShellAt, Uploads
<1> QED BY <1>1, <1>2, ProcessMoves

LEMMA ProcessEnds ==
  ASSUME JobInv, NEW p \in Shells, NEW verdict \in {"success", "failure", "cancelled"}, EndsAs(p, verdict),
         Executing(p), ~ShellAt(p, "insert"), UNCHANGED <<ciJob, StoreVars>>,
         verdict = "success" => shell[p].at > Len(Script)
  PROVE  JobInv'
<1>1. /\ shell' \in [Shells -> ShellRow] /\ \A q \in Shells : q # p => shell'[q] = shell[q]
      /\ shell'[p].pc = "finish" /\ shell'[p].try = shell[p].try /\ shell'[p].at = shell[p].at
      /\ shell'[p].end = verdict
  BY EndsAsTyped DEF JobInv
<1>2. AtStep(p)'
  BY <1>1 DEF JobInv, AtStep, Executing, ShellAt
<1> QED BY <1>1, <1>2, ProcessMoves

LEMMA CheckoutStep == ASSUME JobInv, NEW p \in Shells, Checkout(p) PROVE JobInv'
<1>1. Executing(p) /\ ~ShellAt(p, "insert") /\ UNCHANGED <<ciJob, StoreVars>>
  BY DEF Checkout, Executing, ShellAt
<1>2. CASE ShellTo(p, "next")
  BY <1>1, <1>2, ProcessGoesTo
<1>3. CASE EndsAs(p, "failure")
  BY <1>1, <1>3, ProcessEnds
<1> QED BY <1>2, <1>3 DEF Checkout

LEMMA BeginStepStep == ASSUME JobInv, NEW p \in Shells, BeginStep(p) PROVE JobInv'
<1>1. Executing(p) /\ ~ShellAt(p, "insert") /\ UNCHANGED <<ciJob, StoreVars>>
  BY DEF BeginStep, Executing, ShellAt
<1>2. shell[p].at \in 1..Len(Script)
  BY JobTyped, ScriptTyped DEF BeginStep, JobInv, ShellRow
<1>3. CASE Script[shell[p].at].kind = "run"
  <2>1. ShellTo(p, "run") /\ shell[p].at \notin Uploads /\ shell[p].at <= Len(Script)
    BY <1>2, <1>3, ScriptTyped DEF BeginStep
  <2> QED BY <1>1, <2>1, ProcessGoesTo
<1>4. CASE Script[shell[p].at].kind # "run"
  <2>1. ShellTo(p, "check") /\ shell[p].at \in Uploads
    BY <1>2, <1>4, ScriptTyped DEF BeginStep
  <2> QED BY <1>1, <2>1, ProcessGoesTo
<1> QED BY <1>3, <1>4

LEMMA HaltStepStep == ASSUME JobInv, NEW p \in Shells, HaltStep(p) PROVE JobInv'
<1>1. Executing(p) /\ ~ShellAt(p, "insert") /\ UNCHANGED <<ciJob, StoreVars>>
      /\ (EndsAs(p, "failure") \/ EndsAs(p, "cancelled"))
  BY DEF HaltStep, Executing, ShellAt
<1> QED BY <1>1, ProcessEnds

LEMMA AllDoneStep == ASSUME JobInv, NEW p \in Shells, AllDone(p) PROVE JobInv'
<1>1. Executing(p) /\ ~ShellAt(p, "insert") /\ UNCHANGED <<ciJob, StoreVars>> /\ EndsAs(p, "success")
      /\ shell[p].at > Len(Script)
  BY DEF AllDone, Executing, ShellAt
<1> QED BY <1>1, ProcessEnds

LEMMA HearStopStep == ASSUME JobInv, NEW p \in Shells, HearStop(p) PROVE JobInv'
<1>1. Executing(p) /\ ~ShellAt(p, "insert") /\ UNCHANGED <<ciJob, StoreVars>>
      /\ shell' = [shell EXCEPT ![p].stop = TRUE]
  BY DEF HearStop, Executing, ShellAt
<1>2. shell \in [Shells -> ShellRow] /\ shell[p] \in ShellRow
  BY JobTyped DEF JobInv
<1>3. [shell[p] EXCEPT !.stop = TRUE] \in ShellRow
  BY <1>2 DEF ShellRow
<1>4. shell' = [shell EXCEPT ![p] = [shell[p] EXCEPT !.stop = TRUE]]
  BY <1>1, <1>2
<1>5. shell'[p] = [shell[p] EXCEPT !.stop = TRUE] /\ shell' \in [Shells -> ShellRow]
      /\ \A q \in Shells : q # p => shell'[q] = shell[q]
  BY <1>2, <1>3, <1>4
<1>6. shell'[p].pc = shell[p].pc /\ shell'[p].try = shell[p].try /\ shell'[p].at = shell[p].at
      /\ shell'[p].end = shell[p].end
  BY <1>2, <1>5 DEF ShellRow
<1>7. AtStep(p)'
  BY <1>6 DEF JobInv, AtStep, Executing, ShellAt, Uploads
<1> QED BY <1>1, <1>5, <1>6, <1>7, ProcessMoves DEF Executing, ShellAt

LEMMA StepEndsStep == ASSUME JobInv, NEW p \in Shells, StepEnds(p) PROVE JobInv'
<1>1. Executing(p) /\ ~ShellAt(p, "insert") /\ UNCHANGED <<ciJob, StoreVars>>
  BY DEF StepEnds, Executing, ShellAt
<1>2. EndsAs(p, "failure") \/ EndsAs(p, "cancelled") \/ Advance(p)
  BY DEF StepEnds
<1>3. CASE EndsAs(p, "failure") \/ EndsAs(p, "cancelled")
  BY <1>1, <1>3, ProcessEnds
<1>4. CASE Advance(p)
  <2>1. shell[p].at <= Len(Script) /\ shell[p].at \notin Uploads
    BY DEF StepEnds, JobInv, AtStep
  <2>2. /\ shell' \in [Shells -> ShellRow] /\ \A q \in Shells : q # p => shell'[q] = shell[q]
        /\ shell'[p].pc = "next" /\ shell'[p].try = shell[p].try /\ shell'[p].at = shell[p].at + 1
    BY <1>4, <2>1, AdvanceTyped DEF JobInv
  <2>3. AtStep(p)'
    BY <1>1, <2>2 DEF JobInv, AtStep, Executing, ShellAt
  <2> QED BY <1>1, <2>1, <2>2, <2>3, ProcessMoves
<1> QED BY <1>2, <1>3, <1>4

LEMMA UploadCheckStep == ASSUME JobInv, NEW p \in Shells, UploadCheck(p) PROVE JobInv'
<1>1. Executing(p) /\ ~ShellAt(p, "insert") /\ UNCHANGED <<ciJob, StoreVars>>
      /\ (ShellTo(p, "put") \/ EndsAs(p, "failure"))
  BY DEF UploadCheck, Executing, ShellAt
<1>2. shell[p].at \in Uploads
  BY DEF UploadCheck, JobInv, AtStep, ShellAt
<1>3. CASE ShellTo(p, "put")
  BY <1>1, <1>2, <1>3, ProcessGoesTo
<1>4. CASE EndsAs(p, "failure")
  BY <1>1, <1>4, ProcessEnds
<1> QED BY <1>1, <1>3, <1>4

(* The file of an upload is written, *)
LEMMA UploadPutStep == ASSUME JobInv, NEW p \in Shells, UploadPut(p) PROVE JobInv'
<1>1. /\ ShellAt(p, "put") /\ artifactFiles' = artifactFiles \cup {NameAt(shell[p].at)} /\ ShellTo(p, "insert")
      /\ UNCHANGED <<ciJob, artifactRows, remover, untidy, jobFaults>>
  BY DEF UploadPut
<1>2. /\ shell' \in [Shells -> ShellRow] /\ \A q \in Shells : q # p => shell'[q] = shell[q]
      /\ shell'[p].pc = "insert" /\ shell'[p].try = shell[p].try /\ shell'[p].at = shell[p].at
      /\ shell[p].pc = "put"
  BY <1>1, ShellToTyped DEF JobInv, ShellAt
<1>3. shell[p].at \in Uploads /\ Executing(p)
  BY <1>2 DEF JobInv, AtStep, Executing
<1>4. JobTypeOK'
  <2>1. artifactFiles' \subseteq {NameAt(i) : i \in Uploads}
    BY <1>1, <1>3, JobTyped DEF JobInv, UploadNames
  <2> QED BY <1>1, <1>2, <2>1 DEF JobInv, JobTypeOK, ShellRow, NameAt, Uploads
<1>5. \A q \in Shells : AtStep(q)'
  BY <1>2, <1>3 DEF JobInv, AtStep, Executing, ShellAt, Uploads
<1>6. ASSUME ~untidy PROVE TidyInv'
  <2>1. TidyInv
    BY <1>6 DEF JobInv
  <2>2. \A q \in Shells : (Executing(q)' <=> Executing(q)) /\ shell'[q].try = shell[q].try
                           /\ shell'[q].at = shell[q].at
    BY <1>2 DEF Executing
  <2>3. OneExecution'
    BY <1>1, <2>1, <2>2 DEF TidyInv, OneExecution
  <2>4. BehindIsStored'
    BY <1>1, <2>1, <2>2 DEF TidyInv, BehindIsStored, Artifact, NameAt, Uploads
  <2>5. SuccessIsStored' /\ ResetWaits'
    BY <1>1, <2>1 DEF TidyInv, SuccessIsStored, ResetWaits, Artifact, NameAt, Uploads
  <2>6. remover.pc \notin {"unlink", "dunlink"}
    BY <1>3, <2>1 DEF TidyInv, OneExecution
  <2>7. Arriving' = Arriving \cup {NameAt(shell[p].at)}
    <3>1. \A q \in Shells : shell'[q].pc = "insert" <=> shell[q].pc = "insert" \/ q = p
      BY <1>2
    <3> QED BY <2>2, <3>1 DEF Arriving, ShellAt, NameAt
  <2>8. FilesAgree'
    BY <1>1, <2>1, <2>6, <2>7 DEF TidyInv, FilesAgree, NamesOf
  <2> QED BY <2>3, <2>4, <2>5, <2>8 DEF TidyInv
<1> QED BY <1>1, <1>4, <1>5, <1>6 DEF JobInv

(* then its row. *)
LEMMA UploadInsertStep == ASSUME JobInv, NEW p \in Shells, UploadInsert(p) PROVE JobInv'
<1>1. /\ shell[p].pc = "insert" /\ artifactRows' = artifactRows \cup {Artifact(shell[p].at, shell[p].try)}
      /\ Advance(p) /\ UNCHANGED <<ciJob, artifactFiles, remover, untidy, jobFaults>>
  BY DEF UploadInsert, ShellAt
<1>2. shell[p].at \in Uploads /\ Executing(p) /\ shell[p].try >= 1
  BY <1>1 DEF JobInv, AtStep, Executing
<1>3. /\ shell' \in [Shells -> ShellRow] /\ \A q \in Shells : q # p => shell'[q] = shell[q]
      /\ shell'[p].pc = "next" /\ shell'[p].try = shell[p].try /\ shell'[p].at = shell[p].at + 1
  <2>1. shell[p].at <= Len(Script)
    <3>1. shell[p].at \in 1..Len(Script) /\ Len(Script) \in Nat
      BY <1>2, ScriptTyped
    <3> QED BY <3>1
  <2> QED BY <1>1, <2>1, AdvanceTyped DEF JobInv
<1>4. PICK new : new = Artifact(shell[p].at, shell[p].try)
  OBVIOUS
<1>5. new.at = shell[p].at /\ new.name = NameAt(shell[p].at) /\ new.try = shell[p].try
  BY <1>4 DEF Artifact
<1>6. JobTypeOK'
  <2>1. shell[p].try \in 1..MaxTries
    BY <1>2, JobTyped DEF JobInv, ShellRow
  <2>2. \A a \in artifactRows' : a.at \in Uploads /\ a.name = NameAt(a.at) /\ a.try \in 1..MaxTries
    BY <1>1, <1>2, <1>4, <1>5, <2>1 DEF JobInv, JobTypeOK
  <2> QED BY <1>1, <1>3, <2>2 DEF JobInv, JobTypeOK, ShellRow, NameAt, Uploads
<1>7. \A q \in Shells : AtStep(q)'
  BY <1>2, <1>3 DEF JobInv, AtStep, Executing, ShellAt, Uploads
<1>8. ASSUME ~untidy PROVE TidyInv'
  <2>1. TidyInv
    BY <1>8 DEF JobInv
  <2>2. \A q \in Shells : (Executing(q)' <=> Executing(q)) /\ shell'[q].try = shell[q].try
    BY <1>1, <1>3 DEF Executing
  <2>3. OneExecution'
    BY <1>1, <2>1, <2>2 DEF TidyInv, OneExecution
  <2>4. BehindIsStored'
    <3> SUFFICES ASSUME NEW q \in Shells, Executing(q)', NEW i \in Uploads, i < shell'[q].at
                 PROVE  Artifact(i, shell'[q].try) \in artifactRows'
      BY DEF BehindIsStored, Artifact, NameAt, Uploads
    <3>1. q = p
      BY <1>2, <2>1, <2>2 DEF TidyInv, OneExecution
    <3>2. i \in Nat /\ shell[p].at \in Nat
      BY ScriptTyped, JobTyped DEF JobInv, ShellRow
    <3>3. i < shell[p].at \/ i = shell[p].at
      BY <1>3, <3>1, <3>2
    <3>4. CASE i < shell[p].at
      BY <1>1, <1>2, <2>1, <2>2, <3>1, <3>4 DEF TidyInv, BehindIsStored
    <3>5. CASE i = shell[p].at
      BY <1>1, <2>2, <3>1, <3>5
    <3> QED BY <3>3, <3>4, <3>5
  <2>5. SuccessIsStored' /\ ResetWaits'
    BY <1>1, <2>1 DEF TidyInv, SuccessIsStored, ResetWaits, Artifact, NameAt, Uploads
  <2>6. remover.pc \notin {"unlink", "dunlink"}
    BY <1>2, <2>1 DEF TidyInv, OneExecution
  <2>7. Arriving = {NameAt(shell[p].at)} /\ Arriving' = {}
    <3>1. \A q \in Shells : (shell[q].pc = "insert" <=> q = p) /\ shell'[q].pc # "insert"
      BY <1>1, <1>2, <1>3, <2>1 DEF TidyInv, OneExecution, Executing
    <3> QED BY <3>1 DEF Arriving, ShellAt, NameAt
  <2>8. NamesOf(artifactRows)' = NamesOf(artifactRows) \cup {NameAt(shell[p].at)}
    BY <1>1, <1>4, <1>5 DEF NamesOf
  <2>9. FilesAgree'
    BY <1>1, <2>1, <2>6, <2>7, <2>8 DEF TidyInv, FilesAgree
  <2> QED BY <2>3, <2>4, <2>5, <2>9 DEF TidyInv
<1> QED BY <1>1, <1>6, <1>7, <1>8 DEF JobInv

LEMMA UploadFailsStep == ASSUME JobInv, NEW p \in Shells, UploadFails(p) PROVE JobInv'
<1>1. /\ shell[p].pc \in {"put", "insert"} /\ EndsAs(p, "failure") /\ jobFaults' \in 0..MaxJobFaults
      /\ untidy' = (untidy \/ ShellAt(p, "insert")) /\ UNCHANGED <<ciJob, artifactFiles, artifactRows, remover>>
  BY JobTyped DEF UploadFails, ShellAt, JobInv
<1>2. /\ shell' \in [Shells -> ShellRow] /\ \A q \in Shells : q # p => shell'[q] = shell[q]
      /\ shell'[p].pc = "finish" /\ shell'[p].try = shell[p].try /\ shell'[p].at = shell[p].at
      /\ shell'[p].end = "failure"
  BY <1>1, EndsAsTyped DEF JobInv
<1>3. JobTypeOK'
  BY <1>1, <1>2 DEF JobInv, JobTypeOK, ShellRow, NameAt, Uploads, ShellAt
<1>4. \A q \in Shells : AtStep(q)'
  BY <1>1, <1>2 DEF JobInv, AtStep, Executing, ShellAt, Uploads
<1>5. ASSUME ~untidy' PROVE TidyInv'
  <2>1. TidyInv /\ shell[p].pc = "put"
    BY <1>1, <1>5 DEF JobInv, ShellAt
  <2>2. \A q \in Shells : (Executing(q)' <=> Executing(q)) /\ shell'[q].try = shell[q].try
                           /\ shell'[q].at = shell[q].at
    BY <1>1, <1>2 DEF Executing
  <2>3. OneExecution'
    BY <1>1, <2>1, <2>2 DEF TidyInv, OneExecution
  <2>4. BehindIsStored'
    BY <1>1, <2>1, <2>2 DEF TidyInv, BehindIsStored, Artifact, NameAt, Uploads
  <2>5. SuccessIsStored' /\ ResetWaits'
    BY <1>1, <2>1 DEF TidyInv, SuccessIsStored, ResetWaits, Artifact, NameAt, Uploads
  <2>6. Arriving' = Arriving
    <3>1. \A q \in Shells : shell'[q].pc = "insert" <=> shell[q].pc = "insert"
      BY <1>2, <2>1
    <3> QED BY <2>2, <3>1 DEF Arriving, ShellAt, NameAt
  <2>7. FilesAgree'
    BY <1>1, <2>1, <2>6 DEF TidyInv, FilesAgree, NamesOf
  <2> QED BY <2>3, <2>4, <2>5, <2>7 DEF TidyInv
<1> QED BY <1>3, <1>4, <1>5 DEF JobInv

(* A process is done with the job, or dies: the row becomes what it says,    *)
(* or stays.                                                               *)
LEMMA ProcessLeaves ==
  ASSUME JobInv, NEW p \in Shells, Executing(p), shell' = [shell EXCEPT ![p] = Resting],
         NEW st \in Statuses, ciJob' = [ciJob EXCEPT !.st = st],
         st = ciJob.st \/ (ciJob.st = "running" /\ ShellAt(p, "finish") /\ st = shell[p].end),
         jobFaults' \in 0..MaxJobFaults, untidy' \in BOOLEAN, ~untidy' => ~untidy /\ ~ShellAt(p, "insert"),
         UNCHANGED <<artifactFiles, artifactRows, remover>>
  PROVE  JobInv'
<1>1. shell \in [Shells -> ShellRow] /\ shell[p] \in ShellRow
      /\ ciJob \in [st : Statuses, try : 0..MaxTries, overdue : BOOLEAN]
  BY JobTyped DEF JobInv
<1>2. Resting \in ShellRow /\ Resting.pc = "idle"
  BY ScriptTyped, ScriptAssumption DEF Resting, ShellRow
<1>3. shell' \in [Shells -> ShellRow] /\ shell'[p].pc = "idle" /\ \A q \in Shells : q # p => shell'[q] = shell[q]
  BY <1>1, <1>2
<1>4. ciJob' \in [st : Statuses, try : 0..MaxTries, overdue : BOOLEAN] /\ ciJob'.st = st /\ ciJob'.try = ciJob.try
  BY <1>1
<1>5. JobTypeOK'
  BY <1>3, <1>4 DEF JobInv, JobTypeOK, ShellRow, NameAt, Uploads
<1>6. \A q \in Shells : AtStep(q)'
  BY <1>3 DEF JobInv, AtStep, Executing, ShellAt, Uploads
<1>7. ASSUME ~untidy' PROVE TidyInv'
  <2>1. TidyInv
    BY <1>7 DEF JobInv
  <2>2. \A q \in Shells : Executing(q) => q = p
    BY <2>1 DEF TidyInv, OneExecution
  <2>3. \A q \in Shells : shell'[q].pc = "idle"
    BY <1>3, <2>2 DEF Executing
  <2>4. OneExecution' /\ BehindIsStored'
    BY <2>3 DEF OneExecution, BehindIsStored, Executing
  <2>5. SuccessIsStored'
    <3>1. CASE st = ciJob.st
      BY <1>4, <2>1, <3>1 DEF TidyInv, SuccessIsStored, Artifact, NameAt, Uploads
    <3>2. CASE st # ciJob.st
      <4> SUFFICES ASSUME st = "success", NEW i \in Uploads
                   PROVE  Artifact(i, ciJob.try) \in artifactRows
        BY <1>4 DEF SuccessIsStored, Artifact, NameAt, Uploads
      <4>1. shell[p].at > Len(Script)
        BY <3>2 DEF JobInv, AtStep
      <4>2. i < shell[p].at
        BY <1>1, <4>1, ScriptTyped DEF ShellRow
      <4> QED BY <2>1, <4>2 DEF TidyInv, BehindIsStored, OneExecution
    <3> QED BY <3>1, <3>2
  <2>6. ResetWaits'
    BY <1>4, <2>1 DEF TidyInv, ResetWaits
  <2>7. Arriving = {} /\ Arriving' = {}
    BY <1>7, <2>2, <2>3 DEF Arriving, ShellAt, Executing
  <2>8. FilesAgree'
    BY <2>1, <2>7 DEF TidyInv, FilesAgree, NamesOf
  <2> QED BY <2>4, <2>5, <2>6, <2>8 DEF TidyInv
<1> QED BY <1>5, <1>6, <1>7 DEF JobInv

LEMMA CompleteJobStep == ASSUME JobInv, NEW p \in Shells, CompleteJob(p) PROVE JobInv'
<1>1. ciJob \in [st : Statuses, try : 0..MaxTries, overdue : BOOLEAN] /\ shell[p] \in ShellRow
      /\ jobFaults \in 0..MaxJobFaults /\ untidy \in BOOLEAN
  BY JobTyped DEF JobInv, JobTypeOK
<1>2. PICK st : st = IF ciJob.st = "running" THEN shell[p].end ELSE ciJob.st
  OBVIOUS
<1>3. st \in Statuses /\ ciJob' = [ciJob EXCEPT !.st = st]
  BY <1>1, <1>2 DEF CompleteJob, ShellRow, Statuses
<1>4. Executing(p) /\ ~ShellAt(p, "insert") /\ ShellAt(p, "finish") /\ shell' = [shell EXCEPT ![p] = Resting]
      /\ UNCHANGED <<artifactFiles, artifactRows, remover, untidy, jobFaults>>
  BY DEF CompleteJob, Executing, ShellAt, StoreVars
<1> QED BY <1>1, <1>2, <1>3, <1>4, ProcessLeaves

LEMMA DieStep == ASSUME JobInv, NEW p \in Shells, Die(p) PROVE JobInv'
<1>1. ciJob \in [st : Statuses, try : 0..MaxTries, overdue : BOOLEAN] /\ untidy \in BOOLEAN
      /\ jobFaults \in Nat /\ MaxJobFaults \in Nat
  BY JobTyped DEF JobInv
<1>2. ciJob.st \in Statuses /\ ciJob' = [ciJob EXCEPT !.st = ciJob.st]
  BY <1>1 DEF Die
<1>3. jobFaults' \in 0..MaxJobFaults /\ untidy' \in BOOLEAN /\ (~untidy' => ~untidy /\ ~ShellAt(p, "insert"))
  <2>1. jobFaults < MaxJobFaults /\ jobFaults' = jobFaults + 1 /\ untidy' = (untidy \/ ShellAt(p, "insert"))
    BY DEF Die
  <2>2. jobFaults' \in 0..MaxJobFaults
    BY <1>1, <2>1
  <2> QED BY <1>1, <2>1, <2>2 DEF ShellAt
<1>4. Executing(p) /\ shell' = [shell EXCEPT ![p] = Resting] /\ UNCHANGED <<artifactFiles, artifactRows, remover>>
  BY DEF Die
<1> QED BY <1>2, <1>3, <1>4, ProcessLeaves

(* A claim: a new attempt, of which nothing is stored. *)
LEMMA TakeJobStep == ASSUME JobInv, NEW p \in Shells, TakeJob(p) PROVE JobInv'
<1>1. /\ ~Executing(p) /\ ciJob.st = "queued" /\ ciJob.try < MaxTries
      /\ ciJob' = [st |-> "running", try |-> ciJob.try + 1, overdue |-> FALSE]
      /\ shell' = [shell EXCEPT ![p] = [Resting EXCEPT !.pc = "checkout", !.try = ciJob.try + 1]]
      /\ untidy' = (untidy \/ remover.pc # "idle")
      /\ UNCHANGED <<artifactFiles, artifactRows, remover, jobFaults>>
  BY DEF TakeJob
<1>2. shell \in [Shells -> ShellRow] /\ ciJob.try \in 0..MaxTries /\ MaxTries \in Nat /\ untidy \in BOOLEAN
  BY JobTyped DEF JobInv
<1>3. ciJob.try + 1 \in 0..MaxTries /\ ciJob.try + 1 >= 1
  BY <1>1, <1>2
<1>4. PICK new : new = [Resting EXCEPT !.pc = "checkout", !.try = ciJob.try + 1]
  OBVIOUS
<1>5. new \in ShellRow /\ new.pc = "checkout" /\ new.try = ciJob.try + 1 /\ new.at = 1
  <2>1. new = [pc |-> "checkout", try |-> ciJob.try + 1, at |-> 1, stop |-> FALSE, end |-> "success"]
    BY <1>4 DEF Resting
  <2>2. 1 \in 1..(Len(Script) + 1)
    BY ScriptTyped
  <2> QED BY <1>3, <2>1, <2>2 DEF ShellRow
<1>6. /\ shell' \in [Shells -> ShellRow] /\ shell'[p] = new
      /\ \A q \in Shells : q # p => shell'[q] = shell[q]
  BY <1>1, <1>2, <1>4, <1>5
<1>7. /\ ciJob' \in [st : Statuses, try : 0..MaxTries, overdue : BOOLEAN]
      /\ ciJob'.st = "running" /\ ciJob'.try = ciJob.try + 1
  BY <1>1, <1>3 DEF Statuses
<1>8. JobTypeOK'
  BY <1>1, <1>2, <1>6, <1>7 DEF JobInv, JobTypeOK, ShellRow, NameAt, Uploads
<1>9. \A q \in Shells : AtStep(q)'
  BY <1>3, <1>5, <1>6 DEF JobInv, AtStep, Executing, ShellAt, Uploads
<1>10. ASSUME ~untidy' PROVE TidyInv'
  <2>1. TidyInv /\ remover.pc = "idle"
    BY <1>1, <1>2, <1>10 DEF JobInv
  <2>2. \A q \in Shells : shell[q].pc = "idle"
    BY <1>1, <2>1 DEF TidyInv, OneExecution, Executing
  <2>3. \A q \in Shells : shell'[q].pc # "idle" <=> q = p
    BY <1>5, <1>6, <2>2
  <2>4. OneExecution'
    BY <1>1, <1>5, <1>6, <1>7, <2>1, <2>3 DEF OneExecution, Executing
  <2>5. BehindIsStored'
    <3>1. \A i \in Uploads : ~(i < 1)
      BY ScriptTyped
    <3> QED BY <1>5, <1>6, <2>3, <3>1 DEF BehindIsStored, Executing, Uploads
  <2>6. SuccessIsStored' /\ ResetWaits'
    BY <1>1, <1>7, <2>1 DEF SuccessIsStored, ResetWaits
  <2>7. Arriving = {} /\ Arriving' = {}
    <3>1. \A q \in Shells : shell[q].pc # "insert" /\ shell'[q].pc # "insert"
      BY <1>5, <1>6, <2>2
    <3> QED BY <3>1 DEF Arriving, ShellAt
  <2>8. FilesAgree'
    BY <1>1, <2>1, <2>7 DEF TidyInv, FilesAgree, NamesOf
  <2> QED BY <2>4, <2>5, <2>6, <2>8 DEF TidyInv
<1> QED BY <1>8, <1>9, <1>10 DEF JobInv

(* The row changes, and perhaps a removal begins; nothing else. *)
LEMMA RowTurns ==
  ASSUME JobInv, NEW st \in Statuses, NEW pc \in {"idle", "keys", "unlink", "dkeys", "dunlink"},
         ciJob' \in [st : Statuses, try : 0..MaxTries, overdue : BOOLEAN], ciJob'.st = st, ciJob'.try = ciJob.try,
         remover' \in Removal, remover'.pc = pc, remover'.keys = remover.keys,
         UNCHANGED <<shell, artifactFiles, artifactRows, untidy, jobFaults>>,
         pc = remover.pc \/ (remover.pc = "idle" /\ pc \in {"keys", "dkeys"}),
         st = "success" => ciJob.st = "success", st # "gone",
         st = "queued" => (ciJob.st = "queued" /\ pc = remover.pc) \/ pc = "keys",
         ~untidy /\ pc \in {"keys", "unlink"} => st \in {"queued", "cancelled"} \/ (pc = remover.pc /\ st = ciJob.st)
  PROVE  JobInv'
<1>1. JobTypeOK'
  BY DEF JobInv, JobTypeOK, NameAt, Uploads, Removal, UploadNames
<1>2. \A q \in Shells : AtStep(q)'
  BY DEF JobInv, AtStep, Executing, ShellAt, Uploads
<1>3. ASSUME ~untidy PROVE TidyInv'
  <2>1. TidyInv
    BY <1>3 DEF JobInv
  <2>2. OneExecution'
    <3> SUFFICES ASSUME NEW p \in Shells, Executing(p)
                 PROVE  /\ \A q \in Shells : Executing(q) => p = q
                        /\ shell[p].try = ciJob'.try /\ ciJob'.st # "gone"
                        /\ remover'.pc \in {"idle", "keys", "dkeys"} /\ (ciJob'.st = "queued" => remover'.pc = "keys")
      BY DEF OneExecution, Executing
    <3>1. /\ \A q \in Shells : Executing(q) => p = q
          /\ shell[p].try = ciJob.try /\ remover.pc \in {"idle", "keys", "dkeys"}
          /\ (ciJob.st = "queued" => remover.pc = "keys")
      BY <2>1 DEF TidyInv, OneExecution
    <3> QED BY <3>1
  <2>3. BehindIsStored'
    BY <2>1 DEF TidyInv, BehindIsStored, Executing, Artifact, NameAt, Uploads
  <2>4. SuccessIsStored'
    BY <2>1 DEF TidyInv, SuccessIsStored, Artifact, NameAt, Uploads
  <2>5. ResetWaits'
    BY <1>3, <2>1 DEF TidyInv, ResetWaits
  <2>6. FilesAgree'
    <3>1. Arriving' = Arriving /\ NamesOf(artifactRows)' = NamesOf(artifactRows)
      BY DEF Arriving, ShellAt, NameAt, NamesOf
    <3> QED BY <2>1, <3>1 DEF TidyInv, FilesAgree
  <2> QED BY <2>2, <2>3, <2>4, <2>5, <2>6 DEF TidyInv
<1> QED BY <1>1, <1>2, <1>3 DEF JobInv

LEMMA TimeAndReclaimSteps == ASSUME JobInv, JobOverruns \/ ReclaimJob \/ CancelJob PROVE JobInv'
<1>1. ciJob \in [st : Statuses, try : 0..MaxTries, overdue : BOOLEAN]
      /\ remover \in Removal /\ remover.pc \in {"idle", "keys", "unlink", "dkeys", "dunlink"}
  BY JobTyped DEF JobInv
<1>2. UNCHANGED <<shell, artifactFiles, artifactRows, remover, untidy, jobFaults>>
  BY DEF JobOverruns, ReclaimJob, CancelJob, StoreVars
<1>3. CASE JobOverruns
  <2>1. ciJob.st \in {"running", "cancelled"} /\ ciJob' = [ciJob EXCEPT !.overdue = TRUE]
    BY <1>3 DEF JobOverruns
  <2>2. ciJob' \in [st : Statuses, try : 0..MaxTries, overdue : BOOLEAN]
        /\ ciJob'.st = ciJob.st /\ ciJob'.try = ciJob.try
    BY <1>1, <2>1
  <2>3. ciJob.st \in Statuses
    BY <1>1
  <2> QED BY <1>1, <1>2, <2>1, <2>2, <2>3, RowTurns
<1>4. CASE ReclaimJob
  <2>1. ciJob.st = "running" /\ ciJob' = [ciJob EXCEPT !.st = "failure"]
    BY <1>4 DEF ReclaimJob
  <2>2. ciJob' \in [st : Statuses, try : 0..MaxTries, overdue : BOOLEAN]
        /\ ciJob'.st = "failure" /\ ciJob'.try = ciJob.try
    BY <1>1, <2>1 DEF Statuses
  <2>3. ~untidy => remover.pc \notin {"keys", "unlink"}
    BY <2>1 DEF JobInv, TidyInv, ResetWaits
  <2> QED BY <1>1, <1>2, <2>1, <2>2, <2>3, RowTurns DEF Statuses
<1>5. CASE CancelJob
  <2>1. ciJob.st \in {"queued", "running"} /\ ciJob' = [ciJob EXCEPT !.st = "cancelled"]
    BY <1>5 DEF CancelJob, Cancelled
  <2>2. ciJob' \in [st : Statuses, try : 0..MaxTries, overdue : BOOLEAN]
        /\ ciJob'.st = "cancelled" /\ ciJob'.try = ciJob.try
    BY <1>1, <2>1 DEF Statuses
  <2> QED BY <1>1, <1>2, <2>1, <2>2, RowTurns DEF Statuses
<1> QED BY <1>3, <1>4, <1>5

(* the record of the removal *)
LEMMA RemoverRecord ==
  ASSUME JobTypeOK
  PROVE  /\ \A pc \in {"idle", "keys", "unlink", "dkeys", "dunlink"} :
              /\ [remover EXCEPT !.pc = pc] \in Removal
              /\ [remover EXCEPT !.pc = pc].pc = pc /\ [remover EXCEPT !.pc = pc].keys = remover.keys
         /\ \A k \in SUBSET UploadNames :
              /\ [remover EXCEPT !.keys = k] \in Removal
              /\ [remover EXCEPT !.keys = k].keys = k /\ [remover EXCEPT !.keys = k].pc = remover.pc
<1>1. remover \in Removal
  BY JobTyped
<1> QED BY <1>1 DEF Removal

LEMMA RemovalBegins == ASSUME JobInv, ResetJob \/ DeletePipeline PROVE JobInv'
<1>1. ciJob \in [st : Statuses, try : 0..MaxTries, overdue : BOOLEAN]
  BY JobTyped DEF JobInv
<1>2. UNCHANGED <<shell, artifactFiles, artifactRows, untidy, jobFaults>> /\ remover.pc = "idle"
  BY DEF ResetJob, DeletePipeline
<1>3. CASE ResetJob
  <2>1. ciJob' = [ciJob EXCEPT !.st = "queued", !.overdue = FALSE]
    BY <1>3 DEF ResetJob
  <2>2. ciJob' \in [st : Statuses, try : 0..MaxTries, overdue : BOOLEAN]
        /\ ciJob'.st = "queued" /\ ciJob'.try = ciJob.try
    BY <1>1, <2>1 DEF Statuses
  <2>3. remover' \in Removal /\ remover'.pc = "keys" /\ remover'.keys = remover.keys
    BY <1>3, RemoverRecord DEF ResetJob, JobInv
  <2> QED BY <1>1, <1>2, <2>2, <2>3, RowTurns DEF Statuses
<1>4. CASE DeletePipeline
  <2>1. PICK st : st = Cancelled(ciJob.st)
    OBVIOUS
  <2>2. st \in Statuses /\ st # "gone" /\ st # "queued" /\ (st = "success" => ciJob.st = "success")
        /\ ciJob' = [ciJob EXCEPT !.st = st]
    BY <1>1, <1>4, <2>1 DEF DeletePipeline, Cancelled, Statuses
  <2>3. ciJob' \in [st : Statuses, try : 0..MaxTries, overdue : BOOLEAN]
        /\ ciJob'.st = st /\ ciJob'.try = ciJob.try
    BY <1>1, <2>2
  <2>4. remover' \in Removal /\ remover'.pc = "dkeys" /\ remover'.keys = remover.keys
    BY <1>4, RemoverRecord DEF DeletePipeline, JobInv
  <2> QED BY <1>1, <1>2, <2>2, <2>3, <2>4, RowTurns
<1> QED BY <1>3, <1>4

(* The removal goes on.  Unless it has met an execution nobody executes. *)
LEMMA RemovalIsAlone ==
  ASSUME Meets, ~untidy'
  PROVE  ~untidy /\ (\A p \in Shells : ~Executing(p)) /\ Arriving = {}
BY DEF Meets, Arriving, Executing, ShellAt

LEMMA ReadKeysStep == ASSUME JobInv, ReadKeys PROVE JobInv'
<1>1. /\ remover.pc \in {"keys", "dkeys"} /\ Meets /\ UNCHANGED <<ciJob, shell, artifactFiles, artifactRows, jobFaults>>
      /\ remover' = [keys |-> {a.name : a \in artifactRows},
                     pc |-> IF remover.pc = "keys" THEN "unlink" ELSE "dunlink"]
  BY DEF ReadKeys
<1>2. /\ remover'.keys = NamesOf(artifactRows) /\ remover'.pc \in {"unlink", "dunlink"}
      /\ (remover'.pc = "unlink" <=> remover.pc = "keys")
  BY <1>1 DEF NamesOf
<1>3. untidy' \in BOOLEAN
  BY <1>1 DEF Meets, JobInv, JobTypeOK
<1>4. JobTypeOK'
  <2>1. NamesOf(artifactRows) \subseteq UploadNames
    BY JobTyped DEF JobInv, NamesOf, UploadNames
  <2>2. remover' \in Removal
    BY <1>1, <1>2, <2>1 DEF Removal, NamesOf
  <2> QED BY <1>1, <1>3, <2>2 DEF JobInv, JobTypeOK, NameAt, Uploads, Removal, UploadNames
<1>5. \A q \in Shells : AtStep(q)'
  BY <1>1 DEF JobInv, AtStep, Executing, ShellAt, Uploads
<1>6. ASSUME ~untidy' PROVE TidyInv'
  <2>1. TidyInv /\ (\A p \in Shells : ~Executing(p)) /\ Arriving = {}
    BY <1>1, <1>6, RemovalIsAlone DEF JobInv
  <2>2. OneExecution' /\ BehindIsStored'
    BY <1>1, <2>1 DEF OneExecution, BehindIsStored, Executing
  <2>3. SuccessIsStored' /\ ResetWaits'
    BY <1>1, <1>2, <2>1 DEF TidyInv, SuccessIsStored, ResetWaits, Artifact, NameAt, Uploads
  <2>4. FilesAgree'
    BY <1>1, <1>2, <2>1 DEF TidyInv, FilesAgree
  <2> QED BY <2>2, <2>3, <2>4 DEF TidyInv
<1> QED BY <1>4, <1>5, <1>6 DEF JobInv

LEMMA UnlinkFileStep == ASSUME JobInv, UnlinkFile PROVE JobInv'
<1>1. /\ remover.pc \in {"unlink", "dunlink"} /\ Meets /\ UNCHANGED <<ciJob, shell, artifactRows, jobFaults>>
  BY DEF UnlinkFile
<1>2. PICK n \in remover.keys : /\ artifactFiles' = artifactFiles \ {n}
                                /\ remover' = [remover EXCEPT !.keys = @ \ {n}]
  BY DEF UnlinkFile
<1>3. remover' \in Removal /\ remover'.pc = remover.pc /\ remover'.keys = remover.keys \ {n}
  <2>1. remover.keys \ {n} \in SUBSET UploadNames
    BY JobTyped DEF JobInv
  <2> QED BY <1>2, <2>1, RemoverRecord DEF JobInv
<1>4. untidy' \in BOOLEAN
  BY <1>1 DEF Meets, JobInv, JobTypeOK
<1>5. JobTypeOK'
  BY <1>1, <1>2, <1>3, <1>4 DEF JobInv, JobTypeOK, NameAt, Uploads, Removal, UploadNames
<1>6. \A q \in Shells : AtStep(q)'
  BY <1>1 DEF JobInv, AtStep, Executing, ShellAt, Uploads
<1>7. ASSUME ~untidy' PROVE TidyInv'
  <2>1. TidyInv /\ (\A p \in Shells : ~Executing(p)) /\ Arriving = {}
    BY <1>1, <1>7, RemovalIsAlone DEF JobInv
  <2>2. OneExecution' /\ BehindIsStored'
    BY <1>1, <2>1 DEF OneExecution, BehindIsStored, Executing
  <2>3. SuccessIsStored' /\ ResetWaits'
    BY <1>1, <1>3, <2>1 DEF TidyInv, SuccessIsStored, ResetWaits, Artifact, NameAt, Uploads
  <2>4. FilesAgree'
    BY <1>1, <1>2, <1>3, <2>1 DEF TidyInv, FilesAgree
  <2> QED BY <2>2, <2>3, <2>4 DEF TidyInv
<1> QED BY <1>5, <1>6, <1>7 DEF JobInv

LEMMA DropRowsStep == ASSUME JobInv, DropRows PROVE JobInv'
<1>1. /\ remover.pc \in {"unlink", "dunlink"} /\ remover.keys = {} /\ artifactRows' = {} /\ remover' = NoRemoval
      /\ Meets /\ UNCHANGED <<shell, artifactFiles, jobFaults>>
      /\ ciJob' = [ciJob EXCEPT !.st = IF remover.pc = "dunlink" THEN "gone" ELSE ciJob.st]
  BY DEF DropRows
<1>2. remover'.pc = "idle" /\ remover'.keys = {}
  BY <1>1 DEF NoRemoval
<1>3. untidy' \in BOOLEAN
  BY <1>1 DEF Meets, JobInv, JobTypeOK
<1>4. /\ ciJob' \in [st : Statuses, try : 0..MaxTries, overdue : BOOLEAN]
      /\ ciJob'.st = IF remover.pc = "dunlink" THEN "gone" ELSE ciJob.st
  <2>1. ciJob \in [st : Statuses, try : 0..MaxTries, overdue : BOOLEAN]
    BY JobTyped DEF JobInv
  <2>2. PICK st : st = IF remover.pc = "dunlink" THEN "gone" ELSE ciJob.st
    OBVIOUS
  <2>3. st \in Statuses
    BY <2>1, <2>2 DEF Statuses
  <2> QED BY <1>1, <2>1, <2>2, <2>3
<1>5. JobTypeOK'
  <2>1. remover' \in Removal
    BY <1>1 DEF NoRemoval, Removal
  <2> QED BY <1>1, <1>3, <1>4, <2>1 DEF JobInv, JobTypeOK, NameAt, Uploads, Removal, UploadNames
<1>6. \A q \in Shells : AtStep(q)'
  BY <1>1 DEF JobInv, AtStep, Executing, ShellAt, Uploads
<1>7. ASSUME ~untidy' PROVE TidyInv'
  <2>1. TidyInv /\ (\A p \in Shells : ~Executing(p)) /\ Arriving = {}
    BY <1>1, <1>7, RemovalIsAlone DEF JobInv
  <2>2. OneExecution' /\ BehindIsStored'
    BY <1>1, <2>1 DEF OneExecution, BehindIsStored, Executing
  <2>3. SuccessIsStored' /\ ResetWaits'
    <3>1. ciJob'.st # "success"
      BY <1>1, <1>4, <2>1 DEF TidyInv, ResetWaits
    <3> QED BY <1>2, <3>1 DEF SuccessIsStored, ResetWaits
  <2>4. FilesAgree'
    <3>1. artifactFiles = {}
      BY <1>1, <2>1 DEF TidyInv, FilesAgree
    <3>2. Arriving' = {}
      BY <1>1, <2>1 DEF Arriving, Executing, ShellAt
    <3> QED BY <1>1, <1>2, <3>1, <3>2 DEF FilesAgree, NamesOf
  <2> QED BY <2>2, <2>3, <2>4 DEF TidyInv
<1> QED BY <1>5, <1>6, <1>7 DEF JobInv

LEMMA JobStep == JobInv /\ [JobNext]_jobVars => JobInv'
<1> SUFFICES ASSUME JobInv, [JobNext]_jobVars PROVE JobInv'
  OBVIOUS
<1>1. CASE UNCHANGED jobVars
  <2>1. UNCHANGED <<ciJob, shell, artifactFiles, artifactRows, remover, untidy, jobFaults>>
    BY <1>1 DEF jobVars
  <2>2. JobTypeOK' /\ \A p \in Shells : AtStep(p)'
    BY <2>1 DEF JobInv, JobTypeOK, AtStep, Executing, ShellAt, Uploads, NameAt
  <2>3. TidyInv => TidyInv'
    BY <2>1 DEF TidyInv, OneExecution, ResetWaits, BehindIsStored, SuccessIsStored, FilesAgree, Arriving,
       NamesOf, Executing, ShellAt, Artifact, NameAt, Uploads
  <2> QED BY <2>1, <2>2, <2>3 DEF JobInv
<1>2. ASSUME NEW p \in Shells,
             TakeJob(p) \/ ShellStep(p) \/ HearStop(p) \/ StepEnds(p) \/ UploadFails(p) \/ Die(p)
      PROVE  JobInv'
  BY <1>2, TakeJobStep, CheckoutStep, BeginStepStep, HaltStepStep, AllDoneStep, UploadCheckStep,
     UploadPutStep, UploadInsertStep, CompleteJobStep, HearStopStep, StepEndsStep, UploadFailsStep, DieStep
     DEF ShellStep
<1>3. ASSUME JobOverruns \/ ReclaimJob \/ CancelJob \/ ResetJob \/ DeletePipeline PROVE JobInv'
  BY <1>3, TimeAndReclaimSteps, RemovalBegins
<1>4. ASSUME ReadKeys \/ UnlinkFile \/ DropRows PROVE JobInv'
  BY <1>4, ReadKeysStep, UnlinkFileStep, DropRowsStep
<1> QED BY <1>1, <1>2, <1>3, <1>4 DEF JobNext

(* A successful job has every artifact of that attempt, and the files are    *)
(* those of the rows, unless a removal met an execution or a connection was *)
(* lost between file and row (runner/src/job/shell.rs, cicd.rs).           *)
THEOREM ArtifactsAreSound == JobSpec => []ArtifactsSound
<1>1. JobInit => JobInv
  BY JobInitially
<1>2. JobInv /\ [JobNext]_jobVars => JobInv'
  BY JobStep
<1>3. JobInv => ArtifactsSound
  BY JobSound
<1> QED BY <1>1, <1>2, <1>3, PTL DEF JobSpec

-----------------------------------------------------------------------------
(***************************************************************************)
(* AccessSound for any groups, people, teams, roles, clients and requests. *)
(***************************************************************************)

(* The groups above a group are those of its parent and itself: the         *)
(* recursion has a solution,                                               *)
AncestorsOf(f, g) == {g} \cup IF ParentGroup[g] = NoGroup THEN {} ELSE f[ParentGroup[g]]
ClosedUp(S) == \A h \in S : ParentGroup[h] # NoGroup => ParentGroup[h] \in S
Above(g) == {a \in Groups : \A S \in SUBSET Groups : g \in S /\ ClosedUp(S) => a \in S}

LEMMA AboveIsSolution ==
  ASSUME NEW g \in Groups
  PROVE  Above(g) = {g} \cup IF ParentGroup[g] = NoGroup THEN {} ELSE Above(ParentGroup[g])
<1>1. ParentGroup[g] \in Groups \cup {NoGroup} /\ NoGroup \notin Groups
  BY MembershipAssumption
<1>2. g \in Above(g)
  BY DEF Above
<1>3. ASSUME ParentGroup[g] # NoGroup PROVE Above(ParentGroup[g]) \subseteq Above(g)
  <2> SUFFICES ASSUME NEW a \in Above(ParentGroup[g]), NEW S \in SUBSET Groups, g \in S, ClosedUp(S)
               PROVE  a \in S
    BY DEF Above
  <2>1. ParentGroup[g] \in S
    BY <1>3 DEF ClosedUp
  <2> QED BY <2>1 DEF Above
<1>4. ASSUME NEW a \in Above(g), a # g
      PROVE  ParentGroup[g] # NoGroup /\ a \in Above(ParentGroup[g])
  <2>1. a \in Groups /\ \A S \in SUBSET Groups : g \in S /\ ClosedUp(S) => a \in S
    BY <1>4 DEF Above
  <2>2. ParentGroup[g] # NoGroup
    <3> SUFFICES ASSUME ParentGroup[g] = NoGroup PROVE FALSE
      OBVIOUS
    <3>1. {g} \in SUBSET Groups /\ ClosedUp({g})
      BY DEF ClosedUp
    <3> QED BY <1>4, <2>1, <3>1
  <2>3. ASSUME NEW S \in SUBSET Groups, ParentGroup[g] \in S, ClosedUp(S) PROVE a \in S
    <3>1. S \cup {g} \in SUBSET Groups /\ ClosedUp(S \cup {g})
      BY <2>3 DEF ClosedUp
    <3> QED BY <1>4, <2>1, <3>1
  <2> QED BY <2>1, <2>2, <2>3 DEF Above
<1>5. CASE ParentGroup[g] = NoGroup
  BY <1>2, <1>4, <1>5
<1>6. CASE ParentGroup[g] # NoGroup
  BY <1>2, <1>3, <1>4, <1>6
<1> QED BY <1>5, <1>6

LEMMA AncestorsAre ==
  ASSUME NEW g \in Groups
  PROVE  Ancestors[g] = {g} \cup IF ParentGroup[g] = NoGroup THEN {} ELSE Ancestors[ParentGroup[g]]
<1> DEFINE up == [h \in Groups |-> Above(h)]
<1>1. \A h \in Groups : ParentGroup[h] \in Groups \cup {NoGroup}
  BY MembershipAssumption
<1>2. up = [h \in Groups |-> {h} \cup IF ParentGroup[h] = NoGroup THEN {} ELSE up[ParentGroup[h]]]
  <2>1. \A h \in Groups : Above(h) = {h} \cup IF ParentGroup[h] = NoGroup THEN {} ELSE up[ParentGroup[h]]
    BY <1>1, AboveIsSolution
  <2> QED BY <2>1
<1> HIDE DEF up
<1>3. Ancestors = [h \in Groups |-> {h} \cup IF ParentGroup[h] = NoGroup THEN {} ELSE Ancestors[ParentGroup[h]]]
  BY <1>2 DEF Ancestors
<1> QED BY <1>3

(* and, the groups being trees, what is above a group above is above.      *)
LEMMA AncestorsAreAbove ==
  ASSUME NEW g \in Groups, NEW a \in Ancestors[g]
  PROVE  Ancestors[a] \subseteq Ancestors[g]
<1> DEFINE Bad(h) == \E b \in Ancestors[h] : ~(Ancestors[b] \subseteq Ancestors[h])
<1>1. PICK depth \in [Groups -> 0..Cardinality(Groups)] :
        \A h \in Groups : ParentGroup[h] # NoGroup => depth[ParentGroup[h]] < depth[h]
  BY GroupsAreTrees
<1>2. depth \in [Groups -> Nat]
  <2>1. Cardinality(Groups) \in Nat
    BY GroupsAreTrees, FS_CardinalityType
  <2> QED BY <1>1, <2>1
<1> SUFFICES ASSUME Bad(g) PROVE FALSE
  OBVIOUS
<1> DEFINE T == {depth[h] : h \in {x \in Groups : Bad(x)}}
<1>3. T \in SUBSET Nat /\ T # {}
  BY <1>2
<1>4. PICK m \in T : \A n \in T : m <= n
  <2> HIDE DEF T
  <2> QED BY <1>3, Least
<1>5. PICK h \in Groups : Bad(h) /\ m = depth[h]
  BY <1>4
<1>6. PICK b \in Ancestors[h] : ~(Ancestors[b] \subseteq Ancestors[h])
  BY <1>5
<1>7. Ancestors[h] = {h} \cup IF ParentGroup[h] = NoGroup THEN {} ELSE Ancestors[ParentGroup[h]]
  BY AncestorsAre
<1>8. ParentGroup[h] # NoGroup /\ b \in Ancestors[ParentGroup[h]] /\ ParentGroup[h] \in Groups
  BY <1>6, <1>7, MembershipAssumption
<1>9. ~Bad(ParentGroup[h])
  <2> SUFFICES ASSUME Bad(ParentGroup[h]) PROVE FALSE
    OBVIOUS
  <2>1. depth[ParentGroup[h]] \in T
    BY <1>8
  <2>2. m <= depth[ParentGroup[h]]
    BY <1>4, <2>1
  <2>3. depth[ParentGroup[h]] \in Nat /\ depth[h] \in Nat /\ depth[ParentGroup[h]] < depth[h]
    BY <1>1, <1>2, <1>8
  <2> QED BY <1>5, <2>2, <2>3
<1>10. Ancestors[b] \subseteq Ancestors[ParentGroup[h]]
  BY <1>8, <1>9
<1> QED BY <1>6, <1>7, <1>8, <1>10

LEMMA ParentsAreAncestors ==
  ASSUME NEW g \in Groups
  PROVE  /\ g \in Ancestors[g]
         /\ ParentGroup[g] # NoGroup => ParentGroup[g] \in Groups /\ Ancestors[ParentGroup[g]] \subseteq Ancestors[g]
BY AncestorsAre, MembershipAssumption

LEMMA Inherits ==
  ASSUME NEW g \in Groups, NEW a, Ancestors[a] \subseteq Ancestors[g], NEW u
  PROVE  Inherited(a, u) \subseteq Inherited(g, u) /\ (IsMember(a, u) => IsMember(g, u))
BY DEF Inherited, IsMember

LEMMA Ranks ==
  /\ Rank("read") = 1 /\ Rank("write") = 2 /\ Rank("admin") = 3
  /\ \A r : Rank(r) \in Nat
BY DEF Rank

LEMMA MembersRead ==
  ASSUME NEW u, IsMember(home, u)
  PROVE  CanRead(u)
<1>1. PICK a \in Inherited(home, u) : TRUE
  BY DEF IsMember
<1>2. PICK r : r = IF member[a][u].role \in {"owner", "admin"} THEN "write" ELSE "read"
  OBVIOUS
<1>3. r \in EffectiveRole(u)
  BY <1>1, <1>2 DEF EffectiveRole
<1>4. Rank(r) >= 1
  BY <1>2, Ranks
<1> QED BY <1>3, <1>4 DEF CanRead

(* The rules agree in every state of the rows. *)
LEMMA RulesAgree ==
  ASSUME home \in Groups, direct \in [People -> RepoRoles \cup {Nil}]
  PROVE  AccessAgrees
<1> SUFFICES ASSUME NEW u \in People
             PROVE  /\ CanAdmin(u) => CanWrite(u) \/ \E t \in Teams : team[t] # Nil /\ u \in team[t].members /\ TeamGroup[t] # home
                    /\ (\E g \in Groups : RepoListed(g, u)) \/ Accessible(u) \/ Searchable(u) => CanRead(u)
                    /\ \A g \in Groups : GroupListed(g, u) => Browsable(g, u)
                    /\ \A p, g \in Groups : SubgroupListed(p, g, u) => Browsable(g, u)
                    /\ CanWrite(u) => CanRead(u)
  BY DEF AccessAgrees
<1>1. ASSUME CanAdmin(u), ~\E t \in Teams : team[t] # Nil /\ u \in team[t].members /\ TeamGroup[t] # home
      PROVE  CanWrite(u)
  <2>1. CASE direct[u] = "admin"
    <3>1. "admin" \in EffectiveRole(u)
      BY <2>1 DEF EffectiveRole
    <3> QED BY <3>1, Ranks DEF CanWrite
  <2>2. ASSUME NEW t \in Teams, team[t] # Nil, u \in team[t].members, team[t].access = "admin"
        PROVE  CanWrite(u)
    <3>1. TeamGroup[t] = home
      BY <1>1, <2>2
    <3>2. "admin" \in EffectiveRole(u)
      BY <2>2, <3>1 DEF EffectiveRole
    <3> QED BY <3>2, Ranks DEF CanWrite
  <2>3. CASE Holds(home, u, {"owner", "admin"})
    <3>1. "write" \in EffectiveRole(u)
      BY <2>3 DEF EffectiveRole, Holds
    <3> QED BY <3>1, Ranks DEF CanWrite
  <2>4. ASSUME NEW a \in Inherited(home, u), CustomOf(a, u) # Nil, CustomOf(a, u).default = "admin"
        PROVE  CanWrite(u)
    <3>1. "admin" \in EffectiveRole(u)
      BY <2>4 DEF EffectiveRole
    <3> QED BY <3>1, Ranks DEF CanWrite
  <2> QED BY <1>1, <2>1, <2>2, <2>3, <2>4 DEF CanAdmin
<1>2. ASSUME Accessible(u) PROVE CanRead(u)
  <2>1. CASE IsRow(home, u)
    <3>1. IsMember(home, u)
      BY <2>1, ParentsAreAncestors DEF IsMember, Inherited
    <3> QED BY <3>1, MembersRead
  <2>2. CASE direct[u] # Nil
    <3>1. direct[u] \in {"read", "write", "admin"} /\ direct[u] \in EffectiveRole(u)
      BY <2>2 DEF EffectiveRole, RepoRoles
    <3>2. Rank(direct[u]) >= 1
      BY <3>1, Ranks
    <3> QED BY <3>1, <3>2 DEF CanRead
  <2> QED BY <1>2, <2>1, <2>2 DEF Accessible, CanRead
<1>3. ASSUME NEW g \in Groups, RepoListed(g, u) PROVE CanRead(u)
  <2>1. CASE public
    BY <2>1 DEF CanRead
  <2>2. CASE IsMember(g, u)
    <3>1. Ancestors[g] \subseteq Ancestors[home]
      BY <1>3, AncestorsAreAbove DEF RepoListed
    <3>2. IsMember(home, u)
      BY <2>2, <3>1, Inherits
    <3> QED BY <3>2, MembersRead
  <2> QED BY <1>3, <2>1, <2>2 DEF RepoListed
<1>4. ASSUME NEW g \in Groups, GroupListed(g, u) PROVE Browsable(g, u)
  BY <1>4, ParentsAreAncestors DEF GroupListed, Browsable
<1>5. ASSUME NEW p \in Groups, NEW g \in Groups, SubgroupListed(p, g, u) PROVE Browsable(g, u)
  <2>1. ParentGroup[g] # NoGroup /\ ParentGroup[g] = p
    BY <1>5, MembershipAssumption DEF SubgroupListed
  <2>2. Ancestors[p] \subseteq Ancestors[g]
    BY <2>1, ParentsAreAncestors
  <2>3. IsMember(p, u) => IsMember(g, u)
    BY <2>2, Inherits
  <2> QED BY <1>5, <2>3 DEF SubgroupListed, Browsable
<1>6. ASSUME CanWrite(u) PROVE CanRead(u)
  <2>1. PICK r \in EffectiveRole(u) : Rank(r) >= 2
    BY <1>6 DEF CanWrite
  <2>2. Rank(r) >= 1
    BY <2>1, Ranks
  <2> QED BY <2>2 DEF CanRead
<1> QED BY <1>1, <1>2, <1>3, <1>4, <1>5, <1>6 DEF Searchable

Changes(v) == v.op \in {"set", "remove"}
Visits == {NoVisit} \cup [op : {"set"}, group : Groups, user : People, role : OrgRoles, extra : CustomRoles \cup {Nil}]
                    \cup [op : {"remove"}, group : Groups, user : People, role : {Nil}, extra : {Nil}]
MemberTyped ==
  /\ member \in [Groups -> [People -> MemberRows \cup {Nil}]]
  /\ visit \in [MemberClients -> Visits] /\ owned \subseteq Groups
  /\ home \in Groups /\ direct \in [People -> RepoRoles \cup {Nil}]

(* A change of the members of a group that was not overlapped is the only   *)
(* one, and leaves an owner when it is made.                               *)
Alone == \A c, d \in MemberClients :
  Changes(visit[c]) /\ Changes(visit[d]) /\ visit[c].group = visit[d].group /\ visit[c].group \notin raced => c = d
IsOwner(g, u) == IsRow(g, u) /\ member[g][u].role = "owner"
LeavesOwner(c) ==
  Changes(visit[c]) /\ visit[c].group \notin raced =>
    (IsOwner(visit[c].group, visit[c].user) /\ (visit[c].op = "remove" \/ visit[c].role # "owner")
      => OtherOwner(visit[c].group, visit[c].user))

MemberInv == MemberTyped /\ GroupKeepsOwner /\ Alone /\ \A c \in MemberClients : LeavesOwner(c)

LEMMA VisitFields ==
  ASSUME NEW v \in Visits, Changes(v)
  PROVE  /\ v.group \in Groups /\ v.user \in People
         /\ v.op = "set" => v.role \in OrgRoles /\ v.extra \in CustomRoles \cup {Nil}
         /\ v.op = "remove" => v.role = Nil
BY DEF Visits, Changes, NoVisit

LEMMA MemberInitially == MemberInit => MemberInv
<1> SUFFICES ASSUME MemberInit PROVE MemberInv
  OBVIOUS
<1>1. PICK u \in People :
        /\ member = [g \in Groups |-> [v \in People |-> IF v = u THEN [role |-> "owner", custom |-> Nil] ELSE Nil]]
        /\ direct = [v \in People |-> IF v = u THEN "admin" ELSE Nil]
  BY DEF MemberInit
<1>2. PICK rec : rec = [role |-> "owner", custom |-> Nil]
  OBVIOUS
<1>3. rec \in MemberRows /\ rec.role = "owner" /\ rec # Nil
  BY <1>2, MembershipAssumption DEF MemberRows, OrgRoles
<1>4. member = [g \in Groups |-> [v \in People |-> IF v = u THEN rec ELSE Nil]]
  BY <1>1, <1>2
<1>5. visit = [c \in MemberClients |-> NoVisit] /\ owned = Groups /\ home \in Groups
  BY DEF MemberInit
<1>6. MemberTyped
  BY <1>1, <1>3, <1>4, <1>5 DEF MemberTyped, Visits, RepoRoles
<1>7. GroupKeepsOwner
  <2>1. \A g \in Groups : u \in Owners(g)
    BY <1>3, <1>4 DEF Owners, IsRow
  <2> QED BY <1>5, <2>1 DEF GroupKeepsOwner
<1>8. \A c \in MemberClients : ~Changes(visit[c])
  BY <1>5 DEF Changes, NoVisit
<1> QED BY <1>6, <1>7, <1>8 DEF MemberInv, Alone, LeavesOwner

OwnersIn(m) == {g \in Groups : \E u \in People : m[g][u] # Nil /\ m[g][u].role = "owner"}
LEMMA WriteIs ==
  ASSUME NEW m, Write(m)
  PROVE  member' = m /\ owned' \subseteq owned \cup OwnersIn(m)
BY DEF Write, OwnersIn

(* What a write of member rows keeps: in a group that is not counted as      *)
(* raced an owner is left, and no owner goes that a pending change relies   *)
(* on.                                                                     *)
LEMMA WriteKeeps ==
  ASSUME MemberInv, NEW m \in [Groups -> [People -> MemberRows \cup {Nil}]],
         member' = m, owned' \subseteq owned \cup OwnersIn(m), raced \subseteq raced',
         visit' \in [MemberClients -> Visits],
         \A c \in MemberClients : visit'[c] = visit[c] \/ ~Changes(visit'[c]),
         \A g \in Groups \ raced' :
           \/ \A u \in People : /\ m[g][u] # Nil <=> member[g][u] # Nil
                                /\ m[g][u] # Nil => m[g][u].role = member[g][u].role
           \/ /\ Owners(g) # {} => \E u \in People : m[g][u] # Nil /\ m[g][u].role = "owner"
              /\ \A c \in MemberClients : Changes(visit'[c]) => visit'[c].group # g,
         home' \in Groups, direct' \in [People -> RepoRoles \cup {Nil}]
  PROVE  MemberInv'
<1>1. member' = m /\ owned' \subseteq owned \cup {g \in Groups : \E u \in People : m[g][u] # Nil /\ m[g][u].role = "owner"}
  BY DEF OwnersIn
<1>2. MemberTyped'
  BY <1>1 DEF MemberInv, MemberTyped
<1>3. \A g \in Groups, u \in People : IsOwner(g, u)' <=> (m[g][u] # Nil /\ m[g][u].role = "owner")
  BY <1>1 DEF IsOwner, IsRow
<1>4. \A g : Owners(g) = {u \in People : IsOwner(g, u)}
  BY DEF Owners, IsOwner
<1>5. \A g : Owners(g)' = {u \in People : IsOwner(g, u)'}
  BY DEF Owners, IsOwner
<1>6. GroupKeepsOwner'
  <2> SUFFICES ASSUME NEW g \in owned' \ raced' PROVE Owners(g)' # {}
    BY DEF GroupKeepsOwner
  <2>1. g \in Groups
    BY <1>2 DEF MemberTyped
  <2>2. CASE \E u \in People : m[g][u] # Nil /\ m[g][u].role = "owner"
    BY <1>3, <1>5, <2>1, <2>2
  <2>3. CASE ~\E u \in People : m[g][u] # Nil /\ m[g][u].role = "owner"
    <3>1. Owners(g) # {}
      BY <1>1, <2>3 DEF MemberInv, GroupKeepsOwner
    <3>2. PICK u \in People : IsRow(g, u) /\ member[g][u].role = "owner"
      BY <3>1 DEF Owners
    <3>3. m[g][u] # Nil /\ m[g][u].role = "owner"
      BY <2>1, <2>3, <3>1, <3>2 DEF IsRow
    <3> QED BY <2>3, <3>3
  <2> QED BY <2>2, <2>3
<1>7. Alone'
  <2> SUFFICES ASSUME NEW c \in MemberClients, NEW d \in MemberClients, Changes(visit'[c]), Changes(visit'[d]),
                      visit'[c].group = visit'[d].group, visit'[c].group \notin raced'
               PROVE  c = d
    BY DEF Alone
  <2>1. visit'[c] = visit[c] /\ visit'[d] = visit[d] /\ visit[c].group \notin raced
    OBVIOUS
  <2> QED BY <2>1 DEF MemberInv, Alone
<1>8. ASSUME NEW c \in MemberClients PROVE LeavesOwner(c)'
  <2>1. PICK v : v = visit'[c]
    OBVIOUS
  <2>2. SUFFICES ASSUME Changes(v), v.group \notin raced', m[v.group][v.user] # Nil, m[v.group][v.user].role = "owner",
                        v.op = "remove" \/ v.role # "owner"
                 PROVE  \E x \in People \ {v.user} : m[v.group][x] # Nil /\ m[v.group][x].role = "owner"
    BY <1>1, <2>1 DEF LeavesOwner, IsOwner, OtherOwner, IsRow
  <2>3. visit[c] = v /\ v.group \notin raced /\ v \in Visits
    BY <2>1, <2>2
  <2>4. v.group \in Groups /\ v.user \in People
    BY <2>2, <2>3, VisitFields
  <2>5. \A u \in People : /\ m[v.group][u] # Nil <=> member[v.group][u] # Nil
                          /\ m[v.group][u] # Nil => m[v.group][u].role = member[v.group][u].role
    BY <2>1, <2>2, <2>4
  <2>6. IsOwner(v.group, v.user)
    BY <2>2, <2>4, <2>5 DEF IsOwner, IsRow
  <2>7. OtherOwner(v.group, v.user)
    BY <2>2, <2>3, <2>6 DEF MemberInv, LeavesOwner
  <2> QED BY <2>5, <2>7 DEF OtherOwner, IsRow
<1> QED BY <1>2, <1>6, <1>7, <1>8 DEF MemberInv

LEMMA MemberFacts ==
  ASSUME MemberInv
  PROVE  /\ member \in [Groups -> [People -> MemberRows \cup {Nil}]] /\ visit \in [MemberClients -> Visits]
         /\ home \in Groups /\ direct \in [People -> RepoRoles \cup {Nil}] /\ Nil \notin MemberRows
         /\ \A g \in Groups : (Owners(g) # {} <=> \E u \in People : member[g][u] # Nil /\ member[g][u].role = "owner")
BY MembershipAssumption DEF MemberInv, MemberTyped, Owners, IsRow

(* One row of one group is written. *)
WithRow(g, u, rec) == [member EXCEPT ![g][u] = rec]
LEMMA OneRow ==
  ASSUME MemberInv, NEW g \in Groups, NEW u \in People, NEW rec \in MemberRows \cup {Nil}
  PROVE  /\ WithRow(g, u, rec) \in [Groups -> [People -> MemberRows \cup {Nil}]]
         /\ WithRow(g, u, rec)[g][u] = rec /\ \A x \in People : x # u => WithRow(g, u, rec)[g][x] = member[g][x]
         /\ \A h \in Groups : h # g => WithRow(g, u, rec)[h] = member[h]
BY DEF MemberInv, MemberTyped, WithRow

LEMMA NewRow ==
  ASSUME NEW role \in OrgRoles, NEW x \in CustomRoles \cup {Nil}
  PROVE  [role |-> role, custom |-> x] \in MemberRows /\ [role |-> role, custom |-> x].role = role
BY DEF MemberRows

LEMMA AddMemberStep ==
  ASSUME MemberInv, NEW g \in Groups, NEW a \in People, NEW u \in People, AddMember(g, a, u)
  PROVE  MemberInv'
<1>1. PICK role \in OrgRoles, x \in Customs(g) :
        /\ ~IsRow(g, u) /\ Write([member EXCEPT ![g][u] = [role |-> role, custom |-> x]])
        /\ raced' = IF Changing(g) THEN raced \cup {g} ELSE raced
        /\ UNCHANGED <<policy, visit, syncs>>
  BY DEF AddMember
<1>2. PICK rec : rec = [role |-> role, custom |-> x]
  OBVIOUS
<1>3. PICK m : m = WithRow(g, u, rec)
  OBVIOUS
<1>4. rec \in MemberRows /\ rec.role = role
  BY <1>2, NewRow DEF Customs
<1>5. /\ m \in [Groups -> [People -> MemberRows \cup {Nil}]]
      /\ m[g][u] = rec /\ \A y \in People : y # u => m[g][y] = member[g][y]
      /\ \A h \in Groups : h # g => m[h] = member[h]
  BY <1>3, <1>4, OneRow
<1>6. Write(m)
  BY <1>1, <1>2, <1>3 DEF WithRow
<1>7. visit' = visit /\ home' = home /\ direct' = direct /\ raced \subseteq raced'
  BY <1>1 DEF policy
<1>8. \A h \in Groups \ raced' :
        \/ \A y \in People : (m[h][y] # Nil <=> member[h][y] # Nil) /\ (m[h][y] # Nil => m[h][y].role = member[h][y].role)
        \/ /\ Owners(h) # {} => \E y \in People : m[h][y] # Nil /\ m[h][y].role = "owner"
           /\ \A c \in MemberClients : Changes(visit'[c]) => visit'[c].group # h
  <2> SUFFICES ASSUME g \notin raced'
               PROVE  /\ Owners(g) # {} => \E y \in People : m[g][y] # Nil /\ m[g][y].role = "owner"
                      /\ \A c \in MemberClients : Changes(visit'[c]) => visit'[c].group # g
    BY <1>5
  <2>1. \A c \in MemberClients : Changes(visit[c]) => visit[c].group # g
    BY <1>1 DEF Changing, Changes
  <2>2. ASSUME NEW y \in People, IsRow(g, y), member[g][y].role = "owner"
        PROVE  m[g][y] # Nil /\ m[g][y].role = "owner"
    BY <1>1, <1>5, <2>2 DEF IsRow
  <2> QED BY <1>7, <2>1, <2>2 DEF Owners
<1> QED BY <1>5, <1>6, <1>7, <1>8, MemberFacts, WriteIs, WriteKeeps

(* A request to change a row is opened: it has looked for another owner.    *)
LEMMA OpensStep ==
  ASSUME MemberInv, NEW c \in MemberClients, NEW v \in Visits, Changes(v), Opens(c, v),
         IsOwner(v.group, v.user) /\ (v.op = "remove" \/ v.role # "owner") => OtherOwner(v.group, v.user)
  PROVE  MemberInv'
<1>1. /\ ~Changes(visit[c]) /\ visit' = [visit EXCEPT ![c] = v]
      /\ raced' = IF Changing(v.group) THEN raced \cup {v.group} ELSE raced
      /\ UNCHANGED <<member, owned, home, direct>>
  BY DEF Opens, policy, Changes
<1>2. visit' \in [MemberClients -> Visits] /\ visit'[c] = v
      /\ \A d \in MemberClients : d # c => visit'[d] = visit[d]
  BY <1>1 DEF MemberInv, MemberTyped
<1>3. MemberTyped'
  BY <1>1, <1>2 DEF MemberInv, MemberTyped
<1>4. \A g, u : (IsOwner(g, u)' <=> IsOwner(g, u)) /\ (OtherOwner(g, u)' <=> OtherOwner(g, u))
  BY <1>1 DEF IsOwner, OtherOwner, IsRow
<1>5. GroupKeepsOwner'
  <2>1. \A g : Owners(g)' = Owners(g)
    BY <1>1 DEF Owners, IsRow
  <2> QED BY <1>1, <2>1 DEF MemberInv, GroupKeepsOwner
<1>6. Alone'
  <2> SUFFICES ASSUME NEW d \in MemberClients, NEW e \in MemberClients, Changes(visit'[d]), Changes(visit'[e]),
                      visit'[d].group = visit'[e].group, visit'[d].group \notin raced', d # e
               PROVE  FALSE
    BY DEF Alone
  <2>1. CASE d # c /\ e # c
    BY <1>1, <1>2, <2>1 DEF MemberInv, Alone
  <2>2. CASE d = c \/ e = c
    <3>1. PICK o \in MemberClients : o # c /\ Changes(visit[o]) /\ visit[o].group = v.group
      BY <1>2, <2>2
    <3>2. Changing(v.group)
      BY <3>1 DEF Changing, Changes
    <3> QED BY <1>1, <1>2, <2>2, <3>2
  <2> QED BY <2>1, <2>2
<1>7. ASSUME NEW d \in MemberClients PROVE LeavesOwner(d)'
  <2>1. CASE d = c
    BY <1>2, <1>4, <2>1 DEF LeavesOwner
  <2>2. CASE d # c
    BY <1>1, <1>2, <1>4, <2>2 DEF LeavesOwner, MemberInv
  <2> QED BY <2>1, <2>2
<1> QED BY <1>3, <1>5, <1>6, <1>7 DEF MemberInv

LEMMA OpenSetStep ==
  ASSUME MemberInv, NEW c \in MemberClients, NEW g \in Groups, NEW a \in People, NEW u \in People, OpenSet(c, g, a, u)
  PROVE  MemberInv'
<1>1. PICK role \in OrgRoles, x \in Customs(g) :
        /\ member[g][u].role = "owner" /\ role # "owner" => OtherOwner(g, u)
        /\ Opens(c, [op |-> "set", group |-> g, user |-> u, role |-> role, extra |-> x])
  BY DEF OpenSet
<1>2. PICK v : v = [op |-> "set", group |-> g, user |-> u, role |-> role, extra |-> x]
  OBVIOUS
<1>3. v \in Visits /\ Changes(v) /\ v.group = g /\ v.user = u /\ v.op = "set" /\ v.role = role
  BY <1>2 DEF Visits, Changes, Customs
<1> QED BY <1>1, <1>2, <1>3, OpensStep DEF IsOwner

LEMMA OpenRemoveStep ==
  ASSUME MemberInv, NEW c \in MemberClients, NEW g \in Groups, NEW a \in People, NEW u \in People, OpenRemove(c, g, a, u)
  PROVE  MemberInv'
<1>1. PICK v : v = [op |-> "remove", group |-> g, user |-> u, role |-> Nil, extra |-> Nil]
  OBVIOUS
<1>2. v \in Visits /\ Changes(v) /\ v.group = g /\ v.user = u
  BY <1>1 DEF Visits, Changes
<1>3. Opens(c, v) /\ (member[g][u].role = "owner" => OtherOwner(g, u))
  BY <1>1 DEF OpenRemove
<1> QED BY <1>2, <1>3, OpensStep DEF IsOwner

(* The change is made. *)
LEMMA CommitStep ==
  ASSUME MemberInv, NEW c \in MemberClients, NEW v, v = visit[c], Changes(v), NEW rec \in MemberRows \cup {Nil},
         NEW m, m = member \/ m = WithRow(v.group, v.user, rec), Write(m), Closes(c),
         rec = Nil => v.op = "remove",
         rec # Nil => v.op = "set" /\ rec.role = v.role /\ IsRow(v.group, v.user)
  PROVE  MemberInv'
<1>1. v \in Visits /\ v.group \in Groups /\ v.user \in People
  BY VisitFields DEF MemberInv, MemberTyped
<1>2. m \in [Groups -> [People -> MemberRows \cup {Nil}]]
      /\ \A h \in Groups : h # v.group => m[h] = member[h]
  BY <1>1, OneRow, MemberFacts
<1>3. visit' = [visit EXCEPT ![c] = NoVisit] /\ home' = home /\ direct' = direct /\ raced' = raced
  BY DEF Closes, policy
<1>4. visit' \in [MemberClients -> Visits] /\ ~Changes(visit'[c])
      /\ \A d \in MemberClients : d # c => visit'[d] = visit[d]
  BY <1>3, MemberFacts DEF Visits, Changes, NoVisit
<1>5. \A h \in Groups \ raced' :
        \/ \A y \in People : (m[h][y] # Nil <=> member[h][y] # Nil) /\ (m[h][y] # Nil => m[h][y].role = member[h][y].role)
        \/ /\ Owners(h) # {} => \E y \in People : m[h][y] # Nil /\ m[h][y].role = "owner"
           /\ \A d \in MemberClients : Changes(visit'[d]) => visit'[d].group # h
  <2> SUFFICES ASSUME v.group \notin raced, m # member
               PROVE  /\ Owners(v.group) # {} => \E y \in People : m[v.group][y] # Nil /\ m[v.group][y].role = "owner"
                      /\ \A d \in MemberClients : Changes(visit'[d]) => visit'[d].group # v.group
    BY <1>2, <1>3
  <2>1. \A d \in MemberClients : Changes(visit'[d]) => visit'[d].group # v.group
    BY <1>3, <1>4 DEF MemberInv, Alone
  <2>2. m[v.group][v.user] = rec /\ \A y \in People : y # v.user => m[v.group][y] = member[v.group][y]
    BY <1>1, OneRow
  <2>3. ASSUME NEW o \in People, IsOwner(v.group, o)
        PROVE  \E y \in People : m[v.group][y] # Nil /\ m[v.group][y].role = "owner"
    <3>1. CASE o # v.user
      BY <2>2, <2>3, <3>1 DEF IsOwner, IsRow
    <3>2. CASE o = v.user /\ rec # Nil /\ v.role = "owner"
      BY <1>1, <2>2, <3>2
    <3>3. CASE o = v.user /\ ~(rec # Nil /\ v.role = "owner")
      <4>1. OtherOwner(v.group, v.user)
        BY <2>3, <3>3 DEF MemberInv, LeavesOwner
      <4>2. PICK x \in People \ {v.user} : IsRow(v.group, x) /\ member[v.group][x].role = "owner"
        BY <4>1 DEF OtherOwner
      <4> QED BY <2>2, <4>2 DEF IsRow
    <3> QED BY <3>1, <3>2, <3>3
  <2> QED BY <2>1, <2>3 DEF Owners, IsOwner
<1> QED BY <1>2, <1>3, <1>4, <1>5, MemberFacts, WriteIs, WriteKeeps

LEMMA CommitSetStep == ASSUME MemberInv, NEW c \in MemberClients, CommitSet(c) PROVE MemberInv'
<1>1. PICK v : v = visit[c]
  OBVIOUS
<1>2. v.op = "set" /\ Changes(v) /\ Closes(c)
      /\ Write(IF IsRow(v.group, v.user) /\ (v.extra # Nil => custom[v.extra] # Nil)
               THEN [member EXCEPT ![v.group][v.user] = [role |-> v.role, custom |-> v.extra]] ELSE member)
  BY <1>1 DEF CommitSet, Changes
<1>3. v \in Visits
  BY <1>1, MemberFacts
<1>4. PICK rec : rec = [role |-> v.role, custom |-> v.extra]
  OBVIOUS
<1>5. rec \in MemberRows /\ rec.role = v.role /\ rec # Nil
  BY <1>2, <1>3, <1>4, VisitFields, NewRow, MemberFacts
<1>6. CASE IsRow(v.group, v.user) /\ (v.extra # Nil => custom[v.extra] # Nil)
  <2>1. PICK m : m = WithRow(v.group, v.user, rec)
    OBVIOUS
  <2>2. Write(m)
    BY <1>2, <1>4, <1>6, <2>1 DEF WithRow
  <2> QED BY <1>1, <1>2, <1>5, <1>6, <2>1, <2>2, CommitStep
<1>7. CASE ~(IsRow(v.group, v.user) /\ (v.extra # Nil => custom[v.extra] # Nil))
  <2>1. Write(member)
    BY <1>2, <1>7
  <2>2. visit' = [visit EXCEPT ![c] = NoVisit] /\ home' = home /\ direct' = direct /\ raced' = raced
    BY <1>2 DEF Closes, policy
  <2>3. visit' \in [MemberClients -> Visits] /\ \A d \in MemberClients : visit'[d] = visit[d] \/ ~Changes(visit'[d])
    BY <2>2, MemberFacts DEF Visits, Changes, NoVisit
  <2> QED BY <2>1, <2>2, <2>3, MemberFacts, WriteIs, WriteKeeps
<1> QED BY <1>6, <1>7

LEMMA CommitRemoveStep == ASSUME MemberInv, NEW c \in MemberClients, CommitRemove(c) PROVE MemberInv'
<1>1. PICK v : v = visit[c]
  OBVIOUS
<1>2. v.op = "remove" /\ Changes(v) /\ Closes(c)
  BY <1>1 DEF CommitRemove, Changes
<1>3. PICK m : m = WithRow(v.group, v.user, Nil)
  OBVIOUS
<1>4. Write(m)
  BY <1>1, <1>3 DEF CommitRemove, WithRow
<1> QED BY <1>1, <1>2, <1>3, <1>4, CommitStep

(* A step that leaves the members and the requests alone. *)
LEMMA RowsStay ==
  ASSUME MemberInv, UNCHANGED <<member, visit, owned, raced>>, home' \in Groups,
         direct' \in [People -> RepoRoles \cup {Nil}]
  PROVE  MemberInv'
<1>1. MemberTyped'
  BY DEF MemberInv, MemberTyped
<1>2. \A g, u : (IsOwner(g, u)' <=> IsOwner(g, u)) /\ (OtherOwner(g, u)' <=> OtherOwner(g, u))
  BY DEF IsOwner, OtherOwner, IsRow
<1>3. GroupKeepsOwner'
  <2>1. \A g : Owners(g)' = Owners(g)
    BY DEF Owners, IsRow
  <2> QED BY <2>1 DEF MemberInv, GroupKeepsOwner
<1>4. Alone' /\ \A c \in MemberClients : LeavesOwner(c)'
  BY <1>2 DEF MemberInv, Alone, LeavesOwner
<1> QED BY <1>1, <1>3, <1>4 DEF MemberInv

LEMMA SyncLdapStep ==
  ASSUME MemberInv, NEW g \in Groups, NEW u \in People, SyncLdap(g, u, "member")
  PROVE  MemberInv'
<1>1. /\ Write([member EXCEPT ![g][u] = [role |-> "member", custom |-> IF IsRow(g, u) THEN @.custom ELSE Nil]])
      /\ raced' = raced \cup {g} /\ UNCHANGED <<policy, visit>>
  BY DEF SyncLdap
<1>2. PICK rec : rec = [role |-> "member", custom |-> IF IsRow(g, u) THEN member[g][u].custom ELSE Nil]
  OBVIOUS
<1>3. rec \in MemberRows \cup {Nil}
  <2>1. member[g][u] \in MemberRows \cup {Nil}
    BY MemberFacts
  <2>2. (IF IsRow(g, u) THEN member[g][u].custom ELSE Nil) \in CustomRoles \cup {Nil}
    BY <2>1 DEF IsRow, MemberRows
  <2> QED BY <1>2, <2>2, NewRow DEF OrgRoles
<1>4. PICK m : m = WithRow(g, u, rec)
  OBVIOUS
<1>5. Write(m)
  <2>1. member \in [Groups -> [People -> MemberRows \cup {Nil}]]
    BY MemberFacts
  <2>2. m = [member EXCEPT ![g][u] = [role |-> "member", custom |-> IF IsRow(g, u) THEN @.custom ELSE Nil]]
    BY <1>2, <1>4, <2>1 DEF WithRow
  <2> QED BY <1>1, <2>2
<1>6. m \in [Groups -> [People -> MemberRows \cup {Nil}]] /\ \A h \in Groups : h # g => m[h] = member[h]
  BY <1>3, <1>4, OneRow
<1>7. visit' = visit /\ home' = home /\ direct' = direct /\ raced \subseteq raced' /\ g \in raced'
  BY <1>1 DEF policy
<1>8. \A h \in Groups \ raced' : m[h] = member[h]
  BY <1>6, <1>7
<1> QED BY <1>5, <1>6, <1>7, <1>8, MemberFacts, WriteIs, WriteKeeps

LEMMA DropUserStep == ASSUME MemberInv, NEW u \in People, DropUser(u) PROVE MemberInv'
<1>1. /\ Write([g \in Groups |-> [member[g] EXCEPT ![u] = Nil]])
      /\ direct' = [direct EXCEPT ![u] = Nil] /\ raced' = raced \cup {g \in Groups : IsRow(g, u)}
      /\ UNCHANGED <<home, visit>>
  BY DEF DropUser
<1>2. PICK m : m = [g \in Groups |-> [member[g] EXCEPT ![u] = Nil]]
  OBVIOUS
<1>3. member \in [Groups -> [People -> MemberRows \cup {Nil}]]
  BY MemberFacts
<1>4. m \in [Groups -> [People -> MemberRows \cup {Nil}]]
  BY <1>2, <1>3
<1>5. direct' \in [People -> RepoRoles \cup {Nil}]
  BY <1>1, MemberFacts
<1>6. \A h \in Groups \ raced', y \in People : m[h][y] = member[h][y]
  BY <1>1, <1>2, <1>3 DEF IsRow
<1>7. Write(m)
  BY <1>1, <1>2
<1> QED BY <1>1, <1>4, <1>5, <1>6, <1>7, MemberFacts, WriteIs, WriteKeeps

LEMMA SetCustomRoleStep ==
  ASSUME MemberInv, NEW a \in People, NEW c \in CustomRoles, NEW rec, SetCustomRole(a, c, rec)
  PROVE  MemberInv'
<1>1. /\ UNCHANGED <<visit, owned, raced, home, direct>>
      /\ member' = IF rec # Nil THEN member
                   ELSE [g \in Groups |-> [u \in People |->
                           IF IsRow(g, u) /\ member[g][u].custom = c THEN [member[g][u] EXCEPT !.custom = Nil]
                                                                    ELSE member[g][u]]]
  BY DEF SetCustomRole, Policy
<1>2. CASE rec # Nil
  BY <1>1, <1>2, MemberFacts, RowsStay
<1>3. CASE rec = Nil
  <2>1. member \in [Groups -> [People -> MemberRows \cup {Nil}]]
    BY MemberFacts
  <2>2. \A g \in Groups, u \in People :
          /\ member'[g][u] \in MemberRows \cup {Nil} /\ (member'[g][u] # Nil <=> member[g][u] # Nil)
          /\ member'[g][u] # Nil => member'[g][u].role = member[g][u].role
    <3> SUFFICES ASSUME NEW g \in Groups, NEW u \in People
                 PROVE  /\ member'[g][u] \in MemberRows \cup {Nil} /\ (member'[g][u] # Nil <=> member[g][u] # Nil)
                        /\ member'[g][u] # Nil => member'[g][u].role = member[g][u].role
      OBVIOUS
    <3>1. member'[g][u] = IF IsRow(g, u) /\ member[g][u].custom = c THEN [member[g][u] EXCEPT !.custom = Nil]
                                                                    ELSE member[g][u]
      BY <1>1, <1>3
    <3>2. CASE IsRow(g, u) /\ member[g][u].custom = c
      <4>1. member[g][u] \in MemberRows
        BY <2>1, <3>2 DEF IsRow
      <4>2. [member[g][u] EXCEPT !.custom = Nil] \in MemberRows
            /\ [member[g][u] EXCEPT !.custom = Nil].role = member[g][u].role
        BY <4>1 DEF MemberRows
      <4> QED BY <3>1, <3>2, <4>2, MembershipAssumption DEF IsRow
    <3>3. CASE ~(IsRow(g, u) /\ member[g][u].custom = c)
      BY <2>1, <3>1, <3>3
    <3> QED BY <3>2, <3>3
  <2>3. PICK m : m = member'
    OBVIOUS
  <2>4. m \in [Groups -> [People -> MemberRows \cup {Nil}]]
    <3>1. m = [g \in Groups |-> [u \in People |-> member'[g][u]]]
      BY <1>1, <1>3, <2>3
    <3> QED BY <2>2, <3>1
  <2>5. member' = m /\ owned' \subseteq owned \cup OwnersIn(m) /\ visit' = visit
        /\ home' = home /\ direct' = direct /\ raced' = raced
    BY <1>1, <2>3
  <2>6. \A g \in Groups, u \in People : /\ m[g][u] # Nil <=> member[g][u] # Nil
                                        /\ m[g][u] # Nil => m[g][u].role = member[g][u].role
    BY <2>2, <2>3
  <2> QED BY <2>4, <2>5, <2>6, MemberFacts, WriteKeeps
<1> QED BY <1>2, <1>3

(* The other handlers write the repository's home, visibility and direct     *)
(* permissions, and the teams.                                             *)
LEMMA PolicySteps ==
  ASSUME MemberInv, NEW a \in People,
         \/ \E u \in People, r \in RepoRoles \cup {Nil} : SetCollaborator(a, u, r)
         \/ \E t \in Teams : \/ ToggleTeam(a, t) \/ \E u \in People : JoinTeam(a, t, u)
                             \/ \E r \in RepoRoles \cup {Nil} : SetTeamAccess(a, t, r)
         \/ \E g \in Groups : TransferHome(a, g)
         \/ SetVisibility(a)
  PROVE  MemberInv'
<1>1. UNCHANGED <<member, visit, owned, raced>>
  BY DEF SetCollaborator, ToggleTeam, JoinTeam, SetTeamAccess, TransferHome, SetVisibility, Policy
<1>2. home' \in Groups
  BY MemberFacts DEF SetCollaborator, ToggleTeam, JoinTeam, SetTeamAccess, TransferHome, SetVisibility
<1>3. direct' \in [People -> RepoRoles \cup {Nil}]
  BY MemberFacts DEF SetCollaborator, ToggleTeam, JoinTeam, SetTeamAccess, TransferHome, SetVisibility
<1> QED BY <1>1, <1>2, <1>3, RowsStay

LEMMA MemberStep == MemberInv /\ [MemberNext]_memberVars => MemberInv'
<1> SUFFICES ASSUME MemberInv, [MemberNext]_memberVars PROVE MemberInv'
  OBVIOUS
<1>1. CASE UNCHANGED memberVars
  <2>1. UNCHANGED <<member, visit, owned, raced, home, direct>>
    BY <1>1 DEF memberVars
  <2> QED BY <2>1, MemberFacts, RowsStay
<1>2. ASSUME NEW g \in Groups, NEW a \in People, NEW u \in People,
             AddMember(g, a, u) \/ \E c \in MemberClients : OpenSet(c, g, a, u) \/ OpenRemove(c, g, a, u)
      PROVE  MemberInv'
  BY <1>2, AddMemberStep, OpenSetStep, OpenRemoveStep
<1>3. ASSUME NEW c \in MemberClients, CommitSet(c) \/ CommitRemove(c) PROVE MemberInv'
  BY <1>3, CommitSetStep, CommitRemoveStep
<1>4. ASSUME NEW u \in People, DropUser(u) \/ \E g \in Groups : SyncLdap(g, u, "member") PROVE MemberInv'
  BY <1>4, DropUserStep, SyncLdapStep
<1>5. ASSUME NEW a \in People, NEW c \in CustomRoles, NEW rec \in CustomRows, SetCustomRole(a, c, rec) PROVE MemberInv'
  BY <1>5, SetCustomRoleStep
<1> QED BY <1>1, <1>2, <1>3, <1>4, <1>5, PolicySteps DEF MemberNext

(* Whoever may manage or is shown a repository may open it, and a group      *)
(* keeps an owner unless two changes overlapped (git/src/access.rs,         *)
(* api/src/permissions.rs).                                                *)
THEOREM AccessIsSound == MemberSpec => []AccessSound
<1>1. MemberInit => MemberInv
  BY MemberInitially
<1>2. MemberInv /\ [MemberNext]_memberVars => MemberInv'
  BY MemberStep
<1>3. MemberInv => AccessSound
  BY RulesAgree DEF MemberInv, MemberTyped, AccessSound
<1> QED BY <1>1, <1>2, <1>3, PTL DEF MemberSpec

-----------------------------------------------------------------------------
(***************************************************************************)
(* ImportSound for any number of repositories, workers, issues and faults. *)
(***************************************************************************)
ImportRow == [status : Open \cup Settled, stale : BOOLEAN, linked : BOOLEAN]
Worker == [pc : {"idle", "read", "next", "create", "claim", "mirror", "upsert", "bump", "finish"},
           todo : SUBSET (ImportRows \X Open \X BOOLEAN), at : ImportRows \cup {Nothing},
           fails : Nat, count : Nat]
ImportTyped ==
  /\ job \in [status : {"pending", "mirroring", "done", "failed", "gone"}, stale : BOOLEAN]
  /\ options \in [skip : BOOLEAN, issues : BOOLEAN]
  /\ row \in [JobRows -> ImportRow] /\ JobRows \subseteq ImportRows
  /\ disk \in [ImportRows -> {"absent", "shell", "local", "mirror"}] /\ before \subseteq ImportRows
  /\ next \in [ImportRows -> Nat] /\ imported \in [ImportRows -> SUBSET Nat]
  /\ importer \in [ImportWorkers -> Worker]

(* The work of a worker: the repository it is at, and those it has read.    *)
Has(x, r) == x.at = r \/ \E e \in x.todo : e[1] = r
Mirrors(x, r) == x.at = r /\ x.pc \in {"mirror", "upsert", "bump", "finish"}
Reaches(x, r) == \/ x.at = r /\ x.pc \in {"create", "claim"}
                 \/ \E e \in x.todo : e[1] = r /\ e[2] # "metadata"
WorkFits(x) ==
  /\ x.pc \in {"idle", "read"} => x.todo = {}
  /\ x.pc \in {"idle", "read", "next"} <=> x.at = Nothing
  /\ x.at # Nothing => x.at \in JobRows /\ \A e \in x.todo : e[1] # x.at
  /\ \A e \in x.todo : e[1] \in JobRows /\ (e[2] # "pending" => e[3])
  /\ \A e, f \in x.todo : e[1] = f[1] => e = f

(* A row is linked to its repository when it is claimed, and never pending  *)
(* again; a repository of the user's is not linked if it is to be skipped. *)
Linked(r) ==
  /\ row[r].linked => row[r].status # "pending"
  /\ row[r].status \in {"mirroring", "metadata"} => row[r].linked
  /\ options.skip /\ row[r].linked => r \notin before
Links(x) ==
  /\ \A r \in JobRows : Mirrors(x, r) => row[r].linked
  /\ \A e \in x.todo : e[3] => row[e[1]].linked
  /\ options.skip /\ x.pc \in {"create", "claim"} => x.at \notin before

(* A repository two workers have at a time is contested, and so is one that *)
(* was claimed or settled under a worker that has read it.                 *)
Overlap == \A t, u \in ImportWorkers, r \in JobRows :
  t # u /\ Has(importer[t], r) /\ Has(importer[u], r) => r \in contested
SettledUnder == \A t \in ImportWorkers, r \in JobRows :
  Has(importer[t], r) /\ row[r].status \in Settled => r \in contested
BusyRow(r) == row[r].status = "metadata" \/ (row[r].status = "mirroring" /\ ~row[r].stale)
ClaimedUnder == \A t \in ImportWorkers, r \in JobRows :
  Reaches(importer[t], r) /\ BusyRow(r) => r \in contested

(* A row under way has a worker at work, or one that died; a row that is    *)
(* open has been passed over only by a worker that met another there.      *)
UnderWay == job.status # "gone" => \A r \in JobRows :
  row[r].status \in {"mirroring", "metadata"} =>
    r \in orphaned \/ \E t \in ImportWorkers : Mirrors(importer[t], r)
PassedOver(r) == row[r].status \in Open => row[r].status # "pending" /\ r \in contested
Passes == job.status # "gone" => \A t \in ImportWorkers, r \in JobRows :
  importer[t].pc \notin {"idle", "read"} /\ ~Has(importer[t], r) => PassedOver(r)
EndedPasses == job.status \in {"done", "failed"} => \A r \in JobRows : PassedOver(r)

(* The counter is behind the issues only between the import and its end.    *)
CounterStays == \A r \in ImportRows :
  /\ imported[r] \subseteq 0..RemoteIssues
  /\ r \notin short /\ (~\E t \in ImportWorkers : importer[t].pc = "bump" /\ importer[t].at = r)
       => \A n \in imported[r] : n < next[r]

RowsInv ==
  /\ (\A t \in ImportWorkers : WorkFits(importer[t]) /\ Links(importer[t]))
  /\ (\A r \in JobRows : Linked(r))
  /\ Overlap /\ SettledUnder /\ ClaimedUnder /\ UnderWay /\ Passes /\ EndedPasses
ImportInv == ImportTyped /\ RowsInv /\ OneMirror /\ LocalKept /\ CounterStays

LEMMA ImportInitially == ImportInit => ImportInv
<1> SUFFICES ASSUME ImportInit PROVE ImportInv
  OBVIOUS
<1> USE ImportAssumption
<1>1. ImportIdle \in Worker /\ WorkFits(ImportIdle) /\ \A r \in ImportRows : ~Has(ImportIdle, r) /\ ImportIdle.pc = "idle"
  BY DEF ImportIdle, Worker, WorkFits, Has
<1>2. PICK S \in SUBSET ImportRows : row = [r \in S |-> [status |-> "pending", stale |-> FALSE, linked |-> FALSE]]
  BY DEF ImportInit
<1>3. JobRows = S /\ JobRows \subseteq ImportRows
  BY <1>2 DEF JobRows
<1>4. \A r \in JobRows : row[r].status = "pending" /\ row[r].linked = FALSE
  BY <1>2, <1>3
<1>5. row \in [JobRows -> ImportRow]
  BY <1>2, <1>3 DEF ImportRow, Open
<1>6. \A t \in ImportWorkers : importer[t] = ImportIdle
  BY DEF ImportInit
<1>7. ImportTyped
  BY <1>1, <1>3, <1>5 DEF ImportInit, ImportTyped
<1>8. RowsInv
  <2>1. \A t \in ImportWorkers : WorkFits(importer[t]) /\ Links(importer[t])
    BY <1>1, <1>6 DEF Links, Mirrors, ImportIdle
  <2>2. \A r \in JobRows : Linked(r)
    BY <1>4 DEF Linked
  <2>3. Overlap /\ SettledUnder
    BY <1>1, <1>3, <1>6 DEF Overlap, SettledUnder
  <2>4. ClaimedUnder /\ UnderWay
    BY <1>4 DEF ClaimedUnder, UnderWay, BusyRow
  <2>5. Passes /\ EndedPasses
    BY <1>1, <1>6 DEF Passes, EndedPasses, ImportInit
  <2> QED BY <2>1, <2>2, <2>3, <2>4, <2>5 DEF RowsInv
<1>9. OneMirror
  BY <1>6 DEF OneMirror, Doing, ImportIdle
<1>10. LocalKept
  BY DEF ImportInit, LocalKept
<1>11. CounterStays
  BY DEF ImportInit, CounterStays
<1> QED BY <1>7, <1>8, <1>9, <1>10, <1>11 DEF ImportInv

(* A worker moves on with the row it has in hand. *)
Moves(t, r) ==
  /\ importer' \in [ImportWorkers -> Worker] /\ (\A u \in ImportWorkers \ {t} : importer'[u] = importer[u])
  /\ row' \in [JobRows -> ImportRow] /\ (\A q \in JobRows \ {r} : row'[q] = row[q])
  /\ UNCHANGED <<job, options, before, contested, orphaned>>
  /\ importer[t].pc \notin {"idle", "read"} /\ Has(importer[t], r)
  /\ \A q \in JobRows \ {r} : /\ ~Mirrors(importer[t], q)
                              /\ Has(importer'[t], q) <=> Has(importer[t], q)
  /\ \A q \in JobRows : Reaches(importer'[t], q) => Reaches(importer[t], q)
  /\ row[r].linked => row'[r].linked
  /\ row'[r].status = "pending" => row[r].status = "pending"
  /\ Has(importer'[t], r) /\ row'[r].status \in Settled => row[r].status \in Settled
  /\ Reaches(importer'[t], r) => row'[r] = row[r]
  /\ job.status # "gone" /\ row'[r].status \in {"mirroring", "metadata"} =>
       \/ Mirrors(importer'[t], r)
       \/ row[r].status \in {"mirroring", "metadata"} /\ ~Mirrors(importer[t], r)
  /\ job.status # "gone" /\ ~Has(importer'[t], r) =>
       row'[r].status \in Settled \/ (row'[r].status # "pending" /\ r \in contested)
  /\ WorkFits(importer[t])' /\ Links(importer[t])' /\ Linked(r)'

LEMMA MovesKeep ==
  ASSUME ImportTyped, RowsInv, NEW t \in ImportWorkers, NEW r \in JobRows, Moves(t, r)
  PROVE  RowsInv'
<1>1. JobRows' = JobRows
  BY DEF Moves, JobRows
<1>2. \A u \in ImportWorkers : u # t => importer'[u] = importer[u]
  BY DEF Moves
<1>3. \A q \in JobRows : q # r => row'[q] = row[q]
  BY DEF Moves
<1>4. \A q \in JobRows : Has(importer'[t], q) => Has(importer[t], q)
  <2>1. Has(importer[t], r)
    BY DEF Moves
  <2>2. \A q \in JobRows \ {r} : Has(importer'[t], q) => Has(importer[t], q)
    BY DEF Moves, Has
  <2> QED BY <2>1, <2>2
<1>5. \A q \in JobRows : /\ row[q] \in ImportRow /\ row'[q] \in ImportRow
                         /\ row[q].linked => row'[q].linked
                         /\ row'[q].status = "pending" => row[q].status = "pending"
  BY <1>3 DEF Moves, ImportTyped
<1>6. job' = job /\ options' = options /\ before' = before /\ contested' = contested /\ orphaned' = orphaned
  BY DEF Moves
<1>7. \A u \in ImportWorkers : (WorkFits(importer[u]) /\ Links(importer[u]))'
  <2> SUFFICES ASSUME NEW u \in ImportWorkers, u # t PROVE (WorkFits(importer[u]) /\ Links(importer[u]))'
    BY DEF Moves
  <2>1. importer'[u] = importer[u] /\ WorkFits(importer[u]) /\ Links(importer[u])
    BY <1>2 DEF RowsInv
  <2>2. WorkFits(importer[u])'
    BY <2>1, <1>1 DEF WorkFits
  <2>3. Links(importer[u])'
    BY <2>1, <1>1, <1>5, <1>6 DEF Links, WorkFits
  <2> QED BY <2>2, <2>3
<1>8. \A q \in JobRows' : Linked(q)'
  BY <1>1, <1>3, <1>6 DEF Moves, RowsInv, Linked
<1>9. Overlap'
  BY <1>1, <1>2, <1>4, <1>6 DEF RowsInv, Overlap
<1>10. SettledUnder'
  <2> SUFFICES ASSUME NEW u \in ImportWorkers, NEW q \in JobRows,
                      Has(importer'[u], q), row'[q].status \in Settled
               PROVE  q \in contested
    BY <1>1, <1>6 DEF SettledUnder
  <2>1. Has(importer[u], q)
    BY <1>2, <1>4
  <2>2. row[q].status \in Settled \/ (q = r /\ u # t)
    BY <1>3 DEF Moves
  <2>3. CASE q = r /\ u # t
    BY <2>1, <2>3 DEF Moves, RowsInv, Overlap
  <2> QED BY <2>1, <2>2, <2>3 DEF RowsInv, SettledUnder
<1>11. ClaimedUnder'
  <2> SUFFICES ASSUME NEW u \in ImportWorkers, NEW q \in JobRows, Reaches(importer'[u], q), BusyRow(q)'
               PROVE  q \in contested
    BY <1>1, <1>6 DEF ClaimedUnder
  <2>1. Reaches(importer[u], q)
    BY <1>2 DEF Moves
  <2>2. CASE row'[q] = row[q]
    <3>1. BusyRow(q)
      BY <2>2 DEF BusyRow
    <3> QED BY <2>1, <3>1 DEF RowsInv, ClaimedUnder
  <2>3. CASE row'[q] # row[q]
    <3>1. q = r /\ u # t
      BY <2>3, <1>3 DEF Moves
    <3>2. Has(importer[u], r) /\ Has(importer[t], r)
      BY <2>1, <3>1 DEF Reaches, Has, Moves
    <3> QED BY <3>1, <3>2 DEF RowsInv, Overlap
  <2> QED BY <2>2, <2>3
<1>12. UnderWay'
  <2> SUFFICES ASSUME job.status # "gone", NEW q \in JobRows, row'[q].status \in {"mirroring", "metadata"},
                      q \notin orphaned
               PROVE  \E u \in ImportWorkers : Mirrors(importer'[u], q)
    BY <1>1, <1>6 DEF UnderWay
  <2>1. CASE q = r /\ Mirrors(importer'[t], r)
    BY <2>1
  <2>2. CASE ~(q = r /\ Mirrors(importer'[t], r))
    <3>1. row[q].status \in {"mirroring", "metadata"} /\ ~Mirrors(importer[t], q)
      <4>1. CASE q = r
        BY <2>2, <4>1 DEF Moves, Mirrors
      <4>2. CASE q # r
        BY <1>3, <4>2 DEF Moves
      <4> QED BY <4>1, <4>2
    <3>2. PICK u \in ImportWorkers : Mirrors(importer[u], q)
      BY <3>1 DEF RowsInv, UnderWay
    <3> QED BY <3>1, <3>2, <1>2
  <2> QED BY <2>1, <2>2
<1>13. ASSUME NEW q \in JobRows, PassedOver(q) PROVE PassedOver(q)'
  <2>1. CASE q # r
    BY <1>3, <1>6, <1>13, <2>1 DEF PassedOver
  <2>2. CASE q = r /\ row[r].status \in Open
    BY <1>5, <1>6, <1>13, <2>2 DEF PassedOver
  <2>3. CASE q = r /\ row[r].status \notin Open
    <3>1. row[r].status \in Settled /\ row[r].status # "pending"
      BY <1>5, <2>3 DEF ImportRow, Open
    <3>2. r \in contested
      BY <3>1 DEF Moves, RowsInv, SettledUnder
    <3> QED BY <1>5, <1>6, <2>3, <3>1, <3>2 DEF PassedOver
  <2> QED BY <2>1, <2>2, <2>3
<1>14. Passes'
  <2> SUFFICES ASSUME job.status # "gone", NEW u \in ImportWorkers, NEW q \in JobRows,
                      importer'[u].pc \notin {"idle", "read"}, ~Has(importer'[u], q)
               PROVE  PassedOver(q)'
    BY <1>1, <1>6 DEF Passes
  <2>1. CASE u # t
    BY <1>2, <1>13, <2>1 DEF RowsInv, Passes
  <2>2. CASE u = t /\ q # r
    BY <1>13, <2>2 DEF Moves, RowsInv, Passes
  <2>3. CASE u = t /\ q = r
    BY <1>6, <2>3 DEF Moves, PassedOver, Open, Settled
  <2> QED BY <2>1, <2>2, <2>3
<1>15. EndedPasses'
  BY <1>1, <1>6, <1>13 DEF RowsInv, EndedPasses
<1> QED BY <1>7, <1>8, <1>9, <1>10, <1>11, <1>12, <1>14, <1>15 DEF RowsInv
(* What the steps of a worker do to its record and to a row. *)
Others(t) == \A u \in ImportWorkers \ {t} : importer'[u] = importer[u]
LEMMA RecordIs ==
  ASSUME ImportTyped, NEW t \in ImportWorkers
  PROVE  /\ importer[t] \in Worker
         /\ \A z \in Worker : importer' = [importer EXCEPT ![t] = z] =>
              importer' \in [ImportWorkers -> Worker] /\ Others(t) /\ importer'[t] = z
BY DEF ImportTyped, Others

LEMMA GoesIs ==
  ASSUME ImportTyped, NEW t \in ImportWorkers,
         NEW pc \in {"idle", "read", "next", "create", "claim", "mirror", "upsert", "bump", "finish"}, Goes(t, pc)
  PROVE  /\ importer' \in [ImportWorkers -> Worker] /\ Others(t)
         /\ importer'[t].pc = pc /\ importer'[t].at = importer[t].at /\ importer'[t].todo = importer[t].todo
<1>1. PICK x : x = importer[t]
  OBVIOUS
<1>2. PICK z : z = [x EXCEPT !.pc = pc]
  OBVIOUS
<1>3. x \in Worker
  BY <1>1, RecordIs
<1>4. z \in Worker /\ z.pc = pc /\ z.at = x.at /\ z.todo = x.todo
  BY <1>2, <1>3 DEF Worker
<1>5. importer' = [importer EXCEPT ![t] = z]
  BY <1>1, <1>2 DEF Goes
<1> QED BY <1>1, <1>4, <1>5, RecordIs

LEMMA NextRowIs ==
  ASSUME ImportTyped, NEW t \in ImportWorkers, NextRow(t)
  PROVE  /\ importer' \in [ImportWorkers -> Worker] /\ Others(t)
         /\ importer'[t].pc = "next" /\ importer'[t].at = Nothing /\ importer'[t].todo = importer[t].todo
<1>1. PICK x : x = importer[t]
  OBVIOUS
<1>2. PICK z : z = [x EXCEPT !.pc = "next", !.at = Nothing]
  OBVIOUS
<1>3. x \in Worker
  BY <1>1, RecordIs
<1>4. z \in Worker /\ z.pc = "next" /\ z.at = Nothing /\ z.todo = x.todo
  BY <1>2, <1>3 DEF Worker
<1>5. importer' = [importer EXCEPT ![t] = z]
  BY <1>1, <1>2 DEF NextRow
<1> QED BY <1>1, <1>4, <1>5, RecordIs

LEMMA SetRowIs ==
  ASSUME ImportTyped, NEW r \in JobRows, NEW s \in Open \cup Settled, SetRow(r, s)
  PROVE  /\ row' \in [JobRows -> ImportRow] /\ \A q \in JobRows \ {r} : row'[q] = row[q]
         /\ row'[r].linked = row[r].linked
         /\ job.status = "gone" => row' = row
         /\ job.status # "gone" => row'[r].status = s
<1>1. PICK x : x = row[r]
  OBVIOUS
<1>2. PICK y : y = [x EXCEPT !.status = s, !.stale = FALSE]
  OBVIOUS
<1>3. row \in [JobRows -> ImportRow]
  BY DEF ImportTyped
<1>4. x \in ImportRow
  BY <1>1, <1>3
<1>5. y \in ImportRow /\ y.status = s /\ y.linked = x.linked
  BY <1>2, <1>4 DEF ImportRow
<1>6. CASE job.status = "gone"
  <2>1. row' = row
    BY <1>6 DEF SetRow
  <2> QED BY <1>3, <1>6, <2>1
<1>7. CASE job.status # "gone"
  <2>1. row' = [row EXCEPT ![r] = y]
    BY <1>1, <1>2, <1>7 DEF SetRow
  <2> QED BY <1>1, <1>3, <1>5, <1>7, <2>1
<1> QED BY <1>6, <1>7

LEMMA FailRowIs ==
  ASSUME ImportTyped, NEW t \in ImportWorkers, Here(t) \in JobRows, FailRow(t)
  PROVE  /\ importer' \in [ImportWorkers -> Worker] /\ Others(t)
         /\ importer'[t].pc = "next" /\ importer'[t].at = Nothing /\ importer'[t].todo = importer[t].todo
         /\ SetRow(Here(t), "failed")
<1>1. PICK x : x = importer[t]
  OBVIOUS
<1>3. x \in Worker
  BY <1>1, RecordIs
<1>7. PICK n \in Nat : n = x.fails + 1
  BY <1>3 DEF Worker
<1>2. PICK z : z = [x EXCEPT !.pc = "next", !.at = Nothing, !.fails = n]
  OBVIOUS
<1>4. z \in Worker /\ z.pc = "next" /\ z.at = Nothing /\ z.todo = x.todo
  BY <1>2, <1>3 DEF Worker
<1>5. importer' = [importer EXCEPT ![t] = z]
  BY <1>1, <1>2, <1>7 DEF FailRow
<1>6. SetRow(Here(t), "failed")
  BY DEF FailRow
<1> QED BY <1>1, <1>4, <1>5, <1>6, RecordIs

(* A worker at a repository moves on: what it has and reaches afterwards.   *)
LEMMA AtRow ==
  ASSUME ImportTyped, RowsInv, NEW t \in ImportWorkers, importer[t].pc \notin {"idle", "read", "next"}
  PROVE  /\ Here(t) \in JobRows /\ Here(t) \in ImportRows /\ Here(t) # Nothing /\ Has(importer[t], Here(t))
         /\ \A q \in JobRows \ {Here(t)} : ~Mirrors(importer[t], q)
<1>1. WorkFits(importer[t])
  BY DEF RowsInv
<1>2. Here(t) # Nothing /\ Here(t) \in JobRows
  BY <1>1 DEF WorkFits, Here
<1>3. Here(t) \in ImportRows
  BY <1>2 DEF ImportTyped
<1> QED BY <1>2, <1>3 DEF Here, Has, Mirrors

LEMMA WorkIs ==
  ASSUME ImportTyped, RowsInv, NEW t \in ImportWorkers, importer[t].pc \notin {"idle", "read", "next"},
         importer'[t] \in Worker, importer'[t].todo = importer[t].todo,
         \/ importer'[t].at = Here(t) /\ importer'[t].pc \notin {"idle", "read", "next"}
         \/ importer'[t].at = Nothing /\ importer'[t].pc = "next",
         row' \in [JobRows -> ImportRow]
  PROVE  /\ WorkFits(importer[t])'
         /\ \A q \in JobRows \ {Here(t)} : Has(importer'[t], q) <=> Has(importer[t], q)
         /\ importer'[t].at = Nothing => ~Has(importer'[t], Here(t)) /\ ~Reaches(importer'[t], Here(t))
         /\ importer'[t].at = Here(t) => Has(importer'[t], Here(t))
         /\ importer'[t].pc \notin {"create", "claim"} => ~Reaches(importer'[t], Here(t))
         /\ \A q \in JobRows \ {Here(t)} : Reaches(importer'[t], q) => Reaches(importer[t], q)
<1> PICK x : x = importer[t]
  OBVIOUS
<1> PICK z : z = importer'[t]
  OBVIOUS
<1>1. WorkFits(x) /\ x \in Worker
  BY RecordIs DEF RowsInv
<1>2. JobRows' = JobRows
  BY DEF JobRows
<1>3. x.at \in JobRows /\ x.at # Nothing /\ x.at = Here(t)
  BY AtRow DEF Here
<1>4. Nothing \notin JobRows
  BY ImportAssumption DEF ImportTyped
<1>5. \A e \in x.todo : e[1] # x.at
  BY <1>1, <1>3 DEF WorkFits
<1>6. WorkFits(importer[t])'
  <2>1. z.todo = x.todo /\ z \in Worker
    OBVIOUS
  <2>2. (z.at = x.at /\ z.pc \notin {"idle", "read", "next"}) \/ (z.at = Nothing /\ z.pc = "next")
    BY <1>3
  <2>3. WorkFits(z)
    BY <1>1, <1>3, <2>1, <2>2 DEF WorkFits
  <2> QED BY <1>2, <2>3 DEF WorkFits
<1>7. \A q \in JobRows \ {x.at} : Has(z, q) <=> Has(x, q)
  <2> TAKE q \in JobRows \ {x.at}
  <2>1. z.at # q /\ x.at # q /\ z.todo = x.todo
    BY <1>3, <1>4
  <2> QED BY <2>1 DEF Has
<1>8. z.at = Nothing => ~Has(z, x.at) /\ ~Reaches(z, x.at)
  BY <1>3, <1>5 DEF Has, Reaches
<1>9. z.at = x.at => Has(z, x.at)
  BY DEF Has
<1>10. z.pc \notin {"create", "claim"} => ~Reaches(z, x.at)
  BY <1>5 DEF Reaches
<1>12. \A q \in JobRows \ {x.at} : Reaches(z, q) => Reaches(x, q)
  BY <1>3, <1>4 DEF Reaches
<1> QED BY <1>3, <1>6, <1>7, <1>8, <1>9, <1>10, <1>12

AtWork == {"mirror", "upsert", "bump", "finish"}
LEMMA AtRowMoves ==
  ASSUME ImportTyped, RowsInv, NEW t \in ImportWorkers, importer[t].pc \notin {"idle", "read", "next"},
         importer' \in [ImportWorkers -> Worker], Others(t), importer'[t].todo = importer[t].todo,
         \/ importer'[t].at = Here(t) /\ importer'[t].pc \in {"claim"} \cup AtWork
         \/ importer'[t].at = Nothing /\ importer'[t].pc = "next",
         NEW r \in JobRows, r = Here(t),
         row' \in [JobRows -> ImportRow], \A q \in JobRows \ {r} : row'[q] = row[q],
         UNCHANGED <<job, options, before, contested, orphaned>>,
         row[r].linked => row'[r].linked,
         row'[r].status = "pending" => row[r].status = "pending",
         importer'[t].at = r /\ row'[r].status \in Settled => row[r].status \in Settled,
         importer'[t].pc = "claim" => importer[t].pc = "create" /\ row'[r] = row[r],
         importer'[t].pc \in AtWork => row'[r].linked,
         job.status # "gone" /\ row'[r].status \in {"mirroring", "metadata"} =>
           \/ importer'[t].at = r /\ importer'[t].pc \in AtWork
           \/ row[r].status \in {"mirroring", "metadata"} /\ ~Mirrors(importer[t], r),
         job.status # "gone" /\ importer'[t].at = Nothing =>
           row'[r].status \in Settled \/ (row'[r].status # "pending" /\ r \in contested),
         Linked(r)'
  PROVE  RowsInv'
<1> PICK x : x = importer[t]
  OBVIOUS
<1> PICK z : z = importer'[t]
  OBVIOUS
<1>1. z \in Worker /\ x \in Worker /\ WorkFits(x) /\ Links(x) /\ z.todo = x.todo /\ x.at = r /\ r # Nothing
  BY AtRow, RecordIs DEF RowsInv, Here
<1>2. JobRows' = JobRows
  BY DEF JobRows
<1>3. \/ z.at = r /\ z.pc \in {"claim"} \cup AtWork
      \/ z.at = Nothing /\ z.pc = "next"
  OBVIOUS
<1>4. \/ z.at = r /\ z.pc \notin {"idle", "read", "next"}
      \/ z.at = Nothing /\ z.pc = "next"
  BY <1>3 DEF AtWork
<1>5. /\ WorkFits(importer[t])'
      /\ \A q \in JobRows \ {r} : Has(z, q) <=> Has(x, q)
      /\ z.at = Nothing => ~Has(z, r) /\ ~Reaches(z, r)
      /\ z.at = r => Has(z, r)
      /\ z.pc \notin {"create", "claim"} => ~Reaches(z, r)
      /\ \A q \in JobRows \ {r} : Reaches(z, q) => Reaches(x, q)
  BY <1>1, <1>4, WorkIs
<1>6. Links(importer[t])'
  <2>1. \A q \in JobRows : Mirrors(z, q) => row'[q].linked
    BY <1>1, <1>3, ImportAssumption DEF Mirrors, AtWork, ImportTyped
  <2>2. \A e \in z.todo : e[3] => row'[e[1]].linked
    BY <1>1 DEF Links, WorkFits
  <2>3. options.skip /\ z.pc \in {"create", "claim"} => z.at \notin before
    BY <1>1, <1>3 DEF Links, AtWork
  <2> QED BY <1>2, <2>1, <2>2, <2>3 DEF Links
<1>7. \A q \in JobRows \ {r} : ~Mirrors(x, q)
  BY <1>1, AtRow DEF Here
<1>8. Reaches(z, r) => Reaches(x, r) /\ row'[r] = row[r]
  <2>1. CASE z.pc = "claim"
    BY <1>1, <2>1 DEF Reaches
  <2>2. CASE z.pc # "claim"
    BY <1>3, <1>5, <2>2 DEF AtWork
  <2> QED BY <2>1, <2>2
<1>9. Has(x, r)
  BY <1>1 DEF Has
<1>10. z.at = r /\ z.pc \in AtWork => Mirrors(z, r)
  BY DEF Mirrors, AtWork
<1>11. Moves(t, r)
  <2>1. \A q \in JobRows : Reaches(z, q) => Reaches(x, q)
    BY <1>5, <1>8
  <2>2. \A u \in ImportWorkers \ {t} : importer'[u] = importer[u]
    BY DEF Others
  <2>3. Has(z, r) /\ row'[r].status \in Settled => row[r].status \in Settled
    BY <1>4, <1>5
  <2>4. job.status # "gone" /\ row'[r].status \in {"mirroring", "metadata"} =>
          \/ Mirrors(z, r)
          \/ row[r].status \in {"mirroring", "metadata"} /\ ~Mirrors(x, r)
    BY <1>10
  <2>5. job.status # "gone" /\ ~Has(z, r) =>
          row'[r].status \in Settled \/ (row'[r].status # "pending" /\ r \in contested)
    BY <1>4, <1>5
  <2>6. x.pc \notin {"idle", "read"}
    OBVIOUS
  <2> QED BY <1>5, <1>6, <1>7, <1>8, <1>9, <2>1, <2>2, <2>3, <2>4, <2>5, <2>6 DEF Moves
<1> QED BY <1>11, MovesKeep

(* A worker has nothing in hand afterwards. *)
LEMMA WorkerLeaves ==
  ASSUME ImportTyped, RowsInv, NEW t \in ImportWorkers,
         importer' \in [ImportWorkers -> Worker], Others(t),
         importer'[t].pc \in {"idle", "read"}, importer'[t].at = Nothing, importer'[t].todo = {},
         UNCHANGED <<row, options, before, contested>>, orphaned \subseteq orphaned',
         \A r \in JobRows : Mirrors(importer[t], r) => r \in orphaned',
         job'.status # "gone" => job.status # "gone",
         job'.status \in {"done", "failed"} => \A r \in JobRows : PassedOver(r)
  PROVE  RowsInv'
<1> PICK z : z = importer'[t]
  OBVIOUS
<1>1. JobRows' = JobRows /\ Nothing \notin JobRows
  BY ImportAssumption DEF JobRows, ImportTyped
<1>2. \A u \in ImportWorkers : u # t => importer'[u] = importer[u]
  BY DEF Others
<1>3. \A q \in JobRows : ~Has(z, q) /\ ~Mirrors(z, q) /\ ~Reaches(z, q)
  BY <1>1 DEF Has, Mirrors, Reaches
<1>4. \A u \in ImportWorkers : (WorkFits(importer[u]) /\ Links(importer[u]))'
  <2>1. WorkFits(importer[t])' /\ Links(importer[t])'
    BY <1>1, <1>3 DEF WorkFits, Links
  <2>2. \A u \in ImportWorkers : u # t => (WorkFits(importer[u]) /\ Links(importer[u]))'
    BY <1>1, <1>2 DEF RowsInv, WorkFits, Links
  <2> QED BY <2>1, <2>2
<1>5. \A q \in JobRows' : Linked(q)'
  BY <1>1 DEF RowsInv, Linked
<1>6. Overlap' /\ SettledUnder' /\ ClaimedUnder'
  BY <1>1, <1>2, <1>3 DEF RowsInv, Overlap, SettledUnder, ClaimedUnder, BusyRow
<1>7. UnderWay'
  <2> SUFFICES ASSUME job'.status # "gone", NEW q \in JobRows, row[q].status \in {"mirroring", "metadata"},
                      q \notin orphaned'
               PROVE  \E u \in ImportWorkers : Mirrors(importer'[u], q)
    BY <1>1 DEF UnderWay
  <2>1. PICK u \in ImportWorkers : Mirrors(importer[u], q)
    BY DEF RowsInv, UnderWay
  <2>2. u # t
    BY <2>1
  <2> QED BY <1>2, <2>1, <2>2
<1>8. Passes'
  BY <1>1, <1>2 DEF RowsInv, Passes, PassedOver
<1>9. EndedPasses'
  BY <1>1 DEF EndedPasses, PassedOver
<1> QED BY <1>4, <1>5, <1>6, <1>7, <1>8, <1>9 DEF RowsInv

(* What is not touched. *)
LEMMA Quiet ==
  ASSUME ImportInv, NEW t \in ImportWorkers, Others(t), importer'[t].pc # "mirror", importer[t].pc # "bump",
         UNCHANGED <<next, imported, short, disk, options, before>>, expired \subseteq expired'
  PROVE  OneMirror' /\ LocalKept' /\ CounterStays'
<1>1. OneMirror'
  BY DEF ImportInv, OneMirror, Doing, Here, Others
<1>2. LocalKept'
  BY DEF ImportInv, LocalKept
<1>3. CounterStays'
  <2>1. \A u \in ImportWorkers, r \in ImportRows :
          importer[u].pc = "bump" /\ importer[u].at = r => importer'[u].pc = "bump" /\ importer'[u].at = r
    BY DEF Others
  <2> QED BY <2>1 DEF ImportInv, CounterStays
<1> QED BY <1>1, <1>2, <1>3

LEMMA ClaimJobStep == ASSUME ImportInv, NEW t \in ImportWorkers, ClaimJob(t) PROVE ImportInv'
<1>1. ImportTyped /\ RowsInv
  BY DEF ImportInv
<1>2. importer[t].pc = "idle" /\ Goes(t, "read")
  BY DEF ClaimJob, Doing
<1>3. importer[t].at = Nothing /\ importer[t].todo = {}
  BY <1>1, <1>2 DEF RowsInv, WorkFits
<1>4. importer' \in [ImportWorkers -> Worker] /\ Others(t)
      /\ importer'[t].pc = "read" /\ importer'[t].at = Nothing /\ importer'[t].todo = {}
  BY <1>1, <1>2, <1>3, GoesIs
<1>5. ImportTyped'
  BY <1>1, <1>4 DEF ClaimJob, ImportTyped, JobRows, tracker
<1>6. job.status # "gone" /\ job'.status = "mirroring"
  BY DEF ClaimJob
<1>7. \A r \in JobRows : ~Mirrors(importer[t], r)
  BY <1>2 DEF Mirrors
<1>8. UNCHANGED <<row, options, before, contested, orphaned, next, imported, short, disk, expired>>
  BY DEF ClaimJob, tracker, history
<1>9. RowsInv'
  BY <1>1, <1>4, <1>6, <1>7, <1>8, WorkerLeaves
<1>10. OneMirror' /\ LocalKept' /\ CounterStays'
  BY <1>2, <1>4, <1>8, Quiet
<1> QED BY <1>5, <1>9, <1>10 DEF ImportInv

LEMMA EndJobStep == ASSUME ImportInv, NEW t \in ImportWorkers, EndJob(t) PROVE ImportInv'
<1>1. ImportTyped /\ RowsInv
  BY DEF ImportInv
<1>2. importer[t].pc = "next" /\ importer[t].todo = {}
  BY DEF EndJob, Doing
<1>3. importer[t].at = Nothing
  BY <1>1, <1>2 DEF RowsInv, WorkFits
<1>4. ImportIdle \in Worker /\ ImportIdle.pc = "idle" /\ ImportIdle.at = Nothing /\ ImportIdle.todo = {}
  BY DEF ImportIdle, Worker
<1>5. importer' \in [ImportWorkers -> Worker] /\ Others(t)
      /\ importer'[t].pc = "idle" /\ importer'[t].at = Nothing /\ importer'[t].todo = {}
  BY <1>1, <1>4, RecordIs DEF EndJob
<1>6. /\ job' \in [status : {"pending", "mirroring", "done", "failed", "gone"}, stale : BOOLEAN]
      /\ job'.status \in {"done", "failed", "gone"} /\ (job.status = "gone" => job'.status = "gone")
      /\ job'.status \in {"done", "failed"} => job.status # "gone"
  <2>1. CASE job.status = "gone"
    BY <1>1, <2>1 DEF EndJob, ImportTyped
  <2>2. CASE job.status # "gone"
    <3>1. PICK s \in {"failed", "done"} : job' = [status |-> s, stale |-> FALSE]
      BY <2>2 DEF EndJob
    <3> QED BY <2>2, <3>1
  <2> QED BY <2>1, <2>2
<1>7. ImportTyped'
  BY <1>1, <1>5, <1>6 DEF EndJob, ImportTyped, JobRows, tracker
<1>8. \A r \in JobRows : ~Mirrors(importer[t], r) /\ ~Has(importer[t], r)
  BY <1>1, <1>2, <1>3, ImportAssumption DEF Mirrors, Has, ImportTyped
<1>9. job.status # "gone" => \A r \in JobRows : PassedOver(r)
  BY <1>1, <1>2, <1>8 DEF RowsInv, Passes
<1>10. UNCHANGED <<row, options, before, contested, orphaned, next, imported, short, disk, expired>>
  BY DEF EndJob, tracker, history
<1>11. RowsInv'
  BY <1>1, <1>5, <1>6, <1>8, <1>9, <1>10, WorkerLeaves
<1>12. OneMirror' /\ LocalKept' /\ CounterStays'
  BY <1>2, <1>5, <1>10, Quiet
<1> QED BY <1>7, <1>11, <1>12 DEF ImportInv

LEMMA ImporterDiesStep == ASSUME ImportInv, NEW t \in ImportWorkers, ImporterDies(t) PROVE ImportInv'
<1>1. ImportTyped /\ RowsInv
  BY DEF ImportInv
<1>4. ImportIdle \in Worker /\ ImportIdle.pc = "idle" /\ ImportIdle.at = Nothing /\ ImportIdle.todo = {}
  BY DEF ImportIdle, Worker
<1>5. importer' \in [ImportWorkers -> Worker] /\ Others(t)
      /\ importer'[t].pc = "idle" /\ importer'[t].at = Nothing /\ importer'[t].todo = {}
  BY <1>1, <1>4, RecordIs DEF ImporterDies
<1>6. UNCHANGED <<job, row, options, before, contested, next, imported, disk, expired>>
  BY DEF ImporterDies, tracker
<1>7. orphaned \subseteq orphaned' /\ short \subseteq short'
  BY DEF ImporterDies
<1>8. ImportTyped'
  BY <1>1, <1>5, <1>6 DEF ImportTyped, JobRows
<1>9. ASSUME NEW r \in JobRows, Mirrors(importer[t], r) PROVE r \in orphaned'
  BY <1>1, <1>9, ImportAssumption DEF ImporterDies, Mirrors, Here, ImportTyped
<1>10. job.status \in {"done", "failed"} => \A r \in JobRows : PassedOver(r)
  BY <1>1 DEF RowsInv, EndedPasses
<1>11. RowsInv'
  BY <1>1, <1>5, <1>6, <1>7, <1>9, <1>10, WorkerLeaves
<1>12. OneMirror'
  BY <1>5, <1>6 DEF ImportInv, OneMirror, Doing, Here, Others
<1>13. LocalKept'
  BY <1>6 DEF ImportInv, LocalKept
<1>14. CounterStays'
  <2> SUFFICES ASSUME NEW r \in ImportRows, r \notin short',
                      ~\E u \in ImportWorkers : importer'[u].pc = "bump" /\ importer'[u].at = r
               PROVE  \A n \in imported[r] : n < next[r]
    BY <1>6 DEF ImportInv, CounterStays
  <2>1. ~\E u \in ImportWorkers \ {t} : importer[u].pc = "bump" /\ importer[u].at = r
    BY <1>5 DEF Others
  <2>2. ~(importer[t].pc = "bump" /\ importer[t].at = r)
    BY DEF ImporterDies, Doing, Here
  <2> QED BY <1>7, <2>1, <2>2 DEF ImportInv, CounterStays
<1> QED BY <1>8, <1>11, <1>12, <1>13, <1>14 DEF ImportInv

LEMMA ReadRowsStep == ASSUME ImportInv, NEW t \in ImportWorkers, ReadRows(t) PROVE ImportInv'
<1>1. ImportTyped /\ RowsInv
  BY DEF ImportInv
<1>2. importer[t].pc = "read"
  BY DEF ReadRows, Doing
<1>3. PICK open : open = IF job.status = "gone" THEN {} ELSE {r \in JobRows : row[r].status \in Open}
  OBVIOUS
<1>4. PICK todo : todo = {<<r, row[r].status, row[r].linked>> : r \in open}
  OBVIOUS
<1>5. PICK n \in Nat : n = Cardinality(open)
  <2>1. open \subseteq ImportRows
    BY <1>1, <1>3 DEF ImportTyped
  <2>2. IsFiniteSet(open)
    BY <2>1, ImportAssumption, FS_Subset
  <2> QED BY <2>2, FS_CardinalityType
<1>6. PICK z : z = [ImportIdle EXCEPT !.pc = "next", !.todo = todo, !.count = n]
  OBVIOUS
<1>7. \A r \in JobRows : row[r] \in ImportRow /\ r \in ImportRows /\ r # Nothing
  BY <1>1, ImportAssumption DEF ImportTyped
<1>8. open \subseteq JobRows /\ \A r \in open : row[r].status \in Open
  BY <1>3
<1>9. todo \in SUBSET (ImportRows \X Open \X BOOLEAN)
  <2> SUFFICES ASSUME NEW r \in open
               PROVE  <<r, row[r].status, row[r].linked>> \in ImportRows \X Open \X BOOLEAN
    BY <1>4
  <2>1. r \in ImportRows /\ row[r].status \in Open /\ row[r].linked \in BOOLEAN
    BY <1>7, <1>8 DEF ImportRow
  <2> QED BY <2>1
<1>10. z \in Worker /\ z.pc = "next" /\ z.at = Nothing /\ z.todo = todo
  BY <1>6, <1>9 DEF ImportIdle, Worker
<1>11. importer' = [importer EXCEPT ![t] = z]
  BY <1>3, <1>4, <1>5, <1>6 DEF ReadRows
<1>12. importer' \in [ImportWorkers -> Worker] /\ Others(t) /\ importer'[t] = z
  BY <1>1, <1>10, <1>11, RecordIs
<1>13. UNCHANGED <<job, options, row, disk, before, next, imported, expired, orphaned, short>>
  BY DEF ReadRows, tracker
<1>14. ImportTyped'
  BY <1>1, <1>12, <1>13 DEF ImportTyped, JobRows
<1>15. JobRows' = JobRows
  BY <1>13 DEF JobRows
<1>16. \A r \in JobRows : Has(z, r) <=> r \in open
  <2> TAKE r \in JobRows
  <2>1. z.at # r
    BY <1>7, <1>10
  <2>2. ASSUME r \in open PROVE \E e \in todo : e[1] = r
    <3>1. <<r, row[r].status, row[r].linked>> \in todo
      BY <1>4, <2>2
    <3> QED BY <3>1
  <2>3. ASSUME NEW e \in todo, e[1] = r PROVE r \in open
    BY <1>4, <2>3
  <2> QED BY <1>10, <2>1, <2>2, <2>3 DEF Has
<1>17. /\ contested \subseteq contested'
       /\ \A r \in JobRows : row[r].status = "mirroring" /\ ~row[r].stale => r \in contested'
       /\ \A r \in JobRows, u \in ImportWorkers : u # t /\ Has(importer[u], r) => r \in contested'
  BY DEF ReadRows, Has, Here
<1>18. RowsInv'
  <2>1. \A e \in todo : /\ e[1] \in open /\ e[2] = row[e[1]].status /\ e[3] = row[e[1]].linked
    BY <1>4
  <2>2. \A e, f \in todo : e[1] = f[1] => e = f
    BY <1>4
  <2>3. WorkFits(z)
    BY <1>1, <1>8, <1>10, <2>1, <2>2 DEF WorkFits, RowsInv, Linked, Open
  <2>4. \A r \in JobRows : ~Mirrors(z, r)
    BY <1>10 DEF Mirrors
  <2>5. Links(z)
    BY <1>10, <2>1, <2>4 DEF Links
  <2>6. \A u \in ImportWorkers : (WorkFits(importer[u]) /\ Links(importer[u]))'
    <3>1. WorkFits(importer[t])' /\ Links(importer[t])'
      BY <1>12, <1>13, <1>15, <2>3, <2>5 DEF WorkFits, Links
    <3>2. \A u \in ImportWorkers \ {t} : (WorkFits(importer[u]) /\ Links(importer[u]))'
      BY <1>1, <1>12, <1>13, <1>15 DEF RowsInv, WorkFits, Links, Others
    <3> QED BY <3>1, <3>2
  <2>7. \A r \in JobRows' : Linked(r)'
    BY <1>1, <1>13, <1>15 DEF RowsInv, Linked
  <2>8. \A u \in ImportWorkers : u # t => importer'[u] = importer[u]
    BY <1>12 DEF Others
  <2>9. Overlap'
    BY <1>1, <1>15, <1>17, <2>8 DEF RowsInv, Overlap
  <2>10. SettledUnder'
    <3>1. \A r \in open : row[r].status \notin Settled
      BY <1>8 DEF Open, Settled
    <3> QED BY <1>1, <1>12, <1>13, <1>15, <1>16, <1>17, <2>8, <3>1 DEF RowsInv, SettledUnder
  <2>11. ClaimedUnder'
    <3> SUFFICES ASSUME NEW u \in ImportWorkers, NEW r \in JobRows, Reaches(importer'[u], r), BusyRow(r)
                 PROVE  r \in contested'
      BY <1>13, <1>15 DEF ClaimedUnder, BusyRow
    <3>1. CASE u = t
      <4>1. PICK e \in todo : e[1] = r /\ e[2] # "metadata"
        BY <1>10, <1>12, <3>1 DEF Reaches
      <4>2. row[r].status = "mirroring" /\ ~row[r].stale
        BY <2>1, <4>1 DEF BusyRow
      <4> QED BY <1>17, <4>2
    <3>2. CASE u # t
      BY <1>1, <1>17, <2>8, <3>2 DEF RowsInv, ClaimedUnder
    <3> QED BY <3>1, <3>2
  <2>12. UnderWay'
    <3>1. \A r \in JobRows : ~Mirrors(importer[t], r)
      BY <1>2 DEF Mirrors
    <3> QED BY <1>1, <1>13, <1>15, <2>8, <3>1 DEF RowsInv, UnderWay
  <2>13. \A r \in JobRows : PassedOver(r) => PassedOver(r)'
    BY <1>13, <1>17 DEF PassedOver
  <2>14. \A r \in JobRows : job.status # "gone" /\ ~Has(z, r) => PassedOver(r)'
    BY <1>3, <1>13, <1>16 DEF PassedOver
  <2>15. Passes'
    BY <1>1, <1>12, <1>13, <1>15, <2>8, <2>13, <2>14 DEF RowsInv, Passes
  <2>16. EndedPasses'
    BY <1>1, <1>13, <1>15, <2>13 DEF RowsInv, EndedPasses
  <2> QED BY <2>6, <2>7, <2>9, <2>10, <2>11, <2>12, <2>15, <2>16 DEF RowsInv
<1>19. OneMirror' /\ LocalKept' /\ CounterStays'
  BY <1>2, <1>10, <1>12, <1>13, Quiet
<1> QED BY <1>14, <1>18, <1>19 DEF ImportInv

LEMMA CreateShellStep == ASSUME ImportInv, NEW t \in ImportWorkers, CreateShell(t) PROVE ImportInv'
<1>1. ImportTyped /\ RowsInv
  BY DEF ImportInv
<1>2. importer[t].pc = "create"
  BY DEF CreateShell, Doing
<1>3. PICK r \in JobRows : r = Here(t)
  BY <1>1, <1>2, AtRow
<1>4. r \in ImportRows /\ row[r] \in ImportRow /\ importer[t].at = r
  BY <1>1, <1>3 DEF ImportTyped, Here
<1>5. UNCHANGED <<job, options, before, next, imported, expired, contested, orphaned, short>>
  BY DEF CreateShell, tracker, history
<1>6. ~Mirrors(importer[t], r) /\ Linked(r)
  BY <1>1, <1>2 DEF Mirrors, RowsInv
<1>7. CASE disk[r] = "absent"
  <2>1. Goes(t, "claim") /\ row' = row /\ disk' = [disk EXCEPT ![r] = "shell"]
    BY <1>3, <1>7 DEF CreateShell
  <2>2. /\ importer' \in [ImportWorkers -> Worker] /\ Others(t) /\ importer'[t].pc = "claim"
        /\ importer'[t].at = r /\ importer'[t].todo = importer[t].todo
    BY <1>1, <1>4, <2>1, GoesIs
  <2>3. ImportTyped'
    BY <1>1, <1>5, <2>1, <2>2 DEF ImportTyped, JobRows
  <2>4. row' \in [JobRows -> ImportRow] /\ Linked(r)'
    BY <1>1, <1>5, <1>6, <2>1 DEF ImportTyped, Linked
  <2>5. RowsInv'
    <3>1. r # Nothing /\ row'[r] = row[r]
      BY <1>4, <2>1, ImportAssumption
    <3> QED BY <1>1, <1>2, <1>3, <1>5, <1>6, <2>1, <2>2, <2>4, <3>1, AtRowMoves DEF AtWork
  <2>6. OneMirror'
    BY <1>5, <2>2 DEF ImportInv, OneMirror, Doing, Here, Others
  <2>7. LocalKept'
    BY <1>1, <1>5, <1>7, <2>1 DEF ImportInv, LocalKept, ImportTyped
  <2>8. CounterStays'
    <3>1. \A u \in ImportWorkers, q \in ImportRows :
            importer[u].pc = "bump" /\ importer[u].at = q => importer'[u].pc = "bump" /\ importer'[u].at = q
      BY <1>2, <2>2 DEF Others
    <3> QED BY <1>5, <3>1 DEF ImportInv, CounterStays
  <2> QED BY <2>3, <2>5, <2>6, <2>7, <2>8 DEF ImportInv
<1>8. CASE disk[r] # "absent"
  <2>1. FailRow(t) /\ disk' = disk
    BY <1>3, <1>8 DEF CreateShell
  <2>2. /\ importer' \in [ImportWorkers -> Worker] /\ Others(t) /\ importer'[t].pc = "next"
        /\ importer'[t].at = Nothing /\ importer'[t].todo = importer[t].todo /\ SetRow(r, "failed")
    BY <1>1, <1>3, <2>1, FailRowIs
  <2>3. /\ row' \in [JobRows -> ImportRow] /\ \A q \in JobRows \ {r} : row'[q] = row[q]
        /\ row'[r].linked = row[r].linked
        /\ job.status = "gone" => row' = row
        /\ job.status # "gone" => row'[r].status = "failed"
    BY <1>1, <2>2, SetRowIs DEF Settled
  <2>4. ImportTyped'
    BY <1>1, <1>5, <2>1, <2>2, <2>3 DEF ImportTyped, JobRows
  <2>5. Linked(r)'
    BY <1>5, <1>6, <2>3 DEF Linked
  <2>6. row'[r].status = "pending" => row[r].status = "pending"
    BY <2>3
  <2>7. r # Nothing
    BY <1>4, ImportAssumption
  <2>8. RowsInv'
    BY <1>1, <1>2, <1>3, <1>5, <2>2, <2>3, <2>5, <2>6, <2>7, AtRowMoves DEF AtWork, Settled
  <2>9. OneMirror' /\ LocalKept' /\ CounterStays'
    BY <1>2, <1>5, <2>1, <2>2, Quiet
  <2> QED BY <2>4, <2>8, <2>9 DEF ImportInv
<1> QED BY <1>7, <1>8

LEMMA FinishRowStep == ASSUME ImportInv, NEW t \in ImportWorkers, FinishRow(t) PROVE ImportInv'
<1>1. ImportTyped /\ RowsInv
  BY DEF ImportInv
<1>2. importer[t].pc = "finish"
  BY DEF FinishRow, Doing
<1>3. PICK r \in JobRows : r = Here(t)
  BY <1>1, <1>2, AtRow
<1>4. r \in ImportRows /\ row[r] \in ImportRow /\ importer[t].at = r /\ r # Nothing
  BY <1>1, <1>3, ImportAssumption DEF ImportTyped, Here
<1>5. UNCHANGED <<job, options, disk, before, next, imported, expired, contested, orphaned, short>>
  BY DEF FinishRow, tracker, history
<1>6. SetRow(r, "done") /\ NextRow(t) /\ Linked(r)
  BY <1>1, <1>3 DEF FinishRow, RowsInv
<1>7. /\ importer' \in [ImportWorkers -> Worker] /\ Others(t) /\ importer'[t].pc = "next"
      /\ importer'[t].at = Nothing /\ importer'[t].todo = importer[t].todo
  BY <1>1, <1>6, NextRowIs
<1>8. /\ row' \in [JobRows -> ImportRow] /\ \A q \in JobRows \ {r} : row'[q] = row[q]
      /\ row'[r].linked = row[r].linked
      /\ job.status = "gone" => row' = row
      /\ job.status # "gone" => row'[r].status = "done"
  BY <1>1, <1>6, SetRowIs DEF Settled
<1>9. ImportTyped'
  BY <1>1, <1>5, <1>7, <1>8 DEF ImportTyped, JobRows
<1>10. Linked(r)'
  BY <1>5, <1>6, <1>8 DEF Linked
<1>11. row'[r].status = "pending" => row[r].status = "pending"
  BY <1>8
<1>12. RowsInv'
  BY <1>1, <1>2, <1>3, <1>4, <1>5, <1>7, <1>8, <1>10, <1>11, AtRowMoves DEF AtWork, Settled
<1>13. OneMirror' /\ LocalKept' /\ CounterStays'
  BY <1>2, <1>5, <1>7, Quiet
<1> QED BY <1>9, <1>12, <1>13 DEF ImportInv

LEMMA ClaimMirrorStep == ASSUME ImportInv, NEW t \in ImportWorkers, ClaimMirror(t) PROVE ImportInv'
<1>1. ImportTyped /\ RowsInv
  BY DEF ImportInv
<1>2. importer[t].pc = "claim"
  BY DEF ClaimMirror, Doing
<1>3. PICK r \in JobRows : r = Here(t)
  BY <1>1, <1>2, AtRow
<1>4. r \in ImportRows /\ row[r] \in ImportRow /\ importer[t].at = r /\ r # Nothing
  BY <1>1, <1>3, ImportAssumption DEF ImportTyped, Here
<1>5. UNCHANGED <<job, options, disk, before, next, imported, contested, orphaned, short>>
  BY DEF ClaimMirror, tracker
<1>6. Linked(r) /\ Links(importer[t]) /\ Has(importer[t], r) /\ Reaches(importer[t], r) /\ ~Mirrors(importer[t], r)
  BY <1>1, <1>2, <1>4 DEF RowsInv, Has, Reaches, Mirrors
<1>7. CounterStays' /\ LocalKept'
  <2>1. \A u \in ImportWorkers, q \in ImportRows :
          importer[u].pc = "bump" /\ importer[u].at = q => importer'[u].pc = "bump" /\ importer'[u].at = q
    BY <1>1, <1>2 DEF ClaimMirror, Goes, NextRow, ImportTyped
  <2> QED BY <1>5, <2>1 DEF ImportInv, CounterStays, LocalKept
<1>8. CASE job.status # "gone" /\ (row[r].status = "pending" \/ (row[r].status = "mirroring" /\ row[r].stale))
  <2>1. PICK y : y = [status |-> "mirroring", stale |-> FALSE, linked |-> TRUE]
    OBVIOUS
  <2>2. /\ row' = [row EXCEPT ![r] = y] /\ Goes(t, "mirror")
        /\ expired' = IF row[r].status = "mirroring" THEN expired \cup {r} ELSE expired
    BY <1>3, <1>8, <2>1 DEF ClaimMirror
  <2>3. /\ importer' \in [ImportWorkers -> Worker] /\ Others(t) /\ importer'[t].pc = "mirror"
        /\ importer'[t].at = r /\ importer'[t].todo = importer[t].todo
    BY <1>1, <1>4, <2>2, GoesIs
  <2>4. y \in ImportRow
    BY <2>1 DEF ImportRow, Open
  <2>5. /\ row' \in [JobRows -> ImportRow] /\ (\A q \in JobRows \ {r} : row'[q] = row[q])
        /\ row'[r].linked /\ row'[r].status = "mirroring"
    BY <1>1, <2>1, <2>2, <2>4 DEF ImportTyped
  <2>6. ImportTyped'
    BY <1>1, <1>5, <2>3, <2>5 DEF ImportTyped, JobRows
  <2>7. options.skip => r \notin before
    BY <1>2, <1>4, <1>6 DEF Links
  <2>8. Linked(r)'
    BY <1>5, <2>5, <2>7 DEF Linked
  <2>9. RowsInv'
    BY <1>1, <1>2, <1>3, <1>4, <1>5, <2>3, <2>5, <2>8, AtRowMoves DEF AtWork, Settled
  <2>10. OneMirror'
    <3> SUFFICES ASSUME NEW u \in ImportWorkers, u # t, importer[u].pc = "mirror", importer[u].at = r
                 PROVE  r \in expired'
      BY <1>4, <2>2, <2>3 DEF ImportInv, OneMirror, Doing, Here, Others
    <3>1. row[r].linked
      BY <1>1 DEF RowsInv, Links, Mirrors
    <3>2. row[r].status = "mirroring"
      BY <1>6, <1>8, <3>1 DEF Linked
    <3> QED BY <2>2, <3>2
  <2> QED BY <1>7, <2>6, <2>9, <2>10 DEF ImportInv
<1>9. CASE ~(job.status # "gone" /\ (row[r].status = "pending" \/ (row[r].status = "mirroring" /\ row[r].stale)))
  <2>1. NextRow(t) /\ row' = row /\ expired' = expired
    BY <1>3, <1>9 DEF ClaimMirror
  <2>2. /\ importer' \in [ImportWorkers -> Worker] /\ Others(t) /\ importer'[t].pc = "next"
        /\ importer'[t].at = Nothing /\ importer'[t].todo = importer[t].todo
    BY <1>1, <2>1, NextRowIs
  <2>3. ImportTyped'
    BY <1>1, <1>5, <2>1, <2>2 DEF ImportTyped, JobRows
  <2>4. row' \in [JobRows -> ImportRow] /\ Linked(r)'
    BY <1>1, <1>5, <1>6, <2>1 DEF ImportTyped, Linked
  <2>5. job.status # "gone" => row[r].status \in Settled \/ (row[r].status # "pending" /\ r \in contested)
    BY <1>1, <1>4, <1>6, <1>9 DEF ImportRow, Open, RowsInv, ClaimedUnder, BusyRow
  <2>6. RowsInv'
    BY <1>1, <1>2, <1>3, <1>4, <1>5, <1>6, <2>1, <2>2, <2>4, <2>5, AtRowMoves DEF AtWork
  <2>7. OneMirror'
    BY <2>1, <2>2 DEF ImportInv, OneMirror, Doing, Here, Others
  <2> QED BY <1>7, <2>3, <2>6, <2>7 DEF ImportInv
<1> QED BY <1>8, <1>9

LEMMA MirrorStep == ASSUME ImportInv, NEW t \in ImportWorkers, Mirror(t) PROVE ImportInv'
<1>1. ImportTyped /\ RowsInv
  BY DEF ImportInv
<1>2. importer[t].pc = "mirror"
  BY DEF Mirror, Doing
<1>3. PICK r \in JobRows : r = Here(t)
  BY <1>1, <1>2, AtRow
<1>4. r \in ImportRows /\ row[r] \in ImportRow /\ importer[t].at = r /\ r # Nothing
  BY <1>1, <1>3, ImportAssumption DEF ImportTyped, Here
<1>5. UNCHANGED <<job, options, before, next, imported, expired, contested, orphaned, short>>
  BY DEF Mirror, tracker, history
<1>6. row[r].linked /\ Linked(r)
  BY <1>1, <1>2, <1>4 DEF RowsInv, Links, Mirrors
<1>7. CASE FailRow(t) /\ UNCHANGED disk
  <2>2. /\ importer' \in [ImportWorkers -> Worker] /\ Others(t) /\ importer'[t].pc = "next"
        /\ importer'[t].at = Nothing /\ importer'[t].todo = importer[t].todo /\ SetRow(r, "failed")
    BY <1>1, <1>3, <1>7, FailRowIs
  <2>3. /\ row' \in [JobRows -> ImportRow] /\ \A q \in JobRows \ {r} : row'[q] = row[q]
        /\ row'[r].linked = row[r].linked
        /\ job.status = "gone" => row' = row
        /\ job.status # "gone" => row'[r].status = "failed"
    BY <1>1, <2>2, SetRowIs DEF Settled
  <2>4. ImportTyped'
    BY <1>1, <1>5, <1>7, <2>2, <2>3 DEF ImportTyped, JobRows
  <2>5. Linked(r)'
    BY <1>5, <1>6, <2>3 DEF Linked
  <2>6. row'[r].status = "pending" => row[r].status = "pending"
    BY <2>3
  <2>8. RowsInv'
    BY <1>1, <1>2, <1>3, <1>4, <1>5, <2>2, <2>3, <2>5, <2>6, AtRowMoves DEF AtWork, Settled
  <2>9. OneMirror' /\ LocalKept' /\ CounterStays'
    BY <1>2, <1>5, <1>7, <2>2, Quiet
  <2> QED BY <2>4, <2>8, <2>9 DEF ImportInv
<1>8. CASE ~(FailRow(t) /\ UNCHANGED disk)
  <2>1. /\ disk' = [disk EXCEPT ![r] = "mirror"]
        /\ \/ SetRow(r, "metadata") /\ Goes(t, "upsert")
           \/ Goes(t, "finish") /\ row' = row
    BY <1>3, <1>8 DEF Mirror
  <2>2. /\ importer' \in [ImportWorkers -> Worker] /\ Others(t) /\ importer'[t].pc \in {"upsert", "finish"}
        /\ importer'[t].at = r /\ importer'[t].todo = importer[t].todo
    BY <1>1, <1>4, <2>1, GoesIs
  <2>3. /\ row' \in [JobRows -> ImportRow] /\ \A q \in JobRows \ {r} : row'[q] = row[q]
        /\ row'[r].linked = row[r].linked
        /\ row'[r].status \in {row[r].status, "metadata"}
    <3>1. CASE SetRow(r, "metadata")
      BY <1>1, <3>1, SetRowIs DEF Open
    <3>2. CASE row' = row
      BY <1>1, <3>2 DEF ImportTyped
    <3> QED BY <2>1, <3>1, <3>2
  <2>4. ImportTyped'
    BY <1>1, <1>5, <2>1, <2>2, <2>3 DEF ImportTyped, JobRows
  <2>5. Linked(r)'
    BY <1>5, <1>6, <2>3 DEF Linked
  <2>6. /\ row'[r].status = "pending" => row[r].status = "pending"
        /\ row'[r].status \in Settled => row[r].status \in Settled
    BY <2>3 DEF Settled
  <2>8. RowsInv'
    BY <1>1, <1>2, <1>3, <1>4, <1>5, <1>6, <2>2, <2>3, <2>5, <2>6, AtRowMoves DEF AtWork
  <2>9. OneMirror'
    BY <1>5, <2>2 DEF ImportInv, OneMirror, Doing, Here, Others
  <2>10. LocalKept'
    BY <1>1, <1>5, <1>6, <2>1 DEF ImportInv, LocalKept, ImportTyped, Linked
  <2>11. CounterStays'
    <3>1. \A u \in ImportWorkers, q \in ImportRows :
            importer[u].pc = "bump" /\ importer[u].at = q => importer'[u].pc = "bump" /\ importer'[u].at = q
      BY <1>2, <2>2 DEF Others
    <3> QED BY <1>5, <3>1 DEF ImportInv, CounterStays
  <2> QED BY <2>4, <2>8, <2>9, <2>10, <2>11 DEF ImportInv
<1> QED BY <1>7, <1>8

(* From one step of the work on a mirror to the next. *)
LEMMA WorkGoesOn ==
  ASSUME ImportInv, NEW t \in ImportWorkers, importer[t].pc \in {"upsert", "bump"},
         NEW pc \in {"bump", "finish"}, Goes(t, pc),
         UNCHANGED <<job, options, row, disk, before, expired, contested, orphaned>>
  PROVE  /\ importer' \in [ImportWorkers -> Worker] /\ Others(t) /\ importer'[t].pc = pc
         /\ importer'[t].at = Here(t) /\ Here(t) \in ImportRows
         /\ RowsInv' /\ OneMirror' /\ LocalKept'
<1>1. ImportTyped /\ RowsInv
  BY DEF ImportInv
<1>3. PICK r \in JobRows : r = Here(t)
  BY <1>1, AtRow
<1>4. r \in ImportRows /\ row[r] \in ImportRow /\ importer[t].at = r /\ r # Nothing
  BY <1>1, <1>3, ImportAssumption DEF ImportTyped, Here
<1>6. row[r].linked /\ Linked(r)
  BY <1>1, <1>4 DEF RowsInv, Links, Mirrors
<1>7. /\ importer' \in [ImportWorkers -> Worker] /\ Others(t) /\ importer'[t].pc = pc
      /\ importer'[t].at = r /\ importer'[t].todo = importer[t].todo
  BY <1>1, <1>4, GoesIs
<1>8. row' \in [JobRows -> ImportRow] /\ Linked(r)' /\ row'[r] = row[r]
  BY <1>1, <1>6 DEF ImportTyped, Linked
<1>9. RowsInv'
  BY <1>1, <1>3, <1>4, <1>6, <1>7, <1>8, AtRowMoves DEF AtWork
<1>10. OneMirror' /\ LocalKept'
  BY <1>7 DEF ImportInv, OneMirror, LocalKept, Doing, Here, Others
<1> QED BY <1>3, <1>4, <1>7, <1>9, <1>10

LEMMA UpsertIssuesStep == ASSUME ImportInv, NEW t \in ImportWorkers, UpsertIssues(t) PROVE ImportInv'
<1>1. ImportTyped
  BY DEF ImportInv
<1>2. importer[t].pc = "upsert"
  BY DEF UpsertIssues, Doing
<1>3. PICK n \in 0..RemoteIssues :
        /\ imported' = [imported EXCEPT ![Here(t)] = @ \cup 1..n]
        /\ \/ n = RemoteIssues /\ Goes(t, "bump") /\ short' = short
           \/ Goes(t, "finish") /\ short' = short \cup {Here(t)}
  BY DEF UpsertIssues, Overwrite, Arrived
<1>4. UNCHANGED <<job, options, row, disk, before, next, expired, contested, orphaned>>
  BY DEF UpsertIssues
<1>5. PICK pc \in {"bump", "finish"} : Goes(t, pc) /\ short \subseteq short' /\ (pc = "finish" => Here(t) \in short')
  BY <1>3
<1>6. /\ importer' \in [ImportWorkers -> Worker] /\ Others(t) /\ importer'[t].pc = pc
      /\ importer'[t].at = Here(t) /\ Here(t) \in ImportRows
      /\ RowsInv' /\ OneMirror' /\ LocalKept'
  BY <1>2, <1>4, <1>5, WorkGoesOn
<1>7. 1..n \subseteq 0..RemoteIssues /\ 1..n \in SUBSET Nat
  BY ImportAssumption
<1>8. /\ imported' \in [ImportRows -> SUBSET Nat]
      /\ imported'[Here(t)] = imported[Here(t)] \cup 1..n
      /\ \A q \in ImportRows \ {Here(t)} : imported'[q] = imported[q]
  BY <1>1, <1>3, <1>6, <1>7 DEF ImportTyped
<1>9. ImportTyped'
  BY <1>1, <1>4, <1>6, <1>8 DEF ImportTyped, JobRows
<1>10. CounterStays'
  <2>1. \A q \in ImportRows : imported'[q] \subseteq 0..RemoteIssues
    BY <1>7, <1>8 DEF ImportInv, CounterStays
  <2>2. ASSUME NEW q \in ImportRows, q \notin short',
               ~\E u \in ImportWorkers : importer'[u].pc = "bump" /\ importer'[u].at = q
        PROVE  \A m \in imported'[q] : m < next'[q]
    <3>1. q # Here(t)
      BY <1>5, <1>6, <2>2
    <3>2. ~\E u \in ImportWorkers : importer[u].pc = "bump" /\ importer[u].at = q
      BY <1>2, <1>6, <2>2 DEF Others
    <3> QED BY <1>4, <1>5, <1>8, <2>2, <3>1, <3>2 DEF ImportInv, CounterStays
  <2> QED BY <2>1, <2>2 DEF CounterStays
<1> QED BY <1>6, <1>9, <1>10 DEF ImportInv

LEMMA BumpCounterStep == ASSUME ImportInv, NEW t \in ImportWorkers, BumpCounter(t) PROVE ImportInv'
<1>1. ImportTyped
  BY DEF ImportInv
<1>2. importer[t].pc = "bump" /\ Goes(t, "finish")
  BY DEF BumpCounter, Doing
<1>4. UNCHANGED <<job, options, row, disk, before, imported, expired, contested, orphaned, short>>
  BY DEF BumpCounter, history
<1>6. /\ importer' \in [ImportWorkers -> Worker] /\ Others(t) /\ importer'[t].pc = "finish"
      /\ importer'[t].at = Here(t) /\ Here(t) \in ImportRows
      /\ RowsInv' /\ OneMirror' /\ LocalKept'
  BY <1>2, <1>4, WorkGoesOn
<1>7. next \in [ImportRows -> Nat] /\ RemoteIssues \in Nat
  BY <1>1, ImportAssumption DEF ImportTyped
<1>8. PICK n \in Nat : n > RemoteIssues /\ next' = [next EXCEPT ![Here(t)] = n]
  <2>1. PICK n : n = IF next[Here(t)] > RemoteIssues THEN next[Here(t)] ELSE RemoteIssues + 1
    OBVIOUS
  <2>2. next' = [next EXCEPT ![Here(t)] = n]
    BY <2>1 DEF BumpCounter
  <2>3. next[Here(t)] \in Nat
    BY <1>6, <1>7
  <2>4. n \in Nat /\ n > RemoteIssues
    BY <1>7, <2>1, <2>3
  <2> QED BY <2>2, <2>4
<1>9. ImportTyped'
  BY <1>1, <1>4, <1>6, <1>8 DEF ImportTyped, JobRows
<1>10. CounterStays'
  <2> SUFFICES ASSUME NEW q \in ImportRows, q \notin short,
                      ~\E u \in ImportWorkers : importer'[u].pc = "bump" /\ importer'[u].at = q
               PROVE  \A m \in imported[q] : m < next'[q]
    BY <1>4 DEF ImportInv, CounterStays
  <2>1. CASE q = Here(t)
    BY <1>7, <1>8, <2>1 DEF ImportInv, CounterStays
  <2>2. CASE q # Here(t)
    <3>1. ~\E u \in ImportWorkers : importer[u].pc = "bump" /\ importer[u].at = q
      BY <1>6, <2>2 DEF Others, Here
    <3> QED BY <1>7, <1>8, <2>2, <3>1 DEF ImportInv, CounterStays
  <2> QED BY <2>1, <2>2
<1> QED BY <1>6, <1>9, <1>10 DEF ImportInv

LEMMA LocateStep == ASSUME ImportInv, NEW t \in ImportWorkers, Locate(t) PROVE ImportInv'
<1>1. ImportTyped /\ RowsInv
  BY DEF ImportInv
<1>2. PICK x : x = importer[t]
  OBVIOUS
<1>3. x.pc = "next" /\ x \in Worker /\ WorkFits(x) /\ Links(x)
  BY <1>1, <1>2, RecordIs DEF Locate, Doing, RowsInv
<1>4. x.at = Nothing
  BY <1>3 DEF WorkFits
<1>5. PICK e \in x.todo :
        \/ /\ ~e[3] /\ disk[e[1]] = "absent" /\ row' = row
           /\ importer' = [importer EXCEPT ![t].pc = "create", ![t].todo = @ \ {e}, ![t].at = e[1]]
        \/ /\ SetRow(e[1], "skipped") /\ importer' = [importer EXCEPT ![t].todo = @ \ {e}]
        \/ /\ e[3] \/ ~options.skip
           /\ row' = row
           /\ importer' = [importer EXCEPT ![t].pc = IF e[2] = "metadata" THEN "upsert" ELSE "claim",
                                           ![t].todo = @ \ {e}, ![t].at = e[1]]
  BY <1>2 DEF Locate
<1>6. PICK r \in JobRows : r = e[1]
  BY <1>3 DEF WorkFits
<1>7. e[2] \in Open /\ e[3] \in BOOLEAN /\ (e[2] # "pending" => e[3]) /\ (e[3] => row[r].linked)
  BY <1>3, <1>6 DEF Worker, WorkFits, Links
<1>8. r \in ImportRows /\ r # Nothing /\ row[r] \in ImportRow /\ Linked(r)
  BY <1>1, ImportAssumption DEF ImportTyped, RowsInv
<1>9. UNCHANGED <<job, options, disk, before, next, imported, expired, contested, orphaned, short>>
  BY DEF Locate, tracker, history
<1>10. PICK rest : rest = x.todo \ {e}
  OBVIOUS
<1>11. /\ rest \in SUBSET (ImportRows \X Open \X BOOLEAN) /\ rest \subseteq x.todo
       /\ \A f \in rest : f[1] # r
       /\ \A f \in x.todo : f[1] # r => f \in rest
  BY <1>3, <1>6, <1>10 DEF Worker, WorkFits
<1>12. \A q \in JobRows : ~Mirrors(x, q) /\ q # Nothing
  BY <1>1, <1>3, ImportAssumption DEF Mirrors, ImportTyped
<1>13. Has(x, r)
  BY <1>6 DEF Has
<1>14. \A z : z.todo = rest /\ z.at \in {Nothing, r} =>
         \A q \in JobRows \ {r} : (Has(z, q) <=> Has(x, q)) /\ (Reaches(z, q) => Reaches(x, q))
  <2> TAKE z
  <2> HAVE z.todo = rest /\ z.at \in {Nothing, r}
  <2> TAKE q \in JobRows \ {r}
  <2>1. q # z.at /\ q # x.at
    BY <1>4, <1>12
  <2>2. (\E f \in rest : f[1] = q) <=> (\E f \in x.todo : f[1] = q)
    BY <1>11
  <2> QED BY <1>11, <2>1, <2>2 DEF Has, Reaches
<1>15. ASSUME importer' \in [ImportWorkers -> Worker], Others(t), importer'[t].todo = rest,
              importer'[t].at \in {Nothing, r}, importer'[t].pc \in {"next", "create", "claim", "upsert"},
              importer'[t].pc = "next" <=> importer'[t].at = Nothing,
              row' \in [JobRows -> ImportRow], \A q \in JobRows \ {r} : row'[q] = row[q],
              row'[r].linked = row[r].linked, row'[r].status = "pending" => row[r].status = "pending",
              row'[r].status \in Settled \/ row'[r] = row[r], importer'[t].at = r => row' = row,
              importer'[t].at = Nothing /\ job.status # "gone" => row'[r].status \in Settled,
              importer'[t].pc \in {"create", "claim"} => Reaches(x, r) /\ (options.skip => r \notin before),
              importer'[t].pc = "upsert" => row[r].linked
       PROVE  ImportInv'
  <2>1. PICK z : z = importer'[t]
    OBVIOUS
  <2>2. JobRows' = JobRows
    BY <1>15 DEF JobRows
  <2>3. ImportTyped'
    BY <1>1, <1>9, <1>15, <2>2 DEF ImportTyped
  <2>4. \A q \in JobRows \ {r} : (Has(z, q) <=> Has(x, q)) /\ (Reaches(z, q) => Reaches(x, q))
    BY <1>14, <1>15, <2>1
  <2>5. /\ z.at = r => Has(z, r)
        /\ z.at = Nothing => ~Has(z, r)
        /\ z.pc \notin {"create", "claim"} => ~Reaches(z, r)
    BY <1>8, <1>11, <1>15, <2>1 DEF Has, Reaches
  <2>6. Reaches(z, r) => Reaches(x, r) /\ row' = row
    BY <1>8, <1>15, <2>1, <2>5
  <2>7. WorkFits(z)
    BY <1>3, <1>8, <1>11, <1>15, <2>1 DEF WorkFits
  <2>8. WorkFits(importer[t])'
    BY <2>1, <2>2, <2>7 DEF WorkFits
  <2>9. Links(importer[t])'
    <3>1. \A q \in JobRows : Mirrors(z, q) => row'[q].linked
      BY <1>12, <1>15, <2>1 DEF Mirrors
    <3>2. \A f \in z.todo : f[3] => row'[f[1]].linked
      BY <1>3, <1>11, <1>15, <2>1 DEF Links, WorkFits
    <3>3. options.skip /\ z.pc \in {"create", "claim"} => z.at \notin before
      BY <1>15, <2>1
    <3> QED BY <1>9, <2>1, <2>2, <3>1, <3>2, <3>3 DEF Links
  <2>10. Linked(r)'
    BY <1>8, <1>9, <1>15 DEF Linked, Settled
  <2>11. Moves(t, r)
    <3>1. \A q \in JobRows : Reaches(z, q) => Reaches(x, q)
      BY <2>4, <2>6
    <3>2. \A u \in ImportWorkers \ {t} : importer'[u] = importer[u]
      BY <1>15 DEF Others
    <3>3. Has(z, r) /\ row'[r].status \in Settled => row[r].status \in Settled
      BY <1>15, <2>1, <2>5
    <3>4. row'[r].status \in {"mirroring", "metadata"} => row[r].status \in {"mirroring", "metadata"} /\ ~Mirrors(x, r)
      BY <1>12, <1>15 DEF Settled
    <3>5. job.status # "gone" /\ ~Has(z, r) => row'[r].status \in Settled
      BY <1>15, <2>1, <2>5
    <3>6. \A q \in JobRows \ {r} : ~Mirrors(x, q) /\ (Has(z, q) <=> Has(x, q))
      BY <1>12, <2>4
    <3> QED BY <1>2, <1>3, <1>9, <1>13, <1>15, <2>1, <2>6, <2>8, <2>9, <2>10,
               <3>1, <3>2, <3>3, <3>4, <3>5, <3>6 DEF Moves
  <2>12. RowsInv'
    BY <1>1, <2>11, MovesKeep
  <2>13. OneMirror' /\ LocalKept' /\ CounterStays'
    BY <1>2, <1>3, <1>9, <1>15, Quiet
  <2> QED BY <2>3, <2>12, <2>13 DEF ImportInv
<1>16. ASSUME NEW pc \in {"create", "claim", "upsert"}, row' = row,
              importer' = [importer EXCEPT ![t].pc = pc, ![t].todo = @ \ {e}, ![t].at = e[1]],
              pc \in {"create", "claim"} => e[2] # "metadata" /\ (options.skip => r \notin before),
              pc = "upsert" => row[r].linked
       PROVE  ImportInv'
  <2>1. PICK z : z = [x EXCEPT !.pc = pc, !.todo = rest, !.at = r]
    OBVIOUS
  <2>2. z \in Worker /\ z.pc = pc /\ z.todo = rest /\ z.at = r
    BY <1>3, <1>8, <1>11, <2>1 DEF Worker
  <2>3. importer' = [importer EXCEPT ![t] = z]
    BY <1>2, <1>6, <1>10, <1>16, <2>1
  <2>4. importer' \in [ImportWorkers -> Worker] /\ Others(t) /\ importer'[t] = z
    BY <1>1, <2>2, <2>3, RecordIs
  <2>5. row' \in [JobRows -> ImportRow]
    BY <1>1, <1>16 DEF ImportTyped
  <2>6. pc \in {"create", "claim"} => Reaches(x, r)
    BY <1>6, <1>16 DEF Reaches
  <2> QED BY <1>8, <1>15, <1>16, <2>2, <2>4, <2>5, <2>6
<1>17. CASE /\ ~e[3] /\ disk[e[1]] = "absent" /\ row' = row
            /\ importer' = [importer EXCEPT ![t].pc = "create", ![t].todo = @ \ {e}, ![t].at = e[1]]
  <2>1. e[2] # "metadata"
    BY <1>7, <1>17
  <2>2. options.skip => r \notin before
    BY <1>6, <1>17 DEF ImportInv, LocalKept
  <2> QED BY <1>16, <1>17, <2>1, <2>2
<1>18. CASE SetRow(e[1], "skipped") /\ importer' = [importer EXCEPT ![t].todo = @ \ {e}]
  <2>1. PICK z : z = [x EXCEPT !.todo = rest]
    OBVIOUS
  <2>2. z \in Worker /\ z.pc = "next" /\ z.todo = rest /\ z.at = Nothing
    BY <1>3, <1>4, <1>11, <2>1 DEF Worker
  <2>3. importer' = [importer EXCEPT ![t] = z]
    BY <1>2, <1>10, <1>18, <2>1
  <2>4. importer' \in [ImportWorkers -> Worker] /\ Others(t) /\ importer'[t] = z
    BY <1>1, <2>2, <2>3, RecordIs
  <2>5. /\ row' \in [JobRows -> ImportRow] /\ \A q \in JobRows \ {r} : row'[q] = row[q]
        /\ row'[r].linked = row[r].linked
        /\ job.status = "gone" => row' = row
        /\ job.status # "gone" => row'[r].status = "skipped"
    BY <1>1, <1>6, <1>18, SetRowIs DEF Settled
  <2>6. row'[r].status \in Settled \/ row'[r] = row[r]
    BY <2>5 DEF Settled
  <2>7. row'[r].status = "pending" => row[r].status = "pending"
    BY <2>5
  <2>8. job.status # "gone" => row'[r].status \in Settled
    BY <2>5 DEF Settled
  <2> QED BY <1>8, <1>15, <2>2, <2>4, <2>5, <2>6, <2>7, <2>8
<1>19. CASE /\ e[3] \/ ~options.skip
            /\ row' = row
            /\ importer' = [importer EXCEPT ![t].pc = IF e[2] = "metadata" THEN "upsert" ELSE "claim",
                                            ![t].todo = @ \ {e}, ![t].at = e[1]]
  <2>1. PICK pc \in {"upsert", "claim"} : pc = IF e[2] = "metadata" THEN "upsert" ELSE "claim"
    OBVIOUS
  <2>2. importer' = [importer EXCEPT ![t].pc = pc, ![t].todo = @ \ {e}, ![t].at = e[1]]
    BY <1>19, <2>1
  <2>3. options.skip => r \notin before
    BY <1>7, <1>8, <1>19 DEF Linked
  <2>4. pc = "upsert" => row[r].linked
    BY <1>7, <2>1
  <2>5. pc = "claim" => e[2] # "metadata"
    BY <2>1
  <2> QED BY <1>16, <1>19, <2>2, <2>3, <2>4, <2>5
<1> QED BY <1>5, <1>17, <1>18, <1>19

(* The rows and the workers stay; only what is contested, the stamps and the *)
(* job may change.                                                         *)
LEMMA RowsStand ==
  ASSUME ImportTyped, RowsInv, row' \in [JobRows -> ImportRow],
         \A r \in JobRows : row'[r].status = row[r].status /\ row'[r].linked = row[r].linked,
         \A r \in JobRows : ~row'[r].stale => ~row[r].stale,
         UNCHANGED <<options, before, contested, orphaned, importer>>,
         job'.status # "gone" => job'.status = job.status
  PROVE  RowsInv'
<1>1. JobRows' = JobRows
  BY DEF JobRows
<1>2. \A t \in ImportWorkers : (WorkFits(importer[t]) /\ Links(importer[t]))'
  BY <1>1 DEF RowsInv, WorkFits, Links
<1>3. \A r \in JobRows' : Linked(r)'
  BY <1>1 DEF RowsInv, Linked
<1>4. Overlap' /\ SettledUnder'
  BY <1>1 DEF RowsInv, Overlap, SettledUnder
<1>5. ClaimedUnder'
  BY <1>1 DEF RowsInv, ClaimedUnder, BusyRow
<1>6. UnderWay'
  BY <1>1 DEF RowsInv, UnderWay
<1>7. Passes' /\ EndedPasses'
  BY <1>1 DEF RowsInv, Passes, EndedPasses, PassedOver
<1> QED BY <1>2, <1>3, <1>4, <1>5, <1>6, <1>7 DEF RowsInv

LEMMA UserSteps ==
  ASSUME ImportInv, NEW r \in ImportRows, DrawNumber(r) \/ InsertIssue(r)
  PROVE  ImportInv'
<1>1. ImportTyped /\ RowsInv
  BY DEF ImportInv
<1>2. UNCHANGED <<job, options, row, disk, before, imported, importer, expired, contested, orphaned, short>>
  BY DEF DrawNumber, InsertIssue, history
<1>3. PICK n \in [ImportRows -> Nat] : next' = n /\ \A q \in ImportRows : n[q] >= next[q]
  <2>1. next \in [ImportRows -> Nat]
    BY <1>1 DEF ImportTyped
  <2>2. CASE next' = next
    BY <2>1, <2>2
  <2>3. CASE next' # next
    <3>1. next' = [next EXCEPT ![r] = next[r] + 1]
      BY <2>3 DEF DrawNumber, InsertIssue
    <3> QED BY <2>1, <3>1
  <2> QED BY <2>2, <2>3
<1>4. ImportTyped'
  BY <1>1, <1>2, <1>3 DEF ImportTyped, JobRows
<1>5. RowsInv'
  BY <1>1, <1>2, RowsStand DEF ImportTyped
<1>6. OneMirror' /\ LocalKept'
  BY <1>2 DEF ImportInv, OneMirror, LocalKept, Doing, Here
<1>7. CounterStays'
  <2> SUFFICES ASSUME NEW q \in ImportRows, NEW m \in imported[q], m < next[q]
               PROVE  m < next'[q]
    BY <1>2 DEF ImportInv, CounterStays
  <2>1. m \in Nat /\ next[q] \in Nat /\ next'[q] \in Nat /\ next'[q] >= next[q]
    BY <1>1, <1>3 DEF ImportTyped
  <2> QED BY <2>1
<1> QED BY <1>4, <1>5, <1>6, <1>7 DEF ImportInv

LEMMA JobSteps == ASSUME ImportInv, DeleteCredential \/ Age PROVE ImportInv'
<1>1. ImportTyped /\ RowsInv
  BY DEF ImportInv
<1>2. UNCHANGED <<options, disk, before, next, imported, importer, expired, contested, orphaned, short>>
  BY DEF DeleteCredential, Age, tracker, history
<1>3. /\ job' \in [status : {"pending", "mirroring", "done", "failed", "gone"}, stale : BOOLEAN]
      /\ job'.status # "gone" => job'.status = job.status
      /\ row' \in [JobRows -> ImportRow]
      /\ \A r \in JobRows : row'[r].status = row[r].status /\ row'[r].linked = row[r].linked
      /\ \A r \in JobRows : ~row'[r].stale => ~row[r].stale
  <2>1. CASE DeleteCredential
    BY <1>1, <2>1 DEF DeleteCredential, ImportTyped
  <2>2. CASE Age
    <3>1. PICK S \in SUBSET JobRows :
            row' = [r \in JobRows |-> IF r \in S THEN [row[r] EXCEPT !.stale = TRUE] ELSE row[r]]
      BY <2>2 DEF Age
    <3>2. ASSUME NEW r \in JobRows
          PROVE  /\ row'[r] \in ImportRow /\ row'[r].status = row[r].status /\ row'[r].linked = row[r].linked
                 /\ ~row'[r].stale => ~row[r].stale
      <4>1. PICK x \in ImportRow : x = row[r]
        BY <1>1 DEF ImportTyped
      <4>2. PICK y : y = [x EXCEPT !.stale = TRUE]
        OBVIOUS
      <4>3. y \in ImportRow /\ y.status = x.status /\ y.linked = x.linked /\ y.stale
        BY <4>1, <4>2 DEF ImportRow
      <4>4. row'[r] = IF r \in S THEN y ELSE x
        BY <3>1, <4>1, <4>2
      <4> QED BY <4>1, <4>3, <4>4
    <3>3. row' \in [JobRows -> ImportRow]
      BY <3>1, <3>2
    <3>4. job' \in [status : {"pending", "mirroring", "done", "failed", "gone"}, stale : BOOLEAN]
          /\ job'.status = job.status
      BY <1>1, <2>2 DEF Age, ImportTyped
    <3> QED BY <3>2, <3>3, <3>4
  <2> QED BY <2>1, <2>2
<1>4. ImportTyped'
  BY <1>1, <1>2, <1>3 DEF ImportTyped, JobRows
<1>5. RowsInv'
  BY <1>1, <1>2, <1>3, RowsStand
<1>6. OneMirror' /\ LocalKept' /\ CounterStays'
  BY <1>2 DEF ImportInv, OneMirror, LocalKept, CounterStays, Doing, Here
<1> QED BY <1>4, <1>5, <1>6 DEF ImportInv

LEMMA ImportSteps == ImportInv /\ [ImportNext]_importVars => ImportInv'
<1> SUFFICES ASSUME ImportInv, [ImportNext]_importVars PROVE ImportInv'
  OBVIOUS
<1>1. CASE UNCHANGED importVars
  <2>1. UNCHANGED <<job, options, row, disk, before, next, imported, importer, expired, contested, orphaned, short>>
    BY <1>1 DEF importVars
  <2>2. ImportTyped'
    BY <2>1 DEF ImportInv, ImportTyped, JobRows
  <2>3. RowsInv'
    BY <2>1, RowsStand DEF ImportInv, ImportTyped
  <2>4. OneMirror' /\ LocalKept' /\ CounterStays'
    BY <2>1 DEF ImportInv, OneMirror, LocalKept, CounterStays, Doing, Here
  <2> QED BY <2>2, <2>3, <2>4 DEF ImportInv
<1>2. ASSUME NEW t \in ImportWorkers, ImportStep(t) \/ ImporterDies(t) PROVE ImportInv'
  BY <1>2, ClaimJobStep, ReadRowsStep, EndJobStep, LocateStep, CreateShellStep, ClaimMirrorStep, MirrorStep,
     UpsertIssuesStep, BumpCounterStep, FinishRowStep, ImporterDiesStep DEF ImportStep
<1>3. ASSUME NEW r \in ImportRows, DrawNumber(r) \/ InsertIssue(r) PROVE ImportInv'
  BY <1>3, UserSteps
<1>4. CASE DeleteCredential \/ Age
  BY <1>4, JobSteps
<1> QED BY <1>1, <1>2, <1>3, <1>4 DEF ImportNext

(* Two workers mirror a repository only after its claim ran out; a job that  *)
(* has ended leaves every repository settled but those of a dead worker that *)
(* another had met; a user's repository is kept, and a user's new issue gets *)
(* a number of its own (worker/src/import.rs, metadata.rs).                 *)
THEOREM ImportsAreSound == ImportSpec => []ImportSound
<1>1. ImportInv => ImportSound
  <2> SUFFICES ASSUME ImportInv PROVE ImportSound
    OBVIOUS
  <2>1. JobEndsSettled
    <3> SUFFICES ASSUME job.status \in {"done", "failed"}, Working = {}, NEW r \in JobRows,
                        row[r].status \notin Settled
                 PROVE  r \in contested \cap orphaned
      BY DEF JobEndsSettled
    <3>1. row[r].status \in Open
      BY DEF ImportInv, ImportTyped, ImportRow
    <3>2. row[r].status # "pending" /\ r \in contested
      BY <3>1 DEF ImportInv, RowsInv, EndedPasses, PassedOver
    <3>3. \A t \in ImportWorkers : ~Mirrors(importer[t], r)
      BY DEF Working, Mirrors
    <3> QED BY <3>1, <3>2, <3>3 DEF ImportInv, RowsInv, UnderWay, Open
  <2>2. CounterAhead
    BY DEF ImportInv, CounterStays, CounterAhead, Here
  <2> QED BY <2>1, <2>2 DEF ImportInv, ImportSound
<1> QED BY <1>1, ImportInitially, ImportSteps, PTL DEF ImportSpec

-----------------------------------------------------------------------------
(***************************************************************************)
(* BackupSound for any items, backups, commands, restores and faults.      *)
(***************************************************************************)
TaskRecord == [pc : {"off", "begin", "next", "copy", "finish", "ended"}, todo : Seq(Parts), left : Named, got : Archives]
RestoreRecord == [pc : {"off", "next", "copy", "exits", "done", "failed"}, cli : BOOLEAN,
                  from : Archives \cup {NoArchive}, left : Named, asked : SUBSET Parts, todo : Seq(Parts)]
AtFiles(x) == x.todo # <<>> /\ Head(x.todo) \in Kinds
Tasks == {t \in TaskRecord : t.pc = "copy" => AtFiles(t) /\ t.got[Head(t.todo)] \in Named}
Restores == {x \in RestoreRecord : (x.pc # "off" => x.from \in Archives) /\ (x.pc = "copy" => AtFiles(x))}
BackupTyped ==
  /\ rows \in [Kinds -> Named] /\ files \in [Kinds -> Named]
  /\ meta \in [Backups -> {"absent", "pending", "running", "completed", "failed"}]
  /\ archive \in [Makers -> Archives \cup {NoArchive}]
  /\ task \in [Makers -> Tasks] /\ restore \in [Restorers -> Restores] /\ shelf \subseteq Archives

(* The dump comes first: what is copied afterwards holds what it names.     *)
DbFirst(s) == \A i \in DOMAIN s : s[i] = "db" => i = 1
Copying(t, k) == IF t.pc = "copy" /\ Head(t.todo) = k THEN t.left ELSE {}
Dumped(t) == t.got["db"] # NoArchive
CopiesDump(t) == Dumped(t) => \A k \in Kinds :
  t.got[k] # NoArchive => t.got["db"][k] \subseteq t.got[k] \cup Copying(t, k)
InOrder(t) ==
  /\ DbFirst(t.todo)
  /\ (\E k \in Kinds : t.got[k] # NoArchive) => "db" \notin Elements(t.todo)
(* As long as nothing is removed, what was there when the command began is. *)
StillThere(t) == \A k \in Kinds :
  rows[k] \subseteq files[k] /\ (Dumped(t) => t.got["db"][k] \subseteq files[k])
CommandFits(b) ==
  /\ task[b].pc # "ended" => archive[b] = NoArchive
  /\ Running(b) => InOrder(task[b]) /\ (b \notin shrunk => CopiesDump(task[b]) /\ StillThere(task[b]))
  /\ archive[b] # NoArchive /\ b \notin shrunk => Covers(archive[b])
BackupFits(b) == b \notin deleted /\ (meta[b] = "completed" \/ task[b].pc = "finish") => archive[b] # NoArchive

(* A restore nobody disturbs has put back the parts it is done with.        *)
Restored(x) == x.asked \ Elements(x.todo)
RestoreFits(r) == LET x == restore[r] IN x.pc \in {"next", "copy", "exits", "done"} =>
  /\ "db" \in Restored(x) => rows = x.from["db"]
  /\ \A k \in Kinds \cap Restored(x) : x.from[k] \subseteq files[k]
  /\ x.pc = "copy" => x.from[Head(x.todo)] \subseteq files[Head(x.todo)] \cup x.left
  /\ x.pc \in {"exits", "done"} => x.todo = <<>>
BackupInv ==
  /\ BackupTyped
  /\ \A b \in Commands : CommandFits(b)
  /\ \A b \in Backups : BackupFits(b)
  /\ \A r \in calm : r \in Restorers /\ RestoreFits(r)

(* Sequences: what is left of one when its head is done. *)
LEMMA HeadAndTail ==
  ASSUME NEW S, NEW s \in Seq(S), s # <<>>
  PROVE  /\ Head(s) \in S /\ Tail(s) \in Seq(S) /\ Head(s) \in Elements(s)
         /\ \A e \in Elements(s) : e = Head(s) \/ e \in Elements(Tail(s))
         /\ Elements(Tail(s)) \subseteq Elements(s)
         /\ DbFirst(s) => DbFirst(Tail(s)) /\ "db" \notin Elements(Tail(s))
<1>1. /\ Head(s) \in S /\ Tail(s) \in Seq(S) /\ Len(Tail(s)) = Len(s) - 1
      /\ \A i \in 1..Len(Tail(s)) : Tail(s)[i] = s[i + 1]
  BY HeadTailProperties
<1>2. /\ Len(s) \in Nat \ {0} /\ DOMAIN s = 1..Len(s)
  BY EmptySeq, LenProperties
<1>3. DOMAIN Tail(s) = 1..Len(Tail(s))
  BY <1>1, LenProperties
<1>4. Head(s) = s[1]
  BY <1>2
<1>5. Head(s) \in Elements(s)
  BY <1>2, <1>4 DEF Elements
<1>6. \A e \in Elements(s) : e = Head(s) \/ e \in Elements(Tail(s))
  <2> SUFFICES ASSUME NEW i \in DOMAIN s, i # 1 PROVE s[i] \in Elements(Tail(s))
    BY <1>4 DEF Elements
  <2>1. i - 1 \in 1..Len(Tail(s)) /\ (i - 1) + 1 = i
    BY <1>1, <1>2
  <2>2. Tail(s)[i - 1] = s[i]
    BY <2>1, <1>1
  <2> QED BY <2>1, <2>2, <1>3 DEF Elements
<1>7. \A i \in DOMAIN Tail(s) : Tail(s)[i] = s[i + 1] /\ i + 1 \in DOMAIN s /\ i + 1 # 1
  BY <1>1, <1>2, <1>3
<1>8. Elements(Tail(s)) \subseteq Elements(s)
  BY <1>7 DEF Elements
<1>9. DbFirst(s) => DbFirst(Tail(s)) /\ "db" \notin Elements(Tail(s))
  BY <1>7 DEF DbFirst, Elements
<1> QED BY <1>1, <1>5, <1>6, <1>8, <1>9

LEMMA NothingLeft ==
  /\ <<>> \in Seq(Parts) /\ Elements(<<>>) = {} /\ DbFirst(<<>>)
<1>1. <<>> \in Seq(Parts) /\ DOMAIN <<>> = {}
  BY EmptySeq, LenProperties
<1> QED BY <1>1 DEF Elements, DbFirst

(* The command's order has the dump first and leaves nothing out. *)
LEMMA Concatenated ==
  ASSUME NEW s \in Seq(Parts), NEW t \in Seq(Parts)
  PROVE  /\ s \o t \in Seq(Parts) /\ Elements(s \o t) = Elements(s) \cup Elements(t)
         /\ DbFirst(s) /\ "db" \notin Elements(t) => DbFirst(s \o t)
<1> DEFINE u == s \o t
<1>1. /\ u \in Seq(Parts) /\ Len(u) = Len(s) + Len(t)
      /\ \A i \in 1..Len(s) + Len(t) : u[i] = IF i <= Len(s) THEN s[i] ELSE t[i - Len(s)]
  BY ConcatProperties
<1>2. /\ Len(s) \in Nat /\ Len(t) \in Nat /\ DOMAIN s = 1..Len(s) /\ DOMAIN t = 1..Len(t)
      /\ DOMAIN u = 1..Len(u)
  BY <1>1, LenProperties
<1> HIDE DEF u
<1>3. \A i \in DOMAIN u : (i \in DOMAIN s /\ u[i] = s[i]) \/ (i - Len(s) \in DOMAIN t /\ u[i] = t[i - Len(s)])
  BY <1>1, <1>2
<1>4. \A i \in DOMAIN s : i \in DOMAIN u /\ u[i] = s[i]
  BY <1>1, <1>2
<1>5. \A i \in DOMAIN t : i + Len(s) \in DOMAIN u /\ u[i + Len(s)] = t[i]
  <2> TAKE i \in DOMAIN t
  <2>1. i + Len(s) \in 1..Len(s) + Len(t) /\ ~(i + Len(s) <= Len(s)) /\ (i + Len(s)) - Len(s) = i
    BY <1>2
  <2> QED BY <2>1, <1>1, <1>2
<1>6. Elements(u) = Elements(s) \cup Elements(t)
  BY <1>3, <1>4, <1>5 DEF Elements
<1>7. DbFirst(s) /\ "db" \notin Elements(t) => DbFirst(u)
  BY <1>3 DEF DbFirst, Elements
<1> QED BY <1>1, <1>6, <1>7 DEF u

LEMMA IfInParts ==
  ASSUME NEW p \in Parts, NEW S
  PROVE  /\ IfIn(p, S) \in Seq(Parts) /\ Elements(IfIn(p, S)) = {p} \cap S /\ DbFirst(IfIn(p, S))
<1>1. CASE p \notin S
  BY <1>1, NothingLeft DEF IfIn
<1>2. CASE p \in S
  <2>1. <<p>> \in Seq(Parts)
    OBVIOUS
  <2>2. DOMAIN <<p>> = 1..1 /\ <<p>>[1] = p
    OBVIOUS
  <2>3. Elements(<<p>>) = {p} /\ DbFirst(<<p>>)
    BY <2>2 DEF Elements, DbFirst
  <2> QED BY <2>1, <2>3, <1>2 DEF IfIn
<1> QED BY <1>1, <1>2

LEMMA CommandOrder ==
  ASSUME NEW S \in SUBSET Parts
  PROVE  CliParts(S) \in Seq(Parts) /\ Elements(CliParts(S)) = S /\ DbFirst(CliParts(S))
<1> DEFINE d == IfIn("db", S)
           p == IfIn("repos", S)
           q == IfIn("registry", S)
           a == IfIn("artifacts", S)
<1>1. /\ d \in Seq(Parts) /\ Elements(d) = {"db"} \cap S /\ DbFirst(d)
      /\ p \in Seq(Parts) /\ Elements(p) = {"repos"} \cap S
      /\ q \in Seq(Parts) /\ Elements(q) = {"registry"} \cap S
      /\ a \in Seq(Parts) /\ Elements(a) = {"artifacts"} \cap S
  BY IfInParts DEF Parts, Kinds
<1>2. CliParts(S) = ((d \o p) \o q) \o a
  BY DEF CliParts
<1> HIDE DEF d, p, q, a
<1>3. "db" \notin Elements(p) /\ "db" \notin Elements(q) /\ "db" \notin Elements(a)
  BY <1>1
<1>4. d \o p \in Seq(Parts) /\ Elements(d \o p) = Elements(d) \cup Elements(p) /\ DbFirst(d \o p)
  BY <1>1, <1>3, Concatenated
<1>5. /\ (d \o p) \o q \in Seq(Parts) /\ Elements((d \o p) \o q) = Elements(d \o p) \cup Elements(q)
      /\ DbFirst((d \o p) \o q)
  BY <1>1, <1>3, <1>4, Concatenated
<1>6. /\ CliParts(S) \in Seq(Parts) /\ DbFirst(CliParts(S))
      /\ Elements(CliParts(S)) = Elements((d \o p) \o q) \cup Elements(a)
  <2>1. PICK u \in Seq(Parts) : u = (d \o p) \o q
    BY <1>5
  <2>2. DbFirst(u) /\ CliParts(S) = u \o a
    BY <1>2, <1>5, <2>1
  <2>3. u \o a \in Seq(Parts) /\ Elements(u \o a) = Elements(u) \cup Elements(a) /\ DbFirst(u \o a)
    BY <1>1, <1>3, <2>2, Concatenated
  <2> QED BY <2>1, <2>2, <2>3
<1>7. \A e : e \in Elements(CliParts(S)) <=> e \in {"db", "repos", "registry", "artifacts"} /\ e \in S
  BY <1>1, <1>4, <1>5, <1>6
<1>8. \A e : e \in Elements(CliParts(S)) <=> e \in S
  BY <1>7 DEF Parts, Kinds
<1>9. Elements(CliParts(S)) = S
  BY <1>8
<1> QED BY <1>6, <1>9

LEMMA BackupInitially == BackupInit => BackupInv
<1> SUFFICES ASSUME BackupInit PROVE BackupInv
  OBVIOUS
<1> USE BackupAssumption
<1>1. NoParts \in Archives
  BY DEF NoParts, Archives, Parts, Kinds
<1>2. IdleTask \in Tasks /\ IdleTask.pc = "off"
  BY <1>1, NothingLeft DEF IdleTask, Tasks, TaskRecord, Named
<1>3. PICK x : x = [pc |-> "off", cli |-> FALSE, from |-> NoArchive, left |-> {}, asked |-> {}, todo |-> <<>>]
  OBVIOUS
<1>4. x \in Restores
  BY <1>3, NothingLeft DEF Restores, RestoreRecord, Named
<1>5. restore \in [Restorers -> Restores]
  BY <1>3, <1>4 DEF BackupInit
<1>6. task \in [Makers -> Tasks] /\ \A b \in Makers : task[b].pc = "off"
  BY <1>2 DEF BackupInit
<1>7. BackupTyped
  BY <1>5, <1>6 DEF BackupInit, BackupTyped, Named
<1>8. /\ \A b \in Commands : CommandFits(b)
      /\ \A b \in Backups : BackupFits(b)
  BY <1>6 DEF BackupInit, CommandFits, BackupFits, Running, Makers
<1> QED BY <1>7, <1>8 DEF BackupInv, BackupInit

(* A command nobody touches, while nothing it relies on is removed.         *)
Keeps == \A k \in Kinds : files[k] \subseteq files'[k] /\ (rows[k] \subseteq files[k] => rows'[k] \subseteq files'[k])
LEMMA CommandStays ==
  ASSUME BackupInv, NEW b \in Commands, task'[b] = task[b], archive'[b] = archive[b],
         shrunk \subseteq shrunk', Running(b) /\ b \notin shrunk' => Keeps
  PROVE  CommandFits(b)'
<1>1. CommandFits(b) /\ (Running(b)' <=> Running(b))
  BY DEF BackupInv, Running
<1>2. Running(b) /\ b \notin shrunk' => StillThere(task[b])'
  BY <1>1 DEF CommandFits, StillThere, Keeps
<1> QED BY <1>1, <1>2 DEF CommandFits

(* A restore nobody touches, while rows and files stay.                     *)
LEMMA RestoreStays ==
  ASSUME NEW r, RestoreFits(r), restore'[r] = restore[r], UNCHANGED worldVars
  PROVE  RestoreFits(r)'
BY DEF RestoreFits, worldVars

LEMMA ChangeKeeps ==
  ASSUME BackupInv, NEW k \in Kinds, NEW x \in Items, Change(k, x)
  PROVE  BackupInv'
<1>1. /\ UNCHANGED <<meta, archive, task, restore, shelf, deleted>> /\ calm' = {}
  BY DEF Change
<1>2. rows \in [Kinds -> Named] /\ files \in [Kinds -> Named]
  BY DEF BackupInv, BackupTyped
<1>3. CASE x \in rows[k]
  <2>1. /\ rows' = [rows EXCEPT ![k] = @ \ {x}] /\ files' = [files EXCEPT ![k] = @ \ {x}]
        /\ shrunk' = shrunk \cup {b \in Makers : Running(b)}
    BY <1>3 DEF Change
  <2>2. rows' \in [Kinds -> Named] /\ files' \in [Kinds -> Named]
    BY <1>2, <2>1 DEF Named
  <2>3. \A b \in Commands : CommandFits(b)'
    <3> TAKE b \in Commands
    <3>1. Running(b) => b \in shrunk'
      BY <2>1 DEF Makers
    <3>2. task'[b] = task[b] /\ archive'[b] = archive[b] /\ shrunk \subseteq shrunk'
      BY <1>1, <2>1
    <3> QED BY <3>1, <3>2, CommandStays
  <2> QED BY <1>1, <2>2, <2>3 DEF BackupInv, BackupTyped, BackupFits
<1>4. CASE x \notin rows[k]
  <2>1. /\ rows' = [rows EXCEPT ![k] = @ \cup {x}] /\ files' = [files EXCEPT ![k] = @ \cup {x}]
        /\ shrunk' = shrunk
    BY <1>4 DEF Change
  <2>2. rows' \in [Kinds -> Named] /\ files' \in [Kinds -> Named]
    BY <1>2, <2>1 DEF Named
  <2>3. Keeps
    BY <1>2, <2>1 DEF Keeps
  <2>4. \A b \in Commands : CommandFits(b)'
    BY <1>1, <2>1, <2>3, CommandStays
  <2> QED BY <1>1, <2>2, <2>4 DEF BackupInv, BackupTyped, BackupFits
<1> QED BY <1>3, <1>4

(***************************************************************************)
(* Steps of a backup job or a command: the world and the restores stay.    *)
(***************************************************************************)
LEMMA MakerMoves ==
  ASSUME BackupInv, NEW b \in Makers, NEW t \in Tasks, task' = [task EXCEPT ![b] = t],
         \A c \in Makers \ {b} : archive'[c] = archive[c],
         \A c \in Backups \ {b} : meta'[c] = meta[c],
         archive' \in [Makers -> Archives \cup {NoArchive}],
         meta' \in [Backups -> {"absent", "pending", "running", "completed", "failed"}],
         shrunk \subseteq shrunk',
         UNCHANGED <<worldVars, restore, shelf, deleted, calm>>,
         b \in Commands => CommandFits(b)', b \in Backups => BackupFits(b)'
  PROVE  BackupInv'
<1>1. task' \in [Makers -> Tasks] /\ \A c \in Makers \ {b} : task'[c] = task[c]
  BY DEF BackupInv, BackupTyped
<1>2. \A c \in Commands : CommandFits(c)'
  <2> SUFFICES ASSUME NEW c \in Commands, c # b PROVE CommandFits(c)'
    OBVIOUS
  <2>1. c \in Makers \ {b} /\ Keeps
    BY DEF Makers, Keeps, worldVars
  <2> QED BY <1>1, <2>1, CommandStays
<1>3. \A c \in Backups : BackupFits(c)'
  <2> SUFFICES ASSUME NEW c \in Backups, c # b PROVE BackupFits(c)'
    OBVIOUS
  <2>1. c \in Makers \ {b} /\ BackupFits(c)
    BY DEF Makers, BackupInv
  <2> QED BY <1>1, <2>1 DEF BackupFits
<1>4. \A r \in calm' : r \in Restorers /\ RestoreFits(r)'
  BY RestoreStays DEF BackupInv, worldVars
<1>5. BackupTyped'
  BY <1>1 DEF BackupInv, BackupTyped, worldVars
<1> QED BY <1>2, <1>3, <1>4, <1>5 DEF BackupInv

(* A job or command goes on with its parts. *)
GoesOn(b, t) == t.pc # "ended" => InOrder(t) /\ (b \notin shrunk => CopiesDump(t) /\ StillThere(t))
LEMMA MakerWorks ==
  ASSUME BackupInv, NEW b \in Makers, NEW t \in Tasks, task' = [task EXCEPT ![b] = t], t.pc # "finish",
         task[b].pc \notin {"off", "ended"}, b \in Commands => GoesOn(b, t),
         UNCHANGED <<worldVars, meta, archive, restore, shelf, shrunk, deleted, calm>>
  PROVE  BackupInv'
<1>1. task'[b] = t
  BY DEF BackupInv, BackupTyped
<1>2. b \in Commands => CommandFits(b)'
  <2> SUFFICES ASSUME b \in Commands PROVE CommandFits(b)'
    OBVIOUS
  <2>1. CommandFits(b) /\ archive[b] = NoArchive
    BY DEF BackupInv, CommandFits
  <2>2. StillThere(t)' <=> StillThere(t)
    BY DEF StillThere, worldVars
  <2>3. Running(b)' => InOrder(task[b])' /\ (b \notin shrunk' => CopiesDump(task[b])' /\ StillThere(task[b])')
    BY <1>1, <2>2 DEF GoesOn, Running, InOrder, CopiesDump, StillThere, Dumped, Copying
  <2> QED BY <2>1, <2>3 DEF CommandFits
<1>3. b \in Backups => BackupFits(b)'
  BY <1>1 DEF BackupInv, BackupFits
<1>4. /\ archive' \in [Makers -> Archives \cup {NoArchive}]
      /\ meta' \in [Backups -> {"absent", "pending", "running", "completed", "failed"}]
  BY DEF BackupInv, BackupTyped
<1> QED BY <1>2, <1>3, <1>4, MakerMoves

LEMMA TaskTyped ==
  ASSUME BackupInv, NEW b \in Makers
  PROVE  /\ task[b] \in Tasks /\ task[b].todo \in Seq(Parts) /\ task[b].got \in Archives
         /\ b \in Commands /\ Running(b) => GoesOn(b, task[b])
BY DEF BackupInv, BackupTyped, Tasks, TaskRecord, GoesOn, CommandFits, Running

LEMMA DumpDbKeeps ==
  ASSUME BackupInv, NEW b \in Makers, DumpDb(b)
  PROVE  BackupInv'
<1>1. PICK x : x = task[b]
  OBVIOUS
<1>2. x \in Tasks /\ x.pc = "next" /\ x.todo # <<>> /\ Head(x.todo) = "db"
  BY <1>1, TaskTyped DEF DumpDb, Todo
<1>3. /\ Head(x.todo) \in Elements(x.todo) /\ Tail(x.todo) \in Seq(Parts)
      /\ DbFirst(x.todo) => DbFirst(Tail(x.todo)) /\ "db" \notin Elements(Tail(x.todo))
  BY <1>2, HeadAndTail DEF Tasks, TaskRecord
<1>4. PICK a : a = [x.got EXCEPT !["db"] = rows]
  OBVIOUS
<1>5. rows \in [Kinds -> Named] /\ x.got \in Archives
  BY <1>2 DEF BackupInv, BackupTyped, Tasks, TaskRecord
<1>6. a \in Archives /\ a["db"] = rows /\ \A k \in Kinds : a[k] = x.got[k]
  BY <1>4, <1>5 DEF Archives, Parts, Kinds
<1>7. PICK t : t = [x EXCEPT !.got = a, !.todo = Tail(x.todo)]
  OBVIOUS
<1>8. t \in Tasks /\ t.pc = "next" /\ t.got = a /\ t.todo = Tail(x.todo)
  BY <1>2, <1>3, <1>6, <1>7 DEF Tasks, TaskRecord
<1>9. task' = [task EXCEPT ![b] = t]
  BY <1>1, <1>4, <1>7 DEF DumpDb
<1>10. b \in Commands => GoesOn(b, t)
  <2> SUFFICES ASSUME b \in Commands PROVE GoesOn(b, t)
    OBVIOUS
  <2>1. GoesOn(b, x) /\ InOrder(x)
    BY <1>1, <1>2, TaskTyped DEF Running, GoesOn
  <2>2. \A k \in Kinds : t.got[k] = NoArchive
    BY <1>2, <1>3, <1>6, <1>8, <2>1 DEF InOrder
  <2>3. InOrder(t)
    BY <1>3, <1>8, <2>1, <2>2 DEF InOrder
  <2>4. b \notin shrunk => CopiesDump(t) /\ StillThere(t)
    BY <1>2, <1>6, <1>8, <2>1, <2>2 DEF GoesOn, CopiesDump, StillThere, Dumped
  <2> QED BY <2>3, <2>4 DEF GoesOn
<1> QED BY <1>1, <1>2, <1>8, <1>9, <1>10, MakerWorks DEF DumpDb

LEMMA OpenCopyKeeps ==
  ASSUME BackupInv, NEW b \in Makers, OpenCopy(b)
  PROVE  BackupInv'
<1>1. PICK x : x = task[b]
  OBVIOUS
<1>2. PICK k : k = Head(x.todo)
  OBVIOUS
<1>3. x \in Tasks /\ x.pc = "next" /\ x.todo # <<>> /\ k \in Kinds
  BY <1>1, <1>2, TaskTyped DEF OpenCopy, Todo
<1>4. /\ x.todo \in Seq(Parts) /\ \A e \in Elements(x.todo) : e = k \/ e \in Elements(Tail(x.todo))
      /\ DbFirst(x.todo) => "db" \notin Elements(Tail(x.todo))
  BY <1>2, <1>3, HeadAndTail DEF Tasks, TaskRecord
<1>5. PICK a : a = [x.got EXCEPT ![k] = {}]
  OBVIOUS
<1>6. files[k] \in Named /\ x.got \in Archives /\ {} \in Named
  BY <1>3 DEF BackupInv, BackupTyped, Tasks, TaskRecord, Named
<1>7. a \in Archives /\ a["db"] = x.got["db"] /\ a[k] = {} /\ \A m \in Kinds : m # k => a[m] = x.got[m]
  BY <1>3, <1>5, <1>6 DEF Archives, Parts, Kinds
<1>8. PICK t : t = [x EXCEPT !.pc = "copy", !.left = files[k], !.got = a]
  OBVIOUS
<1>9. t \in Tasks /\ t.pc = "copy" /\ t.got = a /\ t.todo = x.todo /\ t.left = files[k]
  BY <1>3, <1>6, <1>7, <1>2, <1>8 DEF Tasks, TaskRecord, AtFiles
<1>10. task' = [task EXCEPT ![b] = t]
  BY <1>1, <1>2, <1>5, <1>8 DEF OpenCopy, Todo
<1>11. b \in Commands => GoesOn(b, t)
  <2> SUFFICES ASSUME b \in Commands PROVE GoesOn(b, t)
    OBVIOUS
  <2>1. GoesOn(b, x) /\ InOrder(x)
    BY <1>1, <1>3, TaskTyped DEF Running, GoesOn
  <2>2. "db" \notin Elements(x.todo) /\ "db" # k
    BY <1>3, <1>4, <2>1 DEF InOrder, Kinds
  <2>3. InOrder(t)
    BY <1>2, <1>3, <1>9, <2>1, <2>2 DEF InOrder
  <2>4. ASSUME b \notin shrunk PROVE CopiesDump(t) /\ StillThere(t)
    <3>1. CopiesDump(x) /\ StillThere(x)
      BY <1>3, <2>1, <2>4 DEF GoesOn
    <3>2. StillThere(t)
      BY <1>7, <1>9, <3>1 DEF StillThere, Dumped
    <3>3. ASSUME Dumped(t), NEW m \in Kinds, t.got[m] # NoArchive
          PROVE  t.got["db"][m] \subseteq t.got[m] \cup Copying(t, m)
      <4>1. CASE m = k
        BY <1>2, <1>9, <3>2, <3>3, <4>1 DEF StillThere, Copying
      <4>2. CASE m # k
        BY <1>3, <1>7, <1>9, <3>1, <3>3, <4>2 DEF CopiesDump, Dumped, Copying
      <4> QED BY <4>1, <4>2
    <3> QED BY <3>2, <3>3 DEF CopiesDump
  <2> QED BY <2>3, <2>4 DEF GoesOn
<1> QED BY <1>1, <1>3, <1>9, <1>10, <1>11, MakerWorks DEF OpenCopy

LEMMA CopyItemKeeps ==
  ASSUME BackupInv, NEW b \in Makers, NEW y \in Items, CopyItem(b, y)
  PROVE  BackupInv'
<1>1. PICK x : x = task[b]
  OBVIOUS
<1>2. PICK k : k = Head(x.todo)
  OBVIOUS
<1>3. x \in Tasks /\ x.pc = "copy" /\ y \in x.left
  BY <1>1, TaskTyped DEF CopyItem
<1>4. /\ x.todo # <<>> /\ k \in Kinds /\ x.got[k] \in Named /\ x.got \in Archives /\ x.left \in Named
      /\ x.todo \in Seq(Parts)
  BY <1>2, <1>3 DEF Tasks, TaskRecord, AtFiles
<1>5. PICK a : a = [x.got EXCEPT ![k] = @ \cup {y}]
  OBVIOUS
<1>6. a[k] = x.got[k] \cup {y} /\ a["db"] = x.got["db"] /\ \A m \in Kinds : m # k => a[m] = x.got[m]
  BY <1>4, <1>5 DEF Archives, Parts, Kinds
<1>7. a[k] \in Named
  BY <1>4, <1>6 DEF Named
<1>8. a \in Archives
  BY <1>4, <1>5, <1>6, <1>7 DEF Archives, Parts, Kinds
<1>9. PICK t : t = [x EXCEPT !.left = @ \ {y}, !.got = a]
  OBVIOUS
<1>10. /\ t.pc = "copy" /\ t.got = a /\ t.todo = x.todo /\ t.left = x.left \ {y} /\ t.left \in Named
  BY <1>3, <1>4, <1>9 DEF Tasks, TaskRecord, Named
<1>11. t \in Tasks
  BY <1>2, <1>3, <1>4, <1>7, <1>8, <1>9, <1>10 DEF Tasks, TaskRecord, AtFiles
<1>12. task' = [task EXCEPT ![b] = t]
  BY <1>1, <1>2, <1>5, <1>9 DEF CopyItem, Todo
<1>13. b \in Commands => GoesOn(b, t)
  <2> SUFFICES ASSUME b \in Commands PROVE GoesOn(b, t)
    OBVIOUS
  <2>1. GoesOn(b, x) /\ InOrder(x) /\ (b \notin shrunk => CopiesDump(x) /\ StillThere(x))
    BY <1>1, <1>3, TaskTyped DEF Running, GoesOn
  <2>2. InOrder(t)
    <3>1. (\E m \in Kinds : t.got[m] # NoArchive) => "db" \notin Elements(t.todo)
      BY <1>4, <1>10, <2>1, BackupAssumption DEF InOrder
    <3> QED BY <1>10, <2>1, <3>1 DEF InOrder
  <2>3. StillThere(x) => StillThere(t)
    BY <1>6, <1>10 DEF StillThere, Dumped
  <2>4. CopiesDump(x) => CopiesDump(t)
    <3> SUFFICES ASSUME CopiesDump(x), Dumped(t), NEW m \in Kinds, t.got[m] # NoArchive
                 PROVE  t.got["db"][m] \subseteq t.got[m] \cup Copying(t, m)
      BY DEF CopiesDump
    <3>1. CASE m = k
      <4>1. x.got["db"][k] \subseteq x.got[k] \cup x.left
        BY <1>2, <1>3, <1>4, <1>6, <1>10, BackupAssumption DEF CopiesDump, Dumped, Copying
      <4> QED BY <1>2, <1>6, <1>10, <3>1, <4>1 DEF Copying
    <3>2. CASE m # k
      BY <1>2, <1>6, <1>10, <3>2 DEF CopiesDump, Dumped, Copying
    <3> QED BY <3>1, <3>2
  <2> QED BY <2>1, <2>2, <2>3, <2>4 DEF GoesOn
<1> QED BY <1>1, <1>3, <1>10, <1>11, <1>12, <1>13, MakerWorks DEF CopyItem

LEMMA CloseCopyKeeps ==
  ASSUME BackupInv, NEW b \in Makers, CloseCopy(b)
  PROVE  BackupInv'
<1>1. PICK x : x = task[b]
  OBVIOUS
<1>2. x \in Tasks /\ x.pc = "copy" /\ x.left = {}
  BY <1>1, TaskTyped DEF CloseCopy
<1>3. x.todo \in Seq(Parts) /\ x.todo # <<>>
  BY <1>2 DEF Tasks, TaskRecord, AtFiles
<1>4. /\ Tail(x.todo) \in Seq(Parts) /\ Elements(Tail(x.todo)) \subseteq Elements(x.todo)
      /\ DbFirst(x.todo) => DbFirst(Tail(x.todo))
  BY <1>3, HeadAndTail
<1>5. PICK t : t = [x EXCEPT !.pc = "next", !.todo = Tail(x.todo)]
  OBVIOUS
<1>6. t \in Tasks /\ t.pc = "next" /\ t.todo = Tail(x.todo) /\ t.got = x.got
  BY <1>2, <1>4, <1>5 DEF Tasks, TaskRecord
<1>7. task' = [task EXCEPT ![b] = t]
  BY <1>1, <1>5 DEF CloseCopy
<1>8. b \in Commands => GoesOn(b, t)
  <2> SUFFICES ASSUME b \in Commands PROVE GoesOn(b, t)
    OBVIOUS
  <2>1. GoesOn(b, x)
    BY <1>1, <1>2, TaskTyped DEF Running
  <2>2. CopiesDump(x) => CopiesDump(t)
    BY <1>2, <1>6 DEF CopiesDump, Dumped, Copying
  <2> QED BY <1>2, <1>4, <1>6, <2>1, <2>2 DEF GoesOn, InOrder, StillThere, Dumped
<1> QED BY <1>1, <1>2, <1>6, <1>7, <1>8, MakerWorks DEF CloseCopy

(* Where the records of one job or command end up. *)
LEMMA PcMoves ==
  ASSUME BackupInv, NEW b \in Makers, NEW pc \in {"next", "finish", "ended"}
  PROVE  /\ [task[b] EXCEPT !.pc = pc] \in Tasks /\ [task[b] EXCEPT !.pc = pc].pc = pc
         /\ [task[b] EXCEPT !.pc = pc].got = task[b].got
         /\ [task EXCEPT ![b].pc = pc] = [task EXCEPT ![b] = [task[b] EXCEPT !.pc = pc]]
<1>1. PICK x : x = task[b]
  OBVIOUS
<1>2. x \in Tasks
  BY <1>1, TaskTyped
<1> QED BY <1>1, <1>2 DEF Tasks, TaskRecord

LEMMA BackupFailsKeeps ==
  ASSUME BackupInv, NEW b \in Makers, BackupFails(b)
  PROVE  BackupInv'
<1>1. PICK t : t = [task[b] EXCEPT !.pc = "ended"]
  OBVIOUS
<1>2. t \in Tasks /\ t.pc = "ended" /\ task' = [task EXCEPT ![b] = t]
  BY <1>1, PcMoves DEF BackupFails
<1>3. task'[b] = t
  BY <1>2 DEF BackupInv, BackupTyped
<1>4. b \in Commands => CommandFits(b)'
  BY <1>2, <1>3 DEF BackupFails, BackupInv, CommandFits, Running
<1>5. b \in Backups => BackupFits(b)'
  BY <1>2, <1>3 DEF BackupFails, BackupInv, BackupTyped, BackupFits
<1>6. /\ archive' \in [Makers -> Archives \cup {NoArchive}]
      /\ meta' \in [Backups -> {"absent", "pending", "running", "completed", "failed"}]
      /\ \A c \in Backups \ {b} : meta'[c] = meta[c]
  BY DEF BackupFails, BackupInv, BackupTyped
<1> QED BY <1>2, <1>4, <1>5, <1>6, MakerMoves DEF BackupFails

LEMMA WriteArchiveKeeps ==
  ASSUME BackupInv, NEW b \in Makers, WriteArchive(b)
  PROVE  BackupInv'
<1> USE BackupAssumption
<1>1. /\ task[b].pc = "next" /\ task[b].todo = <<>> /\ task[b].got \in Archives
      /\ task[b].got # NoArchive
  BY TaskTyped DEF WriteArchive
<1>2. PICK pc \in {"finish", "ended"} : task' = [task EXCEPT ![b].pc = pc] /\ (b \in Commands => pc = "ended")
                                         /\ (pc = "finish" => archive'[b] = task[b].got)
  BY DEF WriteArchive, BackupInv, BackupTyped
<1>3. PICK t : t = [task[b] EXCEPT !.pc = pc]
  OBVIOUS
<1>4. t \in Tasks /\ t.pc = pc /\ task' = [task EXCEPT ![b] = t]
  BY <1>2, <1>3, PcMoves
<1>5. task'[b] = t
  BY <1>4 DEF BackupInv, BackupTyped
<1>6. /\ archive' \in [Makers -> Archives \cup {NoArchive}]
      /\ \A c \in Makers \ {b} : archive'[c] = archive[c]
      /\ archive'[b] = archive[b] \/ archive'[b] = task[b].got
      /\ b \in Commands => archive'[b] = task[b].got
  BY <1>1 DEF WriteArchive, BackupInv, BackupTyped
<1>7. b \in Commands => CommandFits(b)'
  <2> SUFFICES ASSUME b \in Commands PROVE CommandFits(b)'
    OBVIOUS
  <2>1. b \notin shrunk => CopiesDump(task[b])
    BY <1>1, TaskTyped DEF GoesOn, Running
  <2>2. b \notin shrunk => Covers(task[b].got)
    BY <1>1, <2>1 DEF CopiesDump, Dumped, Copying, Covers, Names, Parts
  <2>3. shrunk' = shrunk /\ archive'[b] = task[b].got /\ task'[b].pc = "ended"
    BY <1>2, <1>4, <1>5, <1>6 DEF WriteArchive
  <2> QED BY <2>2, <2>3 DEF CommandFits, Running, Covers, Names
<1>8. b \in Backups => BackupFits(b)'
  BY <1>1, <1>2, <1>4, <1>5, <1>6 DEF WriteArchive, BackupInv, BackupFits
<1>9. meta' \in [Backups -> {"absent", "pending", "running", "completed", "failed"}] /\ meta' = meta
  BY DEF WriteArchive, BackupInv, BackupTyped
<1> QED BY <1>4, <1>6, <1>7, <1>8, <1>9, MakerMoves DEF WriteArchive

LEMMA CommandsAreNoBackups == \A b \in Backups : b \in Makers /\ b \notin Commands
BY BackupAssumption DEF Makers

LEMMA BackupMoves ==
  ASSUME BackupInv, NEW b \in Backups, NEW t \in Tasks, task' = [task EXCEPT ![b] = t],
         NEW m \in {"absent", "pending", "running", "completed", "failed"}, meta' = [meta EXCEPT ![b] = m],
         m = "completed" \/ t.pc = "finish" => task[b].pc = "finish" \/ (m = meta[b] /\ t.pc # "finish"),
         UNCHANGED <<worldVars, archive, restore, shelf, shrunk, deleted, calm>>
  PROVE  BackupInv'
<1>1. meta'[b] = m /\ task'[b] = t /\ b \in Makers /\ b \notin Commands
  BY CommandsAreNoBackups DEF BackupInv, BackupTyped
<1>2. BackupFits(b)'
  BY <1>1 DEF BackupInv, BackupFits
<1>3. /\ archive' \in [Makers -> Archives \cup {NoArchive}]
      /\ meta' \in [Backups -> {"absent", "pending", "running", "completed", "failed"}]
      /\ \A c \in Backups \ {b} : meta'[c] = meta[c]
  BY DEF BackupInv, BackupTyped
<1> QED BY <1>1, <1>2, <1>3, MakerMoves

LEMMA JobStepKeeps ==
  ASSUME BackupInv, NEW b \in Backups,
         (\E s \in Selections : CreateBackup(b, s)) \/ StartBackup(b) \/ FinishBackup(b)
  PROVE  BackupInv'
<1>0. b \in Makers
  BY CommandsAreNoBackups
<1>1. CASE \E s \in Selections : CreateBackup(b, s)
  <2>1. PICK s \in Selections : CreateBackup(b, s)
    BY <1>1
  <2>2. s \in Seq(Parts) /\ NoParts \in Archives /\ {} \in Named
    BY BackupAssumption DEF NoParts, Archives, Parts, Kinds, Named
  <2>3. PICK t : t = [IdleTask EXCEPT !.pc = "begin", !.todo = s]
    OBVIOUS
  <2>4. t \in Tasks /\ t.pc = "begin"
    BY <2>2, <2>3 DEF IdleTask, Tasks, TaskRecord
  <2>5. task' = [task EXCEPT ![b] = t] /\ meta' = [meta EXCEPT ![b] = "pending"]
    BY <2>1, <2>3 DEF CreateBackup
  <2> QED BY <2>1, <2>4, <2>5, BackupMoves DEF CreateBackup
<1>2. CASE StartBackup(b)
  <2>1. PICK pc \in {"ended", "next"}, m \in {"absent", "running"} :
          task' = [task EXCEPT ![b].pc = pc] /\ meta' = [meta EXCEPT ![b] = m]
    BY <1>2 DEF StartBackup, BackupInv, BackupTyped
  <2>2. PICK t : t = [task[b] EXCEPT !.pc = pc]
    OBVIOUS
  <2>3. t \in Tasks /\ t.pc = pc /\ task' = [task EXCEPT ![b] = t]
    BY <1>0, <2>1, <2>2, PcMoves
  <2> QED BY <1>2, <2>1, <2>3, BackupMoves DEF StartBackup
<1>3. CASE FinishBackup(b)
  <2>1. PICK t : t = [task[b] EXCEPT !.pc = "ended"]
    OBVIOUS
  <2>2. t \in Tasks /\ t.pc = "ended" /\ task' = [task EXCEPT ![b] = t] /\ meta' = [meta EXCEPT ![b] = "completed"]
    BY <1>0, <1>3, <2>1, PcMoves DEF FinishBackup
  <2> QED BY <1>3, <2>2, BackupMoves DEF FinishBackup
<1> QED BY <1>1, <1>2, <1>3

LEMMA CliCreateKeeps ==
  ASSUME BackupInv, NEW b \in Commands, NEW skip \in SUBSET {"db", "artifacts"}, CliCreate(b, skip)
  PROVE  BackupInv'
<1>1. b \in Makers /\ b \notin Backups
  BY BackupAssumption DEF Makers
<1>2. CliParts(Parts \ skip) \in Seq(Parts) /\ DbFirst(CliParts(Parts \ skip))
  BY CommandOrder
<1>3. NoParts \in Archives /\ {} \in Named /\ \A k \in Parts : NoParts[k] = NoArchive
  BY DEF NoParts, Archives, Parts, Kinds, Named
<1>4. PICK t : t = [IdleTask EXCEPT !.pc = "next", !.todo = CliParts(Parts \ skip)]
  OBVIOUS
<1>5. t \in Tasks /\ t.pc = "next" /\ t.todo = CliParts(Parts \ skip) /\ t.got = NoParts
  BY <1>2, <1>3, <1>4 DEF IdleTask, Tasks, TaskRecord
<1>6. task' = [task EXCEPT ![b] = t] /\ task[b].pc = "off"
  BY <1>4 DEF CliCreate
<1>7. task'[b] = t
  BY <1>1, <1>6 DEF BackupInv, BackupTyped
<1>8. InOrder(t) /\ CopiesDump(t) /\ ~Dumped(t)
  BY <1>2, <1>3, <1>5 DEF InOrder, CopiesDump, Dumped, Parts
<1>9. shrunk \subseteq shrunk' /\ (b \notin shrunk' => StillThere(t))
  BY <1>8 DEF CliCreate, StillThere
<1>10. StillThere(t)' <=> StillThere(t)
  BY DEF StillThere, CliCreate, worldVars
<1>11. archive[b] = NoArchive /\ archive' = archive
  BY <1>6 DEF CliCreate, BackupInv, CommandFits
<1>12. CommandFits(b)'
  BY <1>7, <1>8, <1>9, <1>10, <1>11 DEF CommandFits
<1>13. /\ archive' \in [Makers -> Archives \cup {NoArchive}]
       /\ meta' \in [Backups -> {"absent", "pending", "running", "completed", "failed"}]
  BY DEF CliCreate, BackupInv, BackupTyped
<1> QED BY <1>1, <1>5, <1>6, <1>9, <1>12, <1>13, MakerMoves DEF CliCreate

LEMMA DeleteKeeps ==
  ASSUME BackupInv, NEW b \in Backups, DeleteBackup(b)
  PROVE  BackupInv'
<1>1. b \in Makers /\ b \notin Commands
  BY CommandsAreNoBackups
<1>2. /\ meta' = [meta EXCEPT ![b] = "absent"] /\ archive' = [archive EXCEPT ![b] = NoArchive]
      /\ UNCHANGED <<worldVars, task, restore, shelf, shrunk, calm>>
      /\ deleted \subseteq deleted' /\ (Running(b) => b \in deleted')
  BY DEF DeleteBackup
<1>3. BackupTyped'
  BY <1>1, <1>2 DEF BackupInv, BackupTyped, worldVars
<1>4. \A c \in Commands : CommandFits(c)'
  <2> TAKE c \in Commands
  <2>1. archive'[c] = archive[c] /\ Keeps
    BY <1>1, <1>2 DEF BackupInv, BackupTyped, Makers, Keeps, worldVars
  <2> QED BY <1>2, <2>1, CommandStays
<1>5. \A c \in Backups : BackupFits(c)'
  <2> TAKE c \in Backups
  <2>1. c \in Makers /\ BackupFits(c) /\ task'[c] = task[c]
    BY <1>2 DEF BackupInv, Makers
  <2>2. CASE c = b
    BY <1>2, <2>1, <2>2 DEF BackupFits, Running, BackupInv, BackupTyped
  <2>3. CASE c # b
    BY <1>2, <2>1, <2>3 DEF BackupFits, BackupInv, BackupTyped
  <2> QED BY <2>2, <2>3
<1>6. \A r \in calm' : r \in Restorers /\ RestoreFits(r)'
  BY <1>2, RestoreStays DEF BackupInv, worldVars
<1> QED BY <1>3, <1>4, <1>5, <1>6 DEF BackupInv

LEMMA DownloadKeeps ==
  ASSUME BackupInv, NEW b \in Makers, Download(b)
  PROVE  BackupInv'
<1>1. /\ UNCHANGED <<worldVars, meta, archive, task, restore, shrunk, deleted, calm>>
      /\ shelf' = shelf \cup {archive[b]} /\ archive[b] # NoArchive
  BY DEF Download
<1>2. shelf' \subseteq Archives
  BY <1>1 DEF BackupInv, BackupTyped
<1>3. \A c \in Commands : CommandFits(c)'
  BY <1>1, CommandStays DEF Keeps, worldVars
<1>4. \A r \in calm' : r \in Restorers /\ RestoreFits(r)'
  BY <1>1, RestoreStays DEF BackupInv, worldVars
<1> QED BY <1>1, <1>2, <1>3, <1>4 DEF BackupInv, BackupTyped, BackupFits, worldVars

(***************************************************************************)
(* Steps of the restores: the tasks, and what they made, stay.             *)
(***************************************************************************)
LEMMA RestorerMoves ==
  ASSUME BackupInv, NEW r \in Restorers, NEW x \in Restores, restore' = [restore EXCEPT ![r] = x],
         UNCHANGED <<meta, archive, task, shelf, deleted>>,
         rows' \in [Kinds -> Named], files' \in [Kinds -> Named], shrunk \subseteq shrunk',
         UNCHANGED worldVars \/ (\A b \in Makers : Running(b) => b \in shrunk') \/ Keeps,
         \A q \in calm' : q = r \/ q \in calm, (\E q \in calm' : q # r) => UNCHANGED worldVars,
         r \in calm' => RestoreFits(r)'
  PROVE  BackupInv'
<1>1. BackupTyped'
  BY DEF BackupInv, BackupTyped
<1>2. \A c \in Commands : CommandFits(c)'
  <2> TAKE c \in Commands
  <2>1. Running(c) /\ c \notin shrunk' => Keeps
    BY DEF Makers, Keeps, worldVars
  <2> QED BY <2>1, CommandStays
<1>3. \A c \in Backups : BackupFits(c)'
  BY DEF BackupInv, BackupFits
<1>4. \A q \in calm' : q \in Restorers /\ RestoreFits(q)'
  <2> TAKE q \in calm'
  <2>1. CASE q = r
    BY <2>1
  <2>2. CASE q # r
    <3>1. q \in calm /\ q \in Restorers /\ RestoreFits(q) /\ UNCHANGED worldVars
      BY <2>2 DEF BackupInv
    <3>2. restore'[q] = restore[q]
      BY <2>2, <3>1 DEF BackupInv, BackupTyped
    <3> QED BY <3>1, <3>2, RestoreStays
  <2> QED BY <2>1, <2>2
<1> QED BY <1>1, <1>2, <1>3, <1>4 DEF BackupInv

LEMMA RestoreTyped ==
  ASSUME BackupInv, NEW r \in Restorers
  PROVE  /\ restore[r] \in Restores /\ restore[r] \in RestoreRecord
         /\ (restore[r].pc # "off" => restore[r].from \in Archives) /\ restore[r].todo \in Seq(Parts)
         /\ rows \in [Kinds -> Named] /\ files \in [Kinds -> Named]
         /\ r \in calm => RestoreFits(r)
BY DEF BackupInv, BackupTyped, Restores, RestoreRecord

LEMMA OpenRestoreKeeps ==
  ASSUME BackupInv, NEW r \in Restorers, NEW a \in shelf, NEW parts \in Selections, NEW cli \in BOOLEAN,
         OpenRestore(r, a, parts, cli)
  PROVE  BackupInv'
<1>1. a \in Archives /\ parts \in Seq(Parts) /\ Elements(parts) \in SUBSET Parts /\ Names(a) \in SUBSET Parts
  <2>1. parts \in Seq(Parts) /\ \A i \in DOMAIN parts : parts[i] \in Parts
    BY BackupAssumption, LenProperties, ElementOfSeq
  <2> QED BY <2>1 DEF BackupInv, BackupTyped, Elements, Names
<1>2. CliParts(Names(a)) \in Seq(Parts) /\ Elements(CliParts(Names(a))) = Names(a)
  BY <1>1, CommandOrder
<1>3. PICK x : x = [pc |-> "next", cli |-> cli, from |-> a, left |-> {}, asked |-> IF cli THEN Names(a) ELSE Elements(parts),
                    todo |-> IF cli THEN CliParts(Names(a)) ELSE parts]
  OBVIOUS
<1>4. x \in Restores /\ x.pc = "next" /\ x.asked = Elements(x.todo)
  BY <1>1, <1>2, <1>3 DEF Restores, RestoreRecord, Named
<1>5. restore' = [restore EXCEPT ![r] = x] /\ UNCHANGED worldVars
  BY <1>3 DEF OpenRestore
<1>6. restore'[r] = x
  BY <1>5 DEF BackupInv, BackupTyped
<1>7. RestoreFits(r)'
  BY <1>4, <1>6 DEF RestoreFits, Restored
<1>8. rows' \in [Kinds -> Named] /\ files' \in [Kinds -> Named]
  BY <1>5, RestoreTyped DEF worldVars
<1>9. \A q \in calm' : q = r \/ q \in calm
  BY DEF OpenRestore
<1> QED BY <1>4, <1>5, <1>7, <1>8, <1>9, RestorerMoves DEF OpenRestore

LEMMA RestoreDbKeeps ==
  ASSUME BackupInv, NEW r \in Restorers, RestoreDb(r)
  PROVE  BackupInv'
<1>1. PICK x : x = restore[r]
  OBVIOUS
<1>2. /\ x \in RestoreRecord /\ x.pc = "next" /\ x.todo \in Seq(Parts) /\ x.todo # <<>> /\ Head(x.todo) = "db"
      /\ x.from["db"] # NoArchive /\ rows' = x.from["db"] /\ files' = files
  BY <1>1, RestoreTyped DEF RestoreDb, AtPart, Part, Refuses
<1>3. /\ Tail(x.todo) \in Seq(Parts)
      /\ \A e \in Elements(x.todo) : e = "db" \/ e \in Elements(Tail(x.todo))
  BY <1>2, HeadAndTail
<1>4. PICK y : y = [x EXCEPT !.todo = Tail(x.todo)]
  OBVIOUS
<1>5. /\ y \in Restores /\ y.pc = "next" /\ y.todo = Tail(x.todo) /\ y.from = x.from /\ y.asked = x.asked
  BY <1>1, <1>2, <1>3, <1>4, RestoreTyped DEF Restores, RestoreRecord
<1>6. restore' = [restore EXCEPT ![r] = y]
  BY <1>1, <1>4 DEF RestoreDb
<1>7. restore'[r] = y
  BY <1>6 DEF BackupInv, BackupTyped
<1>8. calm' = calm \cap {r} /\ shrunk' = shrunk \cup {b \in Makers : Running(b)}
  BY DEF RestoreDb, Disturbs
<1>9. r \in calm' => RestoreFits(r)'
  <2> SUFFICES ASSUME r \in calm PROVE RestoreFits(r)'
    BY <1>8
  <2>1. \A k \in Kinds \cap Restored(x) : x.from[k] \subseteq files[k]
    BY <1>1, <1>2, RestoreTyped DEF RestoreFits
  <2>2. \A k \in Kinds \cap Restored(y) : k \in Restored(x)
    BY <1>3, <1>5 DEF Restored, Kinds
  <2> QED BY <1>2, <1>5, <1>7, <2>1, <2>2 DEF RestoreFits
<1>10. rows' \in [Kinds -> Named] /\ files' \in [Kinds -> Named]
  <2>1. x.from \in Archives
    BY <1>1, <1>2, RestoreTyped
  <2> QED BY <1>2, <2>1, RestoreTyped DEF Archives
<1> QED BY <1>5, <1>6, <1>8, <1>9, <1>10, RestorerMoves DEF RestoreDb

LEMMA OpenFilesKeeps ==
  ASSUME BackupInv, NEW r \in Restorers, OpenFiles(r)
  PROVE  BackupInv'
<1>1. PICK x : x = restore[r]
  OBVIOUS
<1>2. PICK k : k = Head(x.todo)
  OBVIOUS
<1>3. /\ x \in RestoreRecord /\ x.pc = "next" /\ x.todo \in Seq(Parts) /\ x.todo # <<>> /\ k \in Kinds
      /\ x.from[k] # NoArchive /\ x.from \in Archives /\ rows' = rows
  BY <1>1, <1>2, RestoreTyped DEF OpenFiles, AtPart, Part, Refuses
<1>4. x.from[k] \in Named
  BY <1>3 DEF Archives
<1>5. PICK y : y = [x EXCEPT !.pc = "copy", !.left = x.from[k]]
  OBVIOUS
<1>6. /\ y \in Restores /\ y.pc = "copy" /\ y.todo = x.todo /\ y.from = x.from /\ y.asked = x.asked
      /\ y.left = x.from[k]
  BY <1>2, <1>3, <1>4, <1>5 DEF Restores, RestoreRecord, AtFiles
<1>7. restore' = [restore EXCEPT ![r] = y]
  BY <1>1, <1>2, <1>5 DEF OpenFiles, Part
<1>8. restore'[r] = y
  BY <1>7 DEF BackupInv, BackupTyped
<1>9. calm' = calm \cap {r} /\ shrunk' = shrunk \cup {b \in Makers : Running(b)}
  BY DEF OpenFiles, Disturbs
<1>10. /\ files' \in [Kinds -> Named] /\ \A m \in Kinds \ {k} : files'[m] = files[m]
  <2>1. files' = files \/ files' = [files EXCEPT ![k] = {}]
    BY <1>1, <1>2 DEF OpenFiles, Part
  <2> QED BY <1>3, <2>1, RestoreTyped DEF Named
<1>11. r \in calm' => RestoreFits(r)'
  <2> SUFFICES ASSUME r \in calm PROVE RestoreFits(r)'
    BY <1>9
  <2>1. /\ "db" \in Restored(x) => rows = x.from["db"]
        /\ \A m \in Kinds \cap Restored(x) : x.from[m] \subseteq files[m]
    BY <1>1, <1>3, RestoreTyped DEF RestoreFits
  <2>2. Restored(y) = Restored(x) /\ k \notin Restored(x)
    BY <1>2, <1>3, <1>6, HeadAndTail DEF Restored
  <2>3. Head(y.todo) = k
    BY <1>2, <1>6
  <2> QED BY <1>3, <1>6, <1>8, <1>10, <2>1, <2>2, <2>3 DEF RestoreFits
<1>12. rows' \in [Kinds -> Named]
  BY <1>3, RestoreTyped
<1> QED BY <1>6, <1>7, <1>9, <1>10, <1>11, <1>12, RestorerMoves DEF OpenFiles

LEMMA RestoreItemKeeps ==
  ASSUME BackupInv, NEW r \in Restorers, NEW i \in Items, RestoreItem(r, i)
  PROVE  BackupInv'
<1>1. PICK x : x = restore[r]
  OBVIOUS
<1>2. PICK k : k = Head(x.todo)
  OBVIOUS
<1>3. /\ x \in Restores /\ x \in RestoreRecord /\ x.pc = "copy" /\ x.todo \in Seq(Parts) /\ x.todo # <<>>
      /\ rows' = rows /\ i \in x.left
  BY <1>1, RestoreTyped DEF RestoreItem, AtPart
<1>4. PICK y : y = [x EXCEPT !.left = @ \ {i}]
  OBVIOUS
<1>5. /\ y.pc = "copy" /\ y.todo = x.todo /\ y.from = x.from /\ y.asked = x.asked
      /\ y.left = x.left \ {i} /\ y \in Restores
  BY <1>3, <1>4 DEF Restores, RestoreRecord, AtFiles, Named
<1>6. restore' = [restore EXCEPT ![r] = y]
  BY <1>1, <1>4 DEF RestoreItem
<1>7. restore'[r] = y
  BY <1>6 DEF BackupInv, BackupTyped
<1>8. calm' = calm \cap {r} /\ shrunk' = shrunk /\ files' = [files EXCEPT ![k] = @ \cup {i}] /\ k \in Kinds
  BY <1>1, <1>2, <1>3 DEF RestoreItem, Disturbs, Part, Restores, AtFiles
<1>9. files' \in [Kinds -> Named] /\ files'[k] = files[k] \cup {i} /\ (\A m \in Kinds : files[m] \subseteq files'[m])
  BY <1>8, RestoreTyped DEF Named
<1>10. r \in calm' => RestoreFits(r)'
  <2> SUFFICES ASSUME r \in calm PROVE RestoreFits(r)'
    BY <1>8
  <2>1. /\ "db" \in Restored(x) => rows = x.from["db"]
        /\ \A m \in Kinds \cap Restored(x) : x.from[m] \subseteq files[m]
        /\ x.from[k] \subseteq files[k] \cup x.left
    BY <1>1, <1>2, <1>3, RestoreTyped DEF RestoreFits
  <2>2. Restored(y) = Restored(x)
    BY <1>5 DEF Restored
  <2>3. Head(y.todo) = k /\ x.from[k] \subseteq files'[k] \cup y.left
    BY <1>2, <1>5, <1>9, <2>1
  <2> QED BY <1>3, <1>5, <1>7, <1>9, <2>1, <2>2, <2>3 DEF RestoreFits
<1>11. rows' \in [Kinds -> Named] /\ Keeps
  BY <1>3, <1>9, RestoreTyped DEF Keeps
<1> QED BY <1>5, <1>6, <1>8, <1>9, <1>10, <1>11, RestorerMoves DEF RestoreItem

LEMMA CloseFilesKeeps ==
  ASSUME BackupInv, NEW r \in Restorers, CloseFiles(r)
  PROVE  BackupInv'
<1>1. PICK x : x = restore[r]
  OBVIOUS
<1>2. /\ x \in Restores /\ x \in RestoreRecord /\ x.pc = "copy" /\ x.todo \in Seq(Parts) /\ x.todo # <<>>
      /\ x.left = {} /\ Head(x.todo) \in Kinds
  BY <1>1, RestoreTyped DEF CloseFiles, AtPart, Restores, AtFiles
<1>3. /\ Tail(x.todo) \in Seq(Parts)
      /\ \A e \in Elements(x.todo) : e = Head(x.todo) \/ e \in Elements(Tail(x.todo))
  BY <1>2, HeadAndTail
<1>4. PICK y : y = [x EXCEPT !.pc = "next", !.todo = Tail(x.todo)]
  OBVIOUS
<1>5. /\ y \in Restores /\ y.pc = "next" /\ y.todo = Tail(x.todo) /\ y.from = x.from /\ y.asked = x.asked
  BY <1>2, <1>3, <1>4 DEF Restores, RestoreRecord
<1>6. restore' = [restore EXCEPT ![r] = y] /\ UNCHANGED worldVars
  BY <1>1, <1>4 DEF CloseFiles
<1>7. restore'[r] = y
  BY <1>6 DEF BackupInv, BackupTyped
<1>8. r \in calm' => RestoreFits(r)'
  <2> SUFFICES ASSUME r \in calm PROVE RestoreFits(r)'
    BY DEF CloseFiles
  <2>1. /\ "db" \in Restored(x) => rows = x.from["db"]
        /\ \A m \in Kinds \cap Restored(x) : x.from[m] \subseteq files[m]
        /\ x.from[Head(x.todo)] \subseteq files[Head(x.todo)]
    BY <1>1, <1>2, RestoreTyped DEF RestoreFits
  <2>2. \A k \in Restored(y) : k \in Restored(x) \/ (k = Head(x.todo) /\ k \in Kinds)
    BY <1>2, <1>3, <1>5 DEF Restored
  <2>3. "db" \notin Kinds
    BY DEF Kinds
  <2>4. \A k \in Kinds \cap Restored(y) : y.from[k] \subseteq files[k]
    BY <1>5, <2>1, <2>2
  <2>5. "db" \in Restored(y) => rows = y.from["db"]
    BY <1>5, <2>1, <2>2, <2>3
  <2> QED BY <1>5, <1>6, <1>7, <2>4, <2>5 DEF RestoreFits, worldVars
<1>9. rows' \in [Kinds -> Named] /\ files' \in [Kinds -> Named]
  BY <1>6, RestoreTyped DEF worldVars
<1> QED BY <1>5, <1>6, <1>8, <1>9, RestorerMoves DEF CloseFiles

LEMMA RestoreStops ==
  ASSUME BackupInv, NEW r \in Restorers, RestoreFails(r) \/ RestoreEnds(r)
  PROVE  BackupInv'
<1>1. PICK x : x = restore[r]
  OBVIOUS
<1>2. x \in Restores /\ x.pc \in {"next", "copy"} /\ (RestoreEnds(r) => x.pc = "next" /\ x.todo = <<>>)
  BY <1>1, RestoreTyped DEF RestoreFails, RestoreEnds, AtPart
<1>3. PICK pc \in {"failed", "exits", "done"} :
        restore' = [restore EXCEPT ![r].pc = pc] /\ (pc # "failed" => RestoreEnds(r))
  BY DEF RestoreFails, RestoreEnds
<1>4. PICK y : y = [x EXCEPT !.pc = pc]
  OBVIOUS
<1>5. /\ y \in Restores /\ y.pc = pc /\ y.todo = x.todo /\ y.from = x.from /\ y.asked = x.asked
  BY <1>2, <1>4 DEF Restores, RestoreRecord
<1>6. restore' = [restore EXCEPT ![r] = y]
  BY <1>1, <1>3, <1>4
<1>7. restore'[r] = y
  BY <1>6 DEF BackupInv, BackupTyped
<1>8. UNCHANGED <<worldVars, meta, archive, task, shelf, shrunk, deleted, calm>>
  BY DEF RestoreFails, RestoreEnds
<1>9. r \in calm' => RestoreFits(r)'
  <2> SUFFICES ASSUME r \in calm, pc # "failed" PROVE RestoreFits(r)'
    BY <1>5, <1>7, <1>8 DEF RestoreFits
  <2>1. /\ "db" \in Restored(x) => rows = x.from["db"]
        /\ \A m \in Kinds \cap Restored(x) : x.from[m] \subseteq files[m]
    BY <1>1, <1>2, RestoreTyped DEF RestoreFits
  <2>2. Restored(y) = Restored(x) /\ y.todo = <<>> /\ y.pc \in {"exits", "done"}
    BY <1>2, <1>3, <1>5 DEF Restored
  <2> QED BY <1>5, <1>7, <1>8, <2>1, <2>2 DEF RestoreFits, worldVars
<1>10. rows' \in [Kinds -> Named] /\ files' \in [Kinds -> Named]
  BY <1>8, RestoreTyped DEF worldVars
<1> QED BY <1>5, <1>6, <1>8, <1>9, <1>10, RestorerMoves

(* The API restarts: its jobs end, and its restores fail or are over.       *)
LEMMA RestartKeeps ==
  ASSUME BackupInv, Restart
  PROVE  BackupInv'
<1>1. UNCHANGED <<worldVars, meta, archive, shelf, shrunk, deleted, calm>>
  BY DEF Restart
<1>2. \A b \in Makers : /\ task'[b] \in Tasks /\ (b \in Commands => task'[b] = task[b])
                        /\ task'[b].pc = "finish" => task[b].pc = "finish"
  <2> TAKE b \in Makers
  <2>1. PICK z : z = [task[b] EXCEPT !.pc = "ended"]
    OBVIOUS
  <2>2. z \in Tasks /\ z.pc = "ended"
    BY <2>1, PcMoves
  <2>3. task'[b] = IF b \in Backups /\ Running(b) THEN z ELSE task[b]
    BY <2>1 DEF Restart
  <2> QED BY <2>2, <2>3, TaskTyped, CommandsAreNoBackups
<1>3. \A r \in Restorers : /\ restore'[r] \in Restores
                           /\ r \in calm => RestoreFits(r)'
  <2> TAKE r \in Restorers
  <2>1. PICK x : x = restore[r]
    OBVIOUS
  <2>2. PICK pc \in {"done", "failed", x.pc} : restore'[r] = [x EXCEPT !.pc = pc] /\ (pc = "done" => x.pc \in {"exits", "done"})
                                             /\ (pc # "off" => x.pc # "off")
    <3>1. x = [x EXCEPT !.pc = x.pc]
      BY <2>1, RestoreTyped DEF RestoreRecord
    <3>2. restore'[r] = IF x.pc = "exits" THEN [x EXCEPT !.pc = "done"]
                        ELSE IF Restoring(r) /\ ~x.cli THEN [x EXCEPT !.pc = "failed"] ELSE x
      BY <2>1 DEF Restart
    <3> QED BY <2>1, <3>1, <3>2 DEF Restoring
  <2>3. PICK y : y = [x EXCEPT !.pc = pc]
    OBVIOUS
  <2>4. /\ y \in Restores /\ y.pc = pc /\ y.todo = x.todo /\ y.from = x.from /\ y.asked = x.asked /\ y.left = x.left
    <3>1. x \in Restores /\ x \in RestoreRecord
      BY <2>1, RestoreTyped
    <3>2. pc \in {"off", "next", "copy", "exits", "done", "failed"}
      BY <3>1 DEF RestoreRecord
    <3>3. /\ y \in RestoreRecord /\ y.pc = pc /\ y.todo = x.todo /\ y.from = x.from
          /\ y.asked = x.asked /\ y.left = x.left
      BY <2>3, <3>1, <3>2 DEF RestoreRecord
    <3>4. pc # "off" => x.from \in Archives
      BY <2>1, <2>2, <3>1, RestoreTyped
    <3> QED BY <2>2, <3>1, <3>3, <3>4 DEF Restores, AtFiles
  <2>5. ASSUME r \in calm, pc # "failed" PROVE RestoreFits(r)'
    <3>1. RestoreFits(r)
      BY <2>5, RestoreTyped
    <3>2. Restored(y) = Restored(x)
      BY <2>4 DEF Restored
    <3>3. restore'[r] = y /\ rows' = rows /\ files' = files
      BY <1>1, <2>2, <2>3 DEF worldVars
    <3>4. /\ y.pc \in {"next", "copy", "exits", "done"} => x.pc \in {"next", "copy", "exits", "done"}
          /\ y.pc = "copy" => x.pc = "copy"
          /\ y.pc \in {"exits", "done"} => x.pc \in {"exits", "done"}
      BY <2>2, <2>4, <2>5
    <3> QED BY <2>1, <2>4, <3>1, <3>2, <3>3, <3>4 DEF RestoreFits
  <2>6. pc = "failed" => RestoreFits(r)'
    BY <2>2, <2>3, <2>4 DEF RestoreFits
  <2> QED BY <2>2, <2>3, <2>4, <2>5, <2>6
<1>4. BackupTyped'
  <2>1. task' \in [Makers -> Tasks] /\ restore' \in [Restorers -> Restores]
    BY <1>2, <1>3 DEF Restart
  <2> QED BY <1>1, <2>1 DEF BackupInv, BackupTyped, worldVars
<1>5. \A c \in Commands : CommandFits(c)'
  BY <1>1, <1>2, CommandStays DEF Keeps, worldVars, Makers
<1>6. \A c \in Backups : BackupFits(c)'
  BY <1>1, <1>2, CommandsAreNoBackups DEF BackupInv, BackupFits
<1> QED BY <1>1, <1>3, <1>4, <1>5, <1>6 DEF BackupInv

LEMMA BackupStep == BackupInv /\ [BackupNext]_backupVars => BackupInv'
<1> SUFFICES ASSUME BackupInv, [BackupNext]_backupVars PROVE BackupInv'
  OBVIOUS
<1>1. ASSUME NEW k \in Kinds, NEW x \in Items, Change(k, x) PROVE BackupInv'
  BY <1>1, ChangeKeeps
<1>2. ASSUME NEW b \in Backups,
             (\E s \in Selections : CreateBackup(b, s)) \/ StartBackup(b) \/ FinishBackup(b) PROVE BackupInv'
  BY <1>2, JobStepKeeps
<1>3. ASSUME NEW b \in Backups, DeleteBackup(b) PROVE BackupInv'
  BY <1>3, DeleteKeeps
<1>4. ASSUME NEW b \in Commands, NEW skip \in SUBSET {"db", "artifacts"}, CliCreate(b, skip) PROVE BackupInv'
  BY <1>4, CliCreateKeeps
<1>5. ASSUME NEW b \in Makers, DumpDb(b) \/ OpenCopy(b) \/ CloseCopy(b) PROVE BackupInv'
  BY <1>5, DumpDbKeeps, OpenCopyKeeps, CloseCopyKeeps
<1>6. ASSUME NEW b \in Makers, NEW x \in Items, CopyItem(b, x) PROVE BackupInv'
  BY <1>6, CopyItemKeeps
<1>7. ASSUME NEW b \in Makers, BackupFails(b) \/ WriteArchive(b) \/ Download(b) PROVE BackupInv'
  BY <1>7, BackupFailsKeeps, WriteArchiveKeeps, DownloadKeeps
<1>8. CASE Restart
  BY <1>8, RestartKeeps
<1>9. ASSUME NEW r \in Restorers, NEW a \in shelf, NEW s \in Selections, NEW cli \in BOOLEAN,
             OpenRestore(r, a, s, cli) PROVE BackupInv'
  BY <1>9, OpenRestoreKeeps
<1>10. ASSUME NEW r \in Restorers, RestoreDb(r) \/ OpenFiles(r) \/ CloseFiles(r) PROVE BackupInv'
  BY <1>10, RestoreDbKeeps, OpenFilesKeeps, CloseFilesKeeps
<1>11. ASSUME NEW r \in Restorers, RestoreFails(r) \/ RestoreEnds(r) PROVE BackupInv'
  BY <1>11, RestoreStops
<1>12. ASSUME NEW r \in Restorers, NEW x \in Items, RestoreItem(r, x) PROVE BackupInv'
  BY <1>12, RestoreItemKeeps
<1>13. CASE UNCHANGED backupVars
  <2>1. UNCHANGED <<worldVars, meta, archive, task, restore, shelf, shrunk, deleted, calm>>
    BY <1>13 DEF backupVars, worldVars
  <2>2. \A c \in Commands : CommandFits(c)'
    BY <2>1, CommandStays DEF Keeps, worldVars
  <2>3. \A r \in calm' : r \in Restorers /\ RestoreFits(r)'
    BY <2>1, RestoreStays DEF BackupInv, worldVars
  <2> QED BY <2>1, <2>2, <2>3 DEF BackupInv, BackupTyped, BackupFits, worldVars
<1> QED
  BY <1>1, <1>2, <1>3, <1>4, <1>5, <1>6, <1>7, <1>8, <1>9, <1>10, <1>11, <1>12, <1>13 DEF BackupNext

LEMMA BackupImplies == BackupInv => BackupSound
<1> SUFFICES ASSUME BackupInv PROVE BackupSound
  OBVIOUS
<1>1. DumpIsCovered
  BY DEF BackupInv, CommandFits, DumpIsCovered
<1>2. CompletedIsThere
  BY DEF BackupInv, BackupFits, CompletedIsThere
<1>3. RestoredIsCovered
  <2> SUFFICES ASSUME NEW r \in calm, NEW x, x = restore[r], x.pc \in {"exits", "done"}, x.from["db"] # NoArchive,
                      Covers(x.from), Names(x.from) \subseteq x.asked, NEW k \in Kinds \cap Names(x.from)
               PROVE  rows[k] \subseteq files[k]
    BY DEF RestoredIsCovered
  <2>1. RestoreFits(r) /\ x.todo = <<>>
    BY DEF BackupInv, RestoreFits
  <2>2. Restored(x) = x.asked /\ "db" \in Names(x.from)
    BY <2>1, NothingLeft DEF Restored, Names, Parts
  <2>3. rows = x.from["db"] /\ x.from[k] \subseteq files[k]
    BY <2>1, <2>2 DEF RestoreFits
  <2>4. x.from["db"][k] \subseteq x.from[k]
    BY DEF Covers
  <2> QED BY <2>3, <2>4
<1> QED BY <1>1, <1>2, <1>3 DEF BackupSound

(* A dump the command made is in its archive with all it names unless       *)
(* something was removed meanwhile; a completed backup can be fetched; and  *)
(* a restore nobody disturbs leaves no row without its item (backup.rs,     *)
(* backup/src/main.rs).                                                     *)
THEOREM BackupsAreSound == BackupSpec => []BackupSound
<1>1. BackupInit => BackupInv
  BY BackupInitially
<1>2. BackupInv /\ [BackupNext]_backupVars => BackupInv'
  BY BackupStep
<1> QED BY <1>1, <1>2, BackupImplies, PTL DEF BackupSpec

-----------------------------------------------------------------------------
(***************************************************************************)
(* Types: the rows and requests of each service keep theirs, among them    *)
(* the custom roles of members, the counts of an import and the commits    *)
(* the search index names.                                                 *)
(***************************************************************************)
LEMMA BackupFitsType == BackupInv => BackupTypeOK
BY DEF BackupInv, BackupTyped, BackupTypeOK, Tasks, TaskRecord, Restores, RestoreRecord, Named

LEMMA JobFitsType == JobInv => JobTypeOK
BY DEF JobInv

LEMMA AccountsFitType == AccountsInv => AccountsTypeOK
BY DEF AccountsInv, AccountsTyped, AccountsTypeOK, RowsFit

LEMMA KubeFitsType == KubeInv => KubeTypeOK
<1> SUFFICES ASSUME KubeInv PROVE KubeTypeOK
  OBVIOUS
<1>1. \A j \in CiJobs : ciRow[j] \in CiRows
  BY DEF KubeInv, Tables
<1>2. \A m \in Managers : mgr[m] \in TaskRows
  BY DEF KubeInv, Tables
<1>3. \A j \in CiJobs : ciRow[j].status \in Over \cup {"queued", "running"} /\ ciRow[j].attempt <= MaxAttempts
  BY <1>1, KubeAssumption DEF CiRows
<1>4. \A m \in Managers : mgr[m].job \in CiJobs \cup {NoJob}
  BY <1>2 DEF TaskRows
<1> QED BY <1>3, <1>4 DEF KubeInv, Tables, KubeTypeOK, Fits, In

(* The index and its row name commits that were pushed, one of a repository. *)
IndexNames ==
  \A r \in IndexRepos : /\ docs[r] = {} \/ \E j \in IxIds : docs[r] = {j}
                        /\ ixMeta[r] \in 0..Len(ixJob)

LEMMA IndexNamesInitially == SearchInit => IndexNames
BY DEF SearchInit, IndexNames

LEMMA PushesGrow ==
  ASSUME SearchInv, [SearchNext]_searchVars
  PROVE  IxIds \subseteq IxIds' /\ Len(ixJob) \in Nat /\ Len(ixJob)' \in Nat /\ Len(ixJob) <= Len(ixJob)'
<1>1. ixJob \in Seq(IndexJob) /\ Len(ixJob) \in Nat
  BY DEF SearchInv, SearchTyped
<1>2. \/ ixJob' = ixJob
      \/ \E r \in IndexRepos : ixJob' = Append(ixJob, [repo |-> r, state |-> "pending"])
      \/ \E w \in Indexers, s \in {"indexed", "failed"} : ixJob' = [ixJob EXCEPT ![Current(w)].state = s]
  <2>1. ASSUME NEW w \in Indexers, MarkProcessed(w)
        PROVE  ixJob' = ixJob \/ \E s \in {"indexed", "failed"} : ixJob' = [ixJob EXCEPT ![Current(w)].state = s]
    <3>1. PICK s : s = IF OnStep(w, "mark") THEN "indexed" ELSE "failed"
      OBVIOUS
    <3> QED BY <2>1, <3>1 DEF MarkProcessed
  <2> QED BY <2>1 DEF SearchNext, searchVars, Enqueue, Index, PickJobs, OpenWriter, CommitDocs, WriteIndexMeta,
           IndexerRestarts
<1>4. ASSUME NEW r \in IndexRepos, ixJob' = Append(ixJob, [repo |-> r, state |-> "pending"])
      PROVE  Len(ixJob)' = Len(ixJob) + 1
  <2>1. [repo |-> r, state |-> "pending"] \in IndexJob
    BY DEF IndexJob
  <2> QED BY <1>1, <1>4, <2>1
<1>5. ASSUME NEW w \in Indexers, NEW s \in {"indexed", "failed"}, ixJob' = [ixJob EXCEPT ![Current(w)].state = s]
      PROVE  Len(ixJob)' = Len(ixJob)
  BY <1>1, <1>5
<1>6. Len(ixJob)' = Len(ixJob) \/ Len(ixJob)' = Len(ixJob) + 1
  BY <1>2, <1>4, <1>5
<1> QED BY <1>1, <1>6 DEF IxIds

LEMMA IndexNamesStep == SearchInv /\ IndexNames /\ [SearchNext]_searchVars => IndexNames'
<1> SUFFICES ASSUME SearchInv, IndexNames, [SearchNext]_searchVars, NEW r \in IndexRepos
             PROVE  /\ docs'[r] = {} \/ \E j \in IxIds' : docs'[r] = {j}
                    /\ ixMeta'[r] \in 0..Len(ixJob)'
  BY DEF IndexNames
<1>1. \A w \in Indexers : ~OnStep(w, "poll") => Current(w) \in IxIds
  BY CurrentIsLeast DEF SearchInv
<1>2. docs \in [IndexRepos -> SUBSET Nat] /\ ixMeta \in [IndexRepos -> Nat]
  BY DEF SearchInv, SearchTyped
<1>3. docs'[r] = docs[r] \/ \E j \in IxIds : docs'[r] = {j}
  <2>1. docs' = docs \/ \E w \in Indexers : ~OnStep(w, "poll") /\ docs' = [docs EXCEPT ![ixJob[Current(w)].repo] = {Current(w)}]
    BY DEF SearchNext, searchVars, Enqueue, Index, PickJobs, OpenWriter, CommitDocs, WriteIndexMeta,
           MarkProcessed, IndexerRestarts, OnStep
  <2> QED BY <1>1, <1>2, <2>1
<1>4. ixMeta'[r] = ixMeta[r] \/ ixMeta'[r] \in IxIds
  <2>1. ixMeta' = ixMeta \/ \E w \in Indexers : ~OnStep(w, "poll") /\ ixMeta' = [ixMeta EXCEPT ![ixJob[Current(w)].repo] = Current(w)]
    BY DEF SearchNext, searchVars, Enqueue, Index, PickJobs, OpenWriter, CommitDocs, WriteIndexMeta,
           MarkProcessed, IndexerRestarts, OnStep
  <2> QED BY <1>1, <1>2, <2>1
<1>5. ixMeta[r] \in 0..Len(ixJob) /\ (docs[r] = {} \/ \E j \in IxIds : docs[r] = {j})
  BY DEF IndexNames
<1>6. IxIds \subseteq IxIds' /\ Len(ixJob) \in Nat /\ Len(ixJob)' \in Nat /\ Len(ixJob) <= Len(ixJob)'
  BY PushesGrow
<1>7. ixMeta'[r] \in 0..Len(ixJob)'
  BY <1>4, <1>5, <1>6 DEF IxIds
<1>8. docs'[r] = {} \/ \E j \in IxIds' : docs'[r] = {j}
  BY <1>3, <1>5, <1>6
<1> QED BY <1>7, <1>8

LEMMA SearchFits == SearchInv /\ IndexNames => SearchTypeOK
<1> SUFFICES ASSUME SearchInv, IndexNames PROVE SearchTypeOK
  OBVIOUS
<1>1. \A j \in IxIds : ixJob[j].repo \in IndexRepos /\ ixJob[j].state \in {"pending", "indexed", "failed"}
  BY JobsTyped DEF SearchInv, IndexJob
<1>2. ASSUME NEW r \in IndexRepos PROVE docs[r] \subseteq IxIds /\ Cardinality(docs[r]) <= 1
  <2>1. docs[r] = {} \/ \E j \in IxIds : docs[r] = {j}
    BY DEF IndexNames
  <2>2. CASE docs[r] = {}
    BY <2>2, FS_EmptySet
  <2>3. ASSUME NEW j \in IxIds, docs[r] = {j} PROVE Cardinality(docs[r]) = 1 /\ docs[r] \subseteq IxIds
    BY <2>3, FS_Singleton
  <2> QED BY <2>1, <2>2, <2>3
<1> QED BY <1>1, <1>2 DEF SearchTypeOK, SearchInv, SearchTyped, IndexNames

(* A worker has read at least as many rows as it has failed, has at hand   *)
(* and has to do.                                                          *)
Load(x) == x.fails + Cardinality(x.todo) + (IF x.at = Nothing THEN 0 ELSE 1)
InBalance(x) == IsFiniteSet(x.todo) /\ Load(x) <= x.count
Balanced == \A t \in ImportWorkers : InBalance(importer[t])
(* Drawn numbers stay in their range, and no issue is both a user's and    *)
(* imported.                                                               *)
Numbered ==
  /\ users \in [ImportRows -> SUBSET Nat] /\ hand \in [ImportRows -> Nat]
  /\ \A r \in ImportRows : /\ next[r] \in 1..(RemoteIssues + MaxUserIssues + 1)
                           /\ users[r] \cap imported[r] = {}

LEMMA IdleIsBalanced == InBalance(ImportIdle) /\ ImportIdle \in Worker
<1>1. ImportIdle.todo = {} /\ ImportIdle.fails = 0 /\ ImportIdle.at = Nothing /\ ImportIdle.count = 0
  BY DEF ImportIdle
<1> QED BY <1>1, FS_EmptySet DEF InBalance, Load, ImportIdle, Worker

LEMMA CountsInitially == ImportInit => Balanced /\ Numbered
<1> SUFFICES ASSUME ImportInit PROVE Balanced /\ Numbered
  OBVIOUS
<1>1. Balanced
  BY IdleIsBalanced DEF ImportInit, Balanced
<1>2. 1 \in 1..(RemoteIssues + MaxUserIssues + 1)
  BY ImportAssumption
<1> QED BY <1>1, <1>2 DEF ImportInit, Numbered

\* The loads add up as long as one worker's do.
LEMMA OneBalances ==
  ASSUME ImportTyped, Balanced, NEW t \in ImportWorkers, NEW z \in Worker, InBalance(z),
         importer' = [importer EXCEPT ![t] = z]
  PROVE  Balanced'
<1>1. \A u \in ImportWorkers : importer'[u] = IF u = t THEN z ELSE importer[u]
  BY DEF ImportTyped
<1> QED BY <1>1 DEF Balanced, InBalance, Load

LEMMA LoadTyped ==
  ASSUME NEW x \in Worker, InBalance(x)
  PROVE  x.fails \in Nat /\ Cardinality(x.todo) \in Nat /\ x.count \in Nat /\ IsFiniteSet(x.todo)
BY FS_CardinalityType DEF Worker, InBalance

LEMMA GoesBalances ==
  ASSUME ImportTyped, Balanced, NEW t \in ImportWorkers,
         NEW pc \in {"idle", "read", "next", "create", "claim", "mirror", "upsert", "bump", "finish"}, Goes(t, pc)
  PROVE  Balanced'
<1>1. PICK x : x = importer[t]
  OBVIOUS
<1>2. PICK z : z = [x EXCEPT !.pc = pc]
  OBVIOUS
<1>3. x \in Worker /\ InBalance(x)
  BY <1>1, RecordIs DEF Balanced
<1>4. z \in Worker /\ z.at = x.at /\ z.todo = x.todo /\ z.fails = x.fails /\ z.count = x.count
  BY <1>2, <1>3 DEF Worker
<1>5. importer' = [importer EXCEPT ![t] = z]
  BY <1>1, <1>2 DEF Goes
<1>6. InBalance(z)
  BY <1>3, <1>4 DEF InBalance, Load
<1> QED BY <1>4, <1>5, <1>6, OneBalances

LEMMA NextRowBalances ==
  ASSUME ImportTyped, Balanced, NEW t \in ImportWorkers, NextRow(t)
  PROVE  Balanced'
<1>1. PICK x : x = importer[t]
  OBVIOUS
<1>2. PICK z : z = [x EXCEPT !.pc = "next", !.at = Nothing]
  OBVIOUS
<1>3. x \in Worker /\ InBalance(x)
  BY <1>1, RecordIs DEF Balanced
<1>4. z \in Worker /\ z.at = Nothing /\ z.todo = x.todo /\ z.fails = x.fails /\ z.count = x.count
  BY <1>2, <1>3 DEF Worker
<1>5. importer' = [importer EXCEPT ![t] = z]
  BY <1>1, <1>2 DEF NextRow
<1>6. InBalance(z)
  BY <1>3, <1>4, LoadTyped DEF InBalance, Load
<1> QED BY <1>4, <1>5, <1>6, OneBalances

LEMMA FailRowBalances ==
  ASSUME ImportTyped, Balanced, NEW t \in ImportWorkers, Here(t) # Nothing, FailRow(t)
  PROVE  Balanced'
<1>1. PICK x : x = importer[t]
  OBVIOUS
<1>2. x \in Worker /\ InBalance(x) /\ x.at # Nothing
  BY <1>1, RecordIs DEF Balanced, Here
<1>3. PICK n \in Nat : n = x.fails + 1
  BY <1>2 DEF Worker
<1>4. PICK z : z = [x EXCEPT !.pc = "next", !.at = Nothing, !.fails = n]
  OBVIOUS
<1>5. z \in Worker /\ z.at = Nothing /\ z.todo = x.todo /\ z.fails = x.fails + 1 /\ z.count = x.count
  BY <1>2, <1>3, <1>4 DEF Worker
<1>6. importer' = [importer EXCEPT ![t] = z]
  BY <1>1, <1>3, <1>4 DEF FailRow
<1>7. InBalance(z)
  BY <1>2, <1>5, LoadTyped DEF InBalance, Load
<1> QED BY <1>5, <1>6, <1>7, OneBalances

\* The rows that are read are counted.
LEMMA ReadRowsBalances ==
  ASSUME ImportTyped, Balanced, NEW t \in ImportWorkers, ReadRows(t)
  PROVE  Balanced'
<1>1. PICK open : open = IF job.status = "gone" THEN {} ELSE {r \in JobRows : row[r].status \in Open}
  OBVIOUS
<1>2. PICK f : f = [r \in open |-> <<r, row[r].status, row[r].linked>>]
  OBVIOUS
<1>3. PICK todo : todo = {f[r] : r \in open}
  OBVIOUS
<1>4. open \subseteq ImportRows /\ \A r \in open : r \in JobRows /\ row[r].status \in Open
  BY <1>1 DEF ImportTyped
<1>5. IsFiniteSet(open)
  BY <1>4, ImportAssumption, FS_Subset
<1>6. f \in Surjection(open, todo)
  BY <1>2, <1>3 DEF Surjection
<1>7. IsFiniteSet(todo) /\ Cardinality(todo) <= Cardinality(open)
  BY <1>5, <1>6, FS_Surjection
<1>8. PICK n \in Nat : n = Cardinality(open)
  BY <1>5, FS_CardinalityType
<1>9. PICK z : z = [ImportIdle EXCEPT !.pc = "next", !.todo = todo, !.count = n]
  OBVIOUS
<1>10. todo \in SUBSET (ImportRows \X Open \X BOOLEAN)
  <2> SUFFICES ASSUME NEW r \in open
               PROVE  <<r, row[r].status, row[r].linked>> \in ImportRows \X Open \X BOOLEAN
    BY <1>2, <1>3
  <2>1. row[r] \in ImportRow
    BY <1>4 DEF ImportTyped
  <2> QED BY <1>4, <2>1 DEF ImportRow
<1>11. z \in Worker /\ z.at = Nothing /\ z.todo = todo /\ z.fails = 0 /\ z.count = n
  BY <1>9, <1>10 DEF ImportIdle, Worker
<1>12. todo = {<<r, row[r].status, row[r].linked>> : r \in open}
  BY <1>2, <1>3
<1>13. importer' = [importer EXCEPT ![t] = z]
  BY <1>1, <1>8, <1>9, <1>12 DEF ReadRows
<1>14. Cardinality(todo) \in Nat
  BY <1>7, FS_CardinalityType
<1>15. InBalance(z)
  BY <1>7, <1>8, <1>11, <1>14 DEF InBalance, Load
<1> QED BY <1>11, <1>13, <1>15, OneBalances

\* A row goes from those to do into the hand, or is skipped.
LEMMA LocateBalances ==
  ASSUME ImportTyped, RowsInv, Balanced, NEW t \in ImportWorkers, Locate(t)
  PROVE  Balanced'
<1>1. PICK x : x = importer[t]
  OBVIOUS
<1>2. x.pc = "next" /\ x \in Worker /\ WorkFits(x) /\ InBalance(x)
  BY <1>1, RecordIs DEF Locate, Doing, RowsInv, Balanced
<1>3. x.at = Nothing
  BY <1>2 DEF WorkFits
<1>4. PICK e \in x.todo :
        \/ \E pc \in {"create", "claim", "upsert"} :
             importer' = [importer EXCEPT ![t].pc = pc, ![t].todo = @ \ {e}, ![t].at = e[1]]
        \/ importer' = [importer EXCEPT ![t].todo = @ \ {e}]
  BY <1>1 DEF Locate
<1>5. PICK rest : rest = x.todo \ {e}
  OBVIOUS
<1>6. rest \in SUBSET (ImportRows \X Open \X BOOLEAN) /\ e[1] \in ImportRows
  BY <1>2, <1>5 DEF Worker
<1>7. IsFiniteSet(rest) /\ Cardinality(rest) = Cardinality(x.todo) - 1 /\ Cardinality(rest) \in Nat
  BY <1>2, <1>5, LoadTyped, FS_RemoveElement, FS_CardinalityType
<1>8. \E z \in Worker : InBalance(z) /\ importer' = [importer EXCEPT ![t] = z]
  <2>1. ASSUME NEW pc \in {"create", "claim", "upsert"},
               importer' = [importer EXCEPT ![t].pc = pc, ![t].todo = @ \ {e}, ![t].at = e[1]]
        PROVE  \E z \in Worker : InBalance(z) /\ importer' = [importer EXCEPT ![t] = z]
    <3>1. PICK z : z = [x EXCEPT !.pc = pc, !.todo = rest, !.at = e[1]]
      OBVIOUS
    <3>2. z \in Worker /\ z.todo = rest /\ z.fails = x.fails /\ z.count = x.count
      BY <1>2, <1>6, <3>1 DEF Worker
    <3>3. importer' = [importer EXCEPT ![t] = z]
      BY <1>1, <1>5, <2>1, <3>1
    <3>4. InBalance(z)
      BY <1>2, <1>3, <1>7, <3>2, LoadTyped DEF InBalance, Load
    <3> QED BY <3>2, <3>3, <3>4
  <2>2. ASSUME importer' = [importer EXCEPT ![t].todo = @ \ {e}]
        PROVE  \E z \in Worker : InBalance(z) /\ importer' = [importer EXCEPT ![t] = z]
    <3>1. PICK z : z = [x EXCEPT !.todo = rest]
      OBVIOUS
    <3>2. z \in Worker /\ z.todo = rest /\ z.fails = x.fails /\ z.count = x.count /\ z.at = Nothing
      BY <1>2, <1>3, <1>6, <3>1 DEF Worker
    <3>3. importer' = [importer EXCEPT ![t] = z]
      BY <1>1, <1>5, <2>2, <3>1
    <3>4. InBalance(z)
      BY <1>2, <1>3, <1>7, <3>2, LoadTyped DEF InBalance, Load
    <3> QED BY <3>2, <3>3, <3>4
  <2> QED BY <1>4, <2>1, <2>2
<1> QED BY <1>8, OneBalances

LEMMA BalancedStep == ImportInv /\ Balanced /\ [ImportNext]_importVars => Balanced'
<1> SUFFICES ASSUME ImportInv, Balanced, [ImportNext]_importVars PROVE Balanced'
  OBVIOUS
<1>1. ImportTyped /\ RowsInv
  BY DEF ImportInv
<1>2. CASE importer' = importer
  BY <1>2 DEF Balanced
<1>3. ASSUME NEW t \in ImportWorkers, ClaimJob(t) \/ FinishRow(t) \/ ClaimMirror(t) \/ UpsertIssues(t) \/ BumpCounter(t)
      PROVE  Balanced'
  <2>1. NextRow(t) \/ \E pc \in {"read", "mirror", "bump", "finish"} : Goes(t, pc)
    BY <1>3 DEF ClaimJob, FinishRow, ClaimMirror, UpsertIssues, BumpCounter
  <2> QED BY <1>1, <2>1, GoesBalances, NextRowBalances
<1>4. ASSUME NEW t \in ImportWorkers, CreateShell(t) \/ Mirror(t) PROVE Balanced'
  <2>1. FailRow(t) \/ \E pc \in {"claim", "upsert", "finish"} : Goes(t, pc)
    BY <1>4 DEF CreateShell, Mirror
  <2>2. Here(t) # Nothing
    BY <1>1, <1>4, AtRow DEF CreateShell, Mirror, Doing
  <2> QED BY <1>1, <2>1, <2>2, GoesBalances, FailRowBalances
<1>5. ASSUME NEW t \in ImportWorkers, EndJob(t) \/ ImporterDies(t) PROVE Balanced'
  <2>1. importer' = [importer EXCEPT ![t] = ImportIdle]
    BY <1>5 DEF EndJob, ImporterDies
  <2> QED BY <1>1, <2>1, IdleIsBalanced, OneBalances
<1>6. ASSUME NEW t \in ImportWorkers, ReadRows(t) \/ Locate(t) PROVE Balanced'
  BY <1>1, <1>6, ReadRowsBalances, LocateBalances
<1>7. ASSUME NEW r \in ImportRows, DrawNumber(r) \/ InsertIssue(r) PROVE importer' = importer
  BY <1>7 DEF DrawNumber, InsertIssue
<1>8. ASSUME DeleteCredential \/ Age PROVE importer' = importer
  BY <1>8 DEF DeleteCredential, Age
<1>9. ASSUME UNCHANGED importVars PROVE importer' = importer
  BY <1>9 DEF importVars
<1> QED BY <1>2, <1>3, <1>4, <1>5, <1>6, <1>7, <1>8, <1>9 DEF ImportNext, ImportStep

LEMMA NumberedStep == ImportInv /\ Numbered /\ [ImportNext]_importVars => Numbered'
<1> SUFFICES ASSUME ImportInv, Numbered, [ImportNext]_importVars PROVE Numbered'
  OBVIOUS
<1>1. ImportTyped /\ RowsInv
  BY DEF ImportInv
<1>2. next \in [ImportRows -> Nat] /\ imported \in [ImportRows -> SUBSET Nat]
      /\ RemoteIssues \in Nat /\ MaxUserIssues \in Nat
  BY <1>1, ImportAssumption DEF ImportTyped
<1>3. CASE UNCHANGED tracker
  BY <1>3 DEF tracker, Numbered
<1>4. ASSUME NEW t \in ImportWorkers, UpsertIssues(t) PROVE Numbered'
  <2>1. Here(t) \in ImportRows
    BY <1>1, <1>4, AtRow DEF UpsertIssues, Doing
  <2>2. PICK r : r = Here(t)
    OBVIOUS
  <2>3. PICK n \in Arrived : imported' = [imported EXCEPT ![r] = @ \cup 1..n] /\ users' = [users EXCEPT ![r] = @ \ 1..n]
    BY <1>4, <2>2 DEF UpsertIssues, Overwrite
  <2>4. UNCHANGED <<next, hand>>
    BY <1>4 DEF UpsertIssues
  <2>5. users' \in [ImportRows -> SUBSET Nat]
    BY <2>3 DEF Numbered
  <2>6. \A q \in ImportRows : users'[q] \cap imported'[q] = {}
    BY <1>2, <2>1, <2>2, <2>3 DEF Numbered
  <2> QED BY <2>4, <2>5, <2>6 DEF Numbered
<1>5. ASSUME NEW t \in ImportWorkers, BumpCounter(t) PROVE Numbered'
  <2>1. PICK r : r = Here(t)
    OBVIOUS
  <2>2. next' = [next EXCEPT ![r] = IF @ > RemoteIssues THEN @ ELSE RemoteIssues + 1] /\ UNCHANGED <<imported, users, hand>>
    BY <1>5, <2>1 DEF BumpCounter
  <2>3. \A q \in ImportRows : next'[q] \in {next[q], RemoteIssues + 1}
    BY <1>2, <2>2
  <2> QED BY <1>2, <2>2, <2>3 DEF Numbered
<1>6. ASSUME NEW r \in ImportRows, DrawNumber(r) PROVE Numbered'
  <2>1. next[r] <= RemoteIssues + MaxUserIssues /\ next' = [next EXCEPT ![r] = @ + 1]
        /\ hand' = [hand EXCEPT ![r] = next[r]] /\ UNCHANGED <<imported, users>>
    BY <1>6 DEF DrawNumber
  <2>2. \A q \in ImportRows : next'[q] = next[q] \/ (q = r /\ next'[q] = next[r] + 1)
    BY <1>2, <2>1
  <2>3. hand' \in [ImportRows -> Nat]
    BY <1>2, <2>1 DEF Numbered
  <2> QED BY <1>2, <2>1, <2>2, <2>3 DEF Numbered
<1>7. ASSUME NEW r \in ImportRows, InsertIssue(r) PROVE Numbered'
  <2>1. users' = users \/ (hand[r] \notin imported[r] /\ users' = [users EXCEPT ![r] = @ \cup {hand[r]}])
    BY <1>7 DEF InsertIssue
  <2>2. hand' = [hand EXCEPT ![r] = 0] /\ UNCHANGED <<next, imported>>
    BY <1>7 DEF InsertIssue
  <2>3. hand' \in [ImportRows -> Nat]
    BY <2>2 DEF Numbered
  <2>4. users' \in [ImportRows -> SUBSET Nat] /\ \A q \in ImportRows : users'[q] \cap imported[q] = {}
    BY <2>1 DEF Numbered
  <2> QED BY <2>2, <2>3, <2>4 DEF Numbered
<1>8. ASSUME NEW t \in ImportWorkers,
             ClaimJob(t) \/ ReadRows(t) \/ EndJob(t) \/ Locate(t) \/ CreateShell(t) \/ ClaimMirror(t)
               \/ Mirror(t) \/ FinishRow(t) \/ ImporterDies(t)
      PROVE  UNCHANGED tracker
  BY <1>8 DEF ClaimJob, ReadRows, EndJob, Locate, CreateShell, ClaimMirror, Mirror, FinishRow, ImporterDies
<1>9. ASSUME DeleteCredential \/ Age \/ UNCHANGED importVars PROVE UNCHANGED tracker
  BY <1>9 DEF DeleteCredential, Age, importVars, tracker
<1> QED BY <1>3, <1>4, <1>5, <1>6, <1>7, <1>8, <1>9 DEF ImportNext, ImportStep

LEMMA ImportFitsType == ImportInv /\ Balanced /\ Numbered => ImportTypeOK
<1> SUFFICES ASSUME ImportInv, Balanced, Numbered PROVE ImportTypeOK
  OBVIOUS
<1>1. ImportTyped
  BY DEF ImportInv
<1>2. \A r \in JobRows : row[r].status \in Open \cup Settled
  BY <1>1 DEF ImportTyped, ImportRow
<1>3. ASSUME NEW t \in ImportWorkers PROVE importer[t].fails <= importer[t].count
  <2>1. PICK x : x = importer[t]
    OBVIOUS
  <2>2. x \in Worker /\ InBalance(x)
    BY <1>1, <2>1, RecordIs DEF Balanced
  <2>3. x.fails <= x.count
    BY <2>2, LoadTyped DEF InBalance, Load
  <2> QED BY <2>1, <2>3
<1> QED BY <1>1, <1>2, <1>3 DEF ImportTypeOK, ImportTyped, Numbered

(* The custom role of a member is there, and of the member's group.        *)
TeamRows == [members : SUBSET People, access : RepoRoles \cup {Nil}]
PolicyTyped ==
  /\ custom \in [CustomRoles -> CustomRows] /\ direct \in [People -> RepoRoles \cup {Nil}]
  /\ team \in [Teams -> TeamRows \cup {Nil}]
RoleOf(g, x) == x = Nil \/ (x \in CustomRoles /\ custom[x] # Nil /\ CustomGroup[x] = g)
RolesFit == \A g \in Groups, u \in People : IsRow(g, u) => RoleOf(g, member[g][u].custom)
VisitsFit == \A c \in MemberClients :
  visit[c].op = "set" /\ visit[c].extra # Nil => CustomGroup[visit[c].extra] = visit[c].group
PolicyInv == PolicyTyped /\ RolesFit /\ VisitsFit

LEMMA PolicyInitially == MemberInit => PolicyInv
<1> SUFFICES ASSUME MemberInit PROVE PolicyInv
  OBVIOUS
<1>1. PICK u \in People :
        /\ member = [g \in Groups |-> [v \in People |-> IF v = u THEN [role |-> "owner", custom |-> Nil] ELSE Nil]]
        /\ direct = [v \in People |-> IF v = u THEN "admin" ELSE Nil]
  BY DEF MemberInit
<1>2. PolicyTyped
  BY <1>1 DEF MemberInit, PolicyTyped, CustomRows, RepoRoles
<1>3. RolesFit
  <2> SUFFICES ASSUME NEW g \in Groups, NEW v \in People, member[g][v] # Nil
               PROVE  member[g][v].custom = Nil
    BY DEF RolesFit, IsRow, RoleOf
  <2>1. member[g][v] = [role |-> "owner", custom |-> Nil]
    BY <1>1
  <2> QED BY <2>1
<1>4. VisitsFit
  BY DEF MemberInit, VisitsFit, NoVisit
<1> QED BY <1>2, <1>3, <1>4 DEF PolicyInv

\* One row is written with a role of its group, or goes.
LEMMA RowKeepsRoles ==
  ASSUME MemberTyped, RolesFit, NEW g \in Groups, NEW u \in People, NEW z,
         z # Nil => RoleOf(g, z.custom),
         member' = [member EXCEPT ![g][u] = z], custom' = custom
  PROVE  RolesFit'
<1> SUFFICES ASSUME NEW h \in Groups, NEW v \in People, member'[h][v] # Nil
             PROVE  RoleOf(h, member'[h][v].custom)
  BY DEF RolesFit, IsRow, RoleOf
<1>1. member'[h][v] = IF h = g /\ v = u THEN z ELSE member[h][v]
  BY DEF MemberTyped
<1>2. CASE h = g /\ v = u
  BY <1>1, <1>2
<1>3. CASE ~(h = g /\ v = u)
  BY <1>1, <1>3 DEF RolesFit, IsRow
<1> QED BY <1>2, <1>3

LEMMA MembersKeepRoles ==
  ASSUME MemberTyped, PolicyInv, NEW g \in Groups, NEW a \in People, NEW u \in People, AddMember(g, a, u)
  PROVE  PolicyInv'
<1>1. PICK role \in OrgRoles, x \in Customs(g) : member' = [member EXCEPT ![g][u] = [role |-> role, custom |-> x]]
  BY DEF AddMember, Write
<1>2. UNCHANGED <<custom, team, direct, visit>>
  BY DEF AddMember, policy
<1>3. PICK z : z = [role |-> role, custom |-> x]
  OBVIOUS
<1>4. z.custom = x /\ RoleOf(g, x)
  BY <1>3 DEF Customs, RoleOf
<1>5. RolesFit'
  BY <1>1, <1>2, <1>3, <1>4, RowKeepsRoles DEF PolicyInv
<1> QED BY <1>2, <1>5 DEF PolicyInv, PolicyTyped, VisitsFit

LEMMA VisitKeepsRoles ==
  ASSUME MemberTyped, PolicyInv, NEW c \in MemberClients, NEW g \in Groups, NEW a \in People, NEW u \in People,
         OpenSet(c, g, a, u) \/ OpenRemove(c, g, a, u)
  PROVE  PolicyInv'
<1>1. PICK v : /\ Opens(c, v)
               /\ v.op = "set" => v.extra \in Customs(g) /\ v.group = g
  <2>1. ASSUME OpenSet(c, g, a, u) PROVE \E v : Opens(c, v) /\ (v.op = "set" => v.extra \in Customs(g) /\ v.group = g)
    <3>1. PICK role \in OrgRoles, x \in Customs(g) :
            Opens(c, [op |-> "set", group |-> g, user |-> u, role |-> role, extra |-> x])
      BY <2>1 DEF OpenSet
    <3> QED BY <3>1
  <2>2. ASSUME OpenRemove(c, g, a, u) PROVE \E v : Opens(c, v) /\ (v.op = "set" => v.extra \in Customs(g) /\ v.group = g)
    <3>1. Opens(c, [op |-> "remove", group |-> g, user |-> u, role |-> Nil, extra |-> Nil])
      BY <2>2 DEF OpenRemove
    <3> QED BY <3>1
  <2> QED BY <2>1, <2>2
<1>2. visit' = [visit EXCEPT ![c] = v] /\ UNCHANGED <<member, custom, team, direct>>
  BY <1>1 DEF Opens, policy
<1>3. VisitsFit'
  <2> SUFFICES ASSUME NEW d \in MemberClients, visit'[d].op = "set", visit'[d].extra # Nil
               PROVE  CustomGroup[visit'[d].extra] = visit'[d].group
    BY DEF VisitsFit
  <2>1. visit'[d] = IF d = c THEN v ELSE visit[d]
    BY <1>2 DEF MemberTyped
  <2>2. CASE d = c
    BY <1>1, <2>1, <2>2 DEF Customs
  <2>3. CASE d # c
    BY <2>1, <2>3 DEF PolicyInv, VisitsFit
  <2> QED BY <2>2, <2>3
<1> QED BY <1>2, <1>3 DEF PolicyInv, PolicyTyped, RolesFit, IsRow, RoleOf

LEMMA ClosesKeepsVisits ==
  ASSUME MemberTyped, VisitsFit, NEW c \in MemberClients, Closes(c)
  PROVE  VisitsFit'
<1> SUFFICES ASSUME NEW d \in MemberClients, visit'[d].op = "set", visit'[d].extra # Nil
             PROVE  CustomGroup[visit'[d].extra] = visit'[d].group
  BY DEF VisitsFit
<1>1. visit'[d] = IF d = c THEN NoVisit ELSE visit[d]
  BY DEF MemberTyped, Closes
<1>2. d # c
  BY <1>1 DEF NoVisit
<1> QED BY <1>1, <1>2 DEF VisitsFit

LEMMA CommitKeepsRoles ==
  ASSUME MemberTyped, PolicyInv, NEW c \in MemberClients, CommitSet(c) \/ CommitRemove(c)
  PROVE  PolicyInv'
<1>1. Closes(c) /\ UNCHANGED <<custom, team, direct>>
  BY DEF CommitSet, CommitRemove, Closes, policy
<1>2. PICK v \in Visits : v = visit[c]
  BY DEF MemberTyped
<1>3. Changes(v)
  BY <1>2 DEF CommitSet, CommitRemove, Changes
<1>4. v.group \in Groups /\ v.user \in People
  BY <1>3, VisitFields
<1>5. ASSUME CommitSet(c) PROVE RolesFit'
  <2>1. v.op = "set" /\ v.extra \in CustomRoles \cup {Nil}
    BY <1>2, <1>3, <1>5, VisitFields DEF CommitSet
  <2>2. PICK z : z = [role |-> v.role, custom |-> v.extra]
    OBVIOUS
  <2>3. member' = member \/ ((v.extra # Nil => custom[v.extra] # Nil) /\ member' = [member EXCEPT ![v.group][v.user] = z])
    BY <1>2, <1>5, <2>2 DEF CommitSet, Write
  <2>4. v.extra # Nil => CustomGroup[v.extra] = v.group
    BY <1>2, <2>1 DEF PolicyInv, VisitsFit
  <2>5. (v.extra # Nil => custom[v.extra] # Nil) => RoleOf(v.group, z.custom)
    BY <2>1, <2>2, <2>4 DEF RoleOf
  <2>6. CASE member' = member
    BY <1>1, <2>6 DEF PolicyInv, RolesFit, IsRow, RoleOf
  <2>7. CASE (v.extra # Nil => custom[v.extra] # Nil) /\ member' = [member EXCEPT ![v.group][v.user] = z]
    BY <1>1, <1>4, <2>5, <2>7, RowKeepsRoles DEF PolicyInv
  <2> QED BY <2>3, <2>6, <2>7
<1>6. ASSUME CommitRemove(c) PROVE RolesFit'
  <2>1. member' = [member EXCEPT ![v.group][v.user] = Nil]
    BY <1>2, <1>6 DEF CommitRemove, Write
  <2> QED BY <1>1, <1>4, <2>1, RowKeepsRoles DEF PolicyInv
<1>7. VisitsFit'
  BY <1>1, ClosesKeepsVisits DEF PolicyInv
<1> QED BY <1>1, <1>5, <1>6, <1>7 DEF PolicyInv, PolicyTyped

LEMMA SyncKeepsRoles ==
  ASSUME MemberTyped, PolicyInv, NEW g \in Groups, NEW u \in People, NEW role, SyncLdap(g, u, role)
  PROVE  PolicyInv'
<1>1. UNCHANGED <<custom, team, direct, visit>>
  BY DEF SyncLdap, policy
<1>2. PICK x : x = IF IsRow(g, u) THEN member[g][u].custom ELSE Nil
  OBVIOUS
<1>3. PICK z : z = [role |-> role, custom |-> x]
  OBVIOUS
<1>4. member' = [member EXCEPT ![g][u] = z]
  BY <1>2, <1>3 DEF SyncLdap, Write, MemberTyped
<1>5. RoleOf(g, z.custom)
  BY <1>2, <1>3 DEF PolicyInv, RolesFit, RoleOf
<1>6. RolesFit'
  BY <1>1, <1>4, <1>5, RowKeepsRoles DEF PolicyInv
<1> QED BY <1>1, <1>6 DEF PolicyInv, PolicyTyped, VisitsFit

LEMMA DropKeepsRoles ==
  ASSUME MemberTyped, PolicyInv, NEW u \in People, DropUser(u)
  PROVE  PolicyInv'
<1>1. /\ member' = [g \in Groups |-> [member[g] EXCEPT ![u] = Nil]] /\ UNCHANGED <<custom, visit>>
      /\ team' = [t \in Teams |-> IF team[t] = Nil THEN Nil ELSE [team[t] EXCEPT !.members = @ \ {u}]]
      /\ direct' = [direct EXCEPT ![u] = Nil]
  BY DEF DropUser, Write
<1>2. RolesFit'
  <2> SUFFICES ASSUME NEW h \in Groups, NEW v \in People, member'[h][v] # Nil
               PROVE  RoleOf(h, member'[h][v].custom)
    BY <1>1 DEF RolesFit, IsRow, RoleOf
  <2>1. member'[h][v] = member[h][v]
    BY <1>1 DEF MemberTyped
  <2> QED BY <2>1 DEF PolicyInv, RolesFit, IsRow
<1>3. ASSUME NEW t \in Teams, team[t] # Nil PROVE [team[t] EXCEPT !.members = @ \ {u}] \in TeamRows
  <2>1. PICK x \in TeamRows : x = team[t]
    BY <1>3 DEF PolicyInv, PolicyTyped
  <2>2. [x EXCEPT !.members = @ \ {u}] \in TeamRows
    BY DEF TeamRows
  <2> QED BY <2>1, <2>2
<1>4. team' \in [Teams -> TeamRows \cup {Nil}]
  BY <1>1, <1>3
<1>5. direct' \in [People -> RepoRoles \cup {Nil}]
  BY <1>1 DEF PolicyInv, PolicyTyped
<1> QED BY <1>1, <1>2, <1>4, <1>5 DEF PolicyInv, PolicyTyped, VisitsFit

LEMMA TeamKeepsRoles ==
  ASSUME PolicyInv, NEW t \in Teams, NEW a \in People,
         \/ ToggleTeam(a, t) \/ \E u \in People : JoinTeam(a, t, u)
         \/ \E r \in RepoRoles \cup {Nil} : SetTeamAccess(a, t, r)
  PROVE  PolicyInv'
<1>1. UNCHANGED <<member, custom, direct, visit>>
  BY DEF ToggleTeam, JoinTeam, SetTeamAccess, Policy
<1>2. team \in [Teams -> TeamRows \cup {Nil}]
  BY DEF PolicyInv, PolicyTyped
<1>3. team' \in [Teams -> TeamRows \cup {Nil}]
  <2>1. ASSUME ToggleTeam(a, t) PROVE team' \in [Teams -> TeamRows \cup {Nil}]
    <3>1. [members |-> {}, access |-> Nil] \in TeamRows
      BY DEF TeamRows
    <3>2. team' = [team EXCEPT ![t] = Nil] \/ team' = [team EXCEPT ![t] = [members |-> {}, access |-> Nil]]
      BY <2>1 DEF ToggleTeam
    <3> QED BY <1>2, <3>1, <3>2
  <2>2. ASSUME NEW x, x \in TeamRows, team' = [team EXCEPT ![t] = x] PROVE team' \in [Teams -> TeamRows \cup {Nil}]
    BY <1>2, <2>2
  <2>3. ASSUME NEW u \in People, JoinTeam(a, t, u) PROVE team' \in [Teams -> TeamRows \cup {Nil}]
    <3>1. PICK y \in TeamRows : y = team[t]
      BY <1>2, <2>3 DEF JoinTeam
    <3>2. PICK S \in SUBSET People : S = IF u \in y.members THEN y.members \ {u} ELSE y.members \cup {u}
      BY DEF TeamRows
    <3>3. PICK x : x = [y EXCEPT !.members = S]
      OBVIOUS
    <3>4. x \in TeamRows
      BY <3>3 DEF TeamRows
    <3>5. team' = [team EXCEPT ![t] = x]
      BY <2>3, <3>1, <3>2, <3>3 DEF JoinTeam
    <3> QED BY <2>2, <3>4, <3>5
  <2>4. ASSUME NEW r \in RepoRoles \cup {Nil}, SetTeamAccess(a, t, r) PROVE team' \in [Teams -> TeamRows \cup {Nil}]
    <3>1. PICK y \in TeamRows : y = team[t]
      BY <1>2, <2>4 DEF SetTeamAccess
    <3>2. PICK x : x = [y EXCEPT !.access = r]
      OBVIOUS
    <3>3. x \in TeamRows
      BY <3>2 DEF TeamRows
    <3>4. team' = [team EXCEPT ![t] = x]
      BY <2>4, <3>1, <3>2 DEF SetTeamAccess
    <3> QED BY <2>2, <3>3, <3>4
  <2> QED BY <2>1, <2>3, <2>4
<1> QED BY <1>1, <1>3 DEF PolicyInv, PolicyTyped, RolesFit, IsRow, RoleOf, VisitsFit

\* A role that is deleted is taken from the members that have it.
LEMMA CustomRoleKeepsRoles ==
  ASSUME MemberTyped, PolicyInv, NEW c \in CustomRoles, NEW new \in CustomRows, NEW a \in People,
         SetCustomRole(a, c, new)
  PROVE  PolicyInv'
<1>1. custom' = [custom EXCEPT ![c] = new] /\ UNCHANGED <<team, direct, visit>>
  BY DEF SetCustomRole, Policy
<1>2. custom' \in [CustomRoles -> CustomRows] /\ custom'[c] = new /\ \A x \in CustomRoles \ {c} : custom'[x] = custom[x]
  BY <1>1 DEF PolicyInv, PolicyTyped
<1> DEFINE Stays(g, x) == x = Nil \/ (x \in CustomRoles /\ custom'[x] # Nil /\ CustomGroup[x] = g)
<1>3. RolesFit'
  <2> SUFFICES ASSUME NEW g \in Groups, NEW u \in People, member'[g][u] # Nil
               PROVE  Stays(g, member'[g][u].custom)
    BY DEF RolesFit, IsRow, RoleOf
  <2>1. PICK z : z = member'[g][u]
    OBVIOUS
  <2>2. CASE new # Nil
    <3>1. member' = member
      BY <2>2 DEF SetCustomRole
    <3>2. RoleOf(g, z.custom)
      BY <2>1, <3>1 DEF PolicyInv, RolesFit, IsRow
    <3> QED BY <1>2, <2>1, <2>2, <3>2 DEF RoleOf
  <2>3. CASE new = Nil
    <3>1. PICK y : y = member[g][u]
      OBVIOUS
    <3>2. z = IF y # Nil /\ y.custom = c THEN [y EXCEPT !.custom = Nil] ELSE y
      BY <2>1, <2>3, <3>1 DEF SetCustomRole, IsRow
    <3>3. CASE y # Nil /\ y.custom = c
      <4>1. y \in MemberRows
        BY <3>1, <3>3 DEF MemberTyped
      <4>2. z.custom = Nil
        BY <3>2, <3>3, <4>1 DEF MemberRows
      <4> QED BY <2>1, <4>2 DEF RoleOf
    <3>4. CASE ~(y # Nil /\ y.custom = c)
      <4>1. z = y /\ y # Nil /\ y.custom # c
        BY <2>1, <3>2, <3>4
      <4>2. RoleOf(g, y.custom)
        BY <3>1, <4>1 DEF PolicyInv, RolesFit, IsRow
      <4> QED BY <1>2, <2>1, <4>1, <4>2 DEF RoleOf
    <3> QED BY <3>3, <3>4
  <2> QED BY <2>2, <2>3
<1> QED BY <1>1, <1>2, <1>3 DEF PolicyInv, PolicyTyped, VisitsFit

LEMMA PolicyStep == MemberTyped /\ PolicyInv /\ [MemberNext]_memberVars => PolicyInv'
<1> SUFFICES ASSUME MemberTyped, PolicyInv, [MemberNext]_memberVars PROVE PolicyInv'
  OBVIOUS
<1>1. ASSUME UNCHANGED <<member, custom, team, visit>>, direct' \in [People -> RepoRoles \cup {Nil}] PROVE PolicyInv'
  BY <1>1 DEF PolicyInv, PolicyTyped, RolesFit, IsRow, RoleOf, VisitsFit
<1>2. ASSUME NEW a \in People, NEW u \in People, NEW r \in RepoRoles \cup {Nil}, SetCollaborator(a, u, r) PROVE PolicyInv'
  <2>1. UNCHANGED <<member, custom, team, visit>> /\ direct' = [direct EXCEPT ![u] = r]
    BY <1>2 DEF SetCollaborator, Policy
  <2>2. direct' \in [People -> RepoRoles \cup {Nil}]
    BY <2>1 DEF PolicyInv, PolicyTyped
  <2> QED BY <1>1, <2>1, <2>2
<1>3. direct \in [People -> RepoRoles \cup {Nil}]
  BY DEF PolicyInv, PolicyTyped
<1>4. ASSUME NEW a \in People, (\E g \in Groups : TransferHome(a, g)) \/ SetVisibility(a) PROVE PolicyInv'
  BY <1>1, <1>3, <1>4 DEF TransferHome, SetVisibility, Policy
<1>5. ASSUME UNCHANGED memberVars PROVE PolicyInv'
  BY <1>1, <1>3, <1>5 DEF memberVars
<1> QED BY <1>2, <1>4, <1>5, MembersKeepRoles, VisitKeepsRoles, CommitKeepsRoles, SyncKeepsRoles, DropKeepsRoles,
           TeamKeepsRoles, CustomRoleKeepsRoles DEF MemberNext

LEMMA MemberFitsType == MemberInv /\ PolicyInv => MemberTypeOK
<1> SUFFICES ASSUME MemberInv, PolicyInv PROVE MemberTypeOK
  OBVIOUS
<1>1. ASSUME NEW g \in Groups, NEW u \in People, IsRow(g, u)
      PROVE  /\ member[g][u].role \in OrgRoles
             /\ member[g][u].custom # Nil => custom[member[g][u].custom] # Nil /\ CustomGroup[member[g][u].custom] = g
  <2>1. member[g][u] \in MemberRows
    BY <1>1 DEF MemberInv, MemberTyped, IsRow
  <2> QED BY <1>1, <2>1 DEF MemberRows, PolicyInv, RolesFit, RoleOf
<1>2. ASSUME NEW t \in Teams, team[t] # Nil PROVE team[t].members \subseteq People /\ Rank(team[t].access) \in 0..3
  <2>1. team[t] \in TeamRows
    BY <1>2 DEF PolicyInv, PolicyTyped
  <2> QED BY <2>1 DEF TeamRows, Rank, RepoRoles
<1> QED BY <1>1, <1>2 DEF MemberTypeOK, PolicyInv, PolicyTyped
=============================================================================
